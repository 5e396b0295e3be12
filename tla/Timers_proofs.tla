---------------------------- MODULE Timers_proofs ----------------------------
(***************************************************************************)
(* Theorems about the list of timers and the server that uses it, for      *)
(* every number of timers and clients.                                     *)
(*                                                                         *)
(* The first half is about TimerList alone: as long as each timer that is  *)
(* set belongs at the end, the nodes that are live form a list in order of *)
(* expiry.  The second half is about TimerServer.                          *)
(***************************************************************************)
EXTENDS TimerServer, EchoNet_proofs, SequenceTheorems

USE DEF pointers, list, call

-----------------------------------------------------------------------------
(* The inductive invariant of the list *)

ListTypes ==
    /\ node \in [Timers -> Fields]
    /\ heap \in [Timers -> {"unborn", "live", "deleted"}]
    /\ head \in Timers \cup {NULL} /\ tail \in Timers \cup {NULL}
    /\ timer \in Timers \cup {NULL} /\ cur \in Timers \cup {NULL}
    /\ now \in 0..MaxTime
    /\ pc \in {"idle", "walk", "tick", "destroy", "undefined"}
    /\ atEnd \in BOOLEAN
    /\ pc = "walk" => timer \in Live

\* Of any two timers of s, which differ, the first is due first or with the other.
Ordered(s) ==
    \A j, k \in 1..Len(s) :
        j < k => s[j] # s[k] /\ node[s[j]].expireTime <= node[s[k]].expireTime

\* s is the list, and has all timers that should be in it.
Listing(s) ==
    /\ s \in Seq(Timers)
    /\ \A k \in 1..Len(s) : s[k] \in Listed
    /\ \A t \in Listed : \E k \in 1..Len(s) : s[k] = t
    /\ IsList(s) /\ Ordered(s)

\* A node that is new is linked to nothing.
Fresh == \A t \in Timers : heap[t] = "unborn" => node[t].next = NULL

\* tick looks at the head; the timer being added goes past all others.
UnderWay ==
    /\ pc = "tick" => cur = head
    /\ pc \in {"idle", "destroy"} => cur = NULL
    /\ pc = "walk" =>
          /\ node[timer].next = NULL /\ Listed # {} /\ cur \in Listed \cup {NULL}
          /\ \A t \in Listed : node[t].expireTime < node[timer].expireTime

Whole == Fresh /\ UnderWay /\ \E s : Listing(s)

NoneDangling == ~Dangling(head) /\ ~Dangling(cur)

ListInv ==
    /\ ListTypes
    /\ atEnd => NoneDangling
    /\ atEnd /\ pc # "undefined" => Whole

LEMMA ListInitInv == Init => ListInv /\ pc # "undefined"
<1> SUFFICES ASSUME Init PROVE ListInv /\ pc # "undefined"
  OBVIOUS
<1> USE DEF Init
<1>1. Live = {} /\ Listed = {}
  BY DEF Live, Listed
<1>2. ListTypes
  BY TimerAssumption DEF ListTypes, Fields
<1>3. Listing(<<>>)
  <2>1. <<>> \in Seq(Timers) /\ 1..Len(<<>>) = {}
    BY EmptySeq
  <2> QED
    BY <1>1, <2>1 DEF Listing, IsList, Ordered
<1>4. Fresh /\ UnderWay
  BY DEF Fresh, UnderWay
<1> QED
  BY <1>2, <1>3, <1>4 DEF ListInv, Whole, NoneDangling, Dangling

\* Where the list begins and ends.
LEMMA EndsOf ==
    ASSUME ListTypes, NEW s, Listing(s)
    PROVE  /\ Len(s) \in Nat
           /\ s = <<>> => head = NULL /\ Listed = {}
           /\ s # <<>> => /\ head = s[1] /\ 1 \in 1..Len(s) /\ Len(s) \in 1..Len(s)
                          /\ pc # "destroy" => tail = s[Len(s)]
           /\ head \in Listed \cup {NULL} /\ (head = NULL => Listed = {})
           /\ pc # "destroy" => tail \in Listed \cup {NULL}
<1>1. Len(s) \in Nat /\ (s # <<>> => 1 \in 1..Len(s) /\ Len(s) \in 1..Len(s))
  BY DEF Listing
<1>2. head = (IF s = <<>> THEN NULL ELSE s[1])
      /\ (pc # "destroy" => tail = IF s = <<>> THEN NULL ELSE s[Len(s)])
  BY DEF Listing, IsList
<1>3. \A k \in 1..Len(s) : s[k] \in Listed /\ s[k] # NULL
  BY TimerAssumption DEF Listing, Listed, Live
<1>4. s = <<>> => Listed = {}
  <2>1. s = <<>> => 1..Len(s) = {}
    OBVIOUS
  <2> QED
    BY <2>1 DEF Listing
<1> QED
  BY <1>1, <1>2, <1>3, <1>4

\* So nothing is left dangling.
LEMMA WholeNotDangling ==
    ASSUME ListTypes, Whole, pc # "undefined"
    PROVE  NoneDangling /\ (pc = "walk" => tail \in Live)
<1>1. PICK s : Listing(s)
  BY DEF Whole
<1>2. Listed \subseteq Live
  BY DEF Listed
<1>3. /\ head \in Listed \cup {NULL} /\ (pc # "destroy" => tail \in Listed \cup {NULL})
      /\ (head = NULL => Listed = {})
  BY <1>1, EndsOf
<1>4. cur \in Listed \cup {NULL}
  BY <1>3 DEF Whole, UnderWay, NoneDangling, Dangling, ListTypes
<1>5. ~Dangling(head) /\ ~Dangling(cur)
  BY <1>2, <1>3, <1>4 DEF Dangling
<1>6. pc = "walk" => tail \in Live
  <2> SUFFICES ASSUME pc = "walk" PROVE tail \in Live
    OBVIOUS
  <2>1. s # <<>>
    BY <1>1, EndsOf DEF Whole, UnderWay
  <2>2. tail = s[Len(s)] /\ Len(s) \in 1..Len(s)
    BY <1>1, <2>1, EndsOf
  <2> QED
    BY <1>1, <1>2, <2>2 DEF Listing
<1> QED
  BY <1>5, <1>6 DEF NoneDangling

-----------------------------------------------------------------------------
(* The types, whatever becomes of the list *)

LEMMA TypesOfAdd ==
    ASSUME ListTypes, NEW t \in Timers, NEW n \in [Timers -> Fields],
           NEW h \in Timers \cup {NULL}, AddTimer(t, n, h)
    PROVE  /\ node' \in [Timers -> Fields]
           /\ head' \in Timers \cup {NULL} /\ tail' \in Timers \cup {NULL}
           /\ timer' \in Timers \cup {NULL} /\ cur' \in Timers \cup {NULL}
           /\ pc' \in {"idle", "walk", "undefined"}
           /\ pc' = "walk" => timer' = t
<1>1. CASE h = NULL /\ head' = t /\ tail' = t /\ node' = n /\ Return
  BY <1>1 DEF Return
<1>2. CASE /\ h \in Live /\ node' = [n EXCEPT ![t].next = h, ![t].pre = NULL]
           /\ head' = t /\ UNCHANGED tail /\ Return
  BY <1>2 DEF Return, Fields, ListTypes
<1>3. CASE /\ h \in Live /\ node' = n /\ head' = h /\ UNCHANGED tail
           /\ WalkFrom(t, h)
  BY <1>3 DEF WalkFrom, ListTypes
<1>4. CASE Undefined
  BY <1>4 DEF Undefined, ListTypes
<1> QED
  BY <1>1, <1>2, <1>3, <1>4 DEF AddTimer

LEMMA TypesOfUnlink ==
    ASSUME ListTypes, NEW t \in Timers, DeleteTimer(t)
    PROVE  /\ node' \in [Timers -> Fields]
           /\ heap' \in [Timers -> {"unborn", "live", "deleted"}]
           /\ head' \in Timers \cup {NULL} /\ tail' \in Timers \cup {NULL}
  BY DEF ListTypes, Fields, DeleteTimer, Unlink

LEMMA TypesOfSetting ==
    ASSUME ListTypes, NEW t \in Timers, NEW d \in Nat
    PROVE  /\ SetExpireTime(t, d) \in [Timers -> Fields]
           /\ \A u \in Timers : /\ SetExpireTime(t, d)[u].next = node[u].next
                                /\ SetExpireTime(t, d)[u].pre = node[u].pre
           /\ SetExpireTime(t, d)[t].expireTime = now + d
           /\ \A u \in Timers \ {t} : SetExpireTime(t, d)[u] = node[u]
<1>1. now + d \in Nat
  BY DEF ListTypes
<1> QED
  BY <1>1 DEF ListTypes, Fields, SetExpireTime

\* A call that is made, or goes on; d is any delay.
ListCall ==
    \/ LoopStep
    \/ \E t \in Timers, d \in Nat : Add(t, d) \/ Adjust(t, d)
    \/ \E t \in Timers : Delete(t)
    \/ Tick \/ Destroy \/ Second

\* The server may also leave the list alone, or come to grief for its own part.
ListAction ==
    ListCall \/ (Undefined /\ UNCHANGED <<heap, now, atEnd>>) \/ UNCHANGED vars

LEMMA TypesKept == ListTypes /\ ListAction => ListTypes'
<1> SUFFICES ASSUME ListTypes, ListAction PROVE ListTypes'
  OBVIOUS
<1>1. CASE WalkOn
  BY <1>1 DEF WalkOn, ListTypes, Fields, Live
<1>2. CASE AppendNode
  BY <1>2 DEF AppendNode, ListTypes, Fields, Live, Return
<1>3. CASE InsertNode
  <2> DEFINE a == [node EXCEPT ![timer].next = cur, ![timer].pre = cur]
  <2>1. timer \in Timers /\ cur \in Timers
    BY <1>3 DEF InsertNode, ListTypes, Live
  <2>2. a \in [Timers -> Fields]
    BY <2>1 DEF ListTypes, Fields
  <2>3. node' = [a EXCEPT ![cur].pre = timer, ![cur].next = timer]
    BY <1>3 DEF InsertNode
  <2> HIDE DEF a
  <2>4. node' \in [Timers -> Fields]
    BY <2>1, <2>2, <2>3 DEF Fields
  <2> QED
    BY <1>3, <2>4 DEF InsertNode, ListTypes, Return
<1>4. CASE TickFire
  <2>1. node[cur].next \in Timers \cup {NULL} /\ cur \in Timers
    BY <1>4 DEF TickFire, ListTypes, Fields, Live
  <2> QED
    BY <1>4, <2>1, TypesOfUnlink DEF TickFire, ListTypes
<1>5. CASE TickEnd
  BY <1>5 DEF TickEnd, ListTypes, Live, Return
<1>6. CASE DestroyNode
  BY <1>6 DEF DestroyNode, ListTypes, Fields, Live
<1>7. CASE LoopUndefined \/ (Undefined /\ UNCHANGED <<heap, now, atEnd>>)
  BY <1>7 DEF LoopUndefined, Undefined, ListTypes
<1>8. ASSUME NEW t \in Timers, NEW d \in Nat, Add(t, d) PROVE ListTypes'
  <2>1. SetExpireTime(t, d) \in [Timers -> Fields] /\ head \in Timers \cup {NULL}
    BY TypesOfSetting DEF ListTypes
  <2>2. /\ heap' \in [Timers -> {"unborn", "live", "deleted"}] /\ t \in Live'
        /\ now' = now /\ atEnd' \in BOOLEAN
    BY <1>8 DEF Add, ListTypes, Live
  <2>3. AddTimer(t, SetExpireTime(t, d), head)
    BY <1>8 DEF Add
  <2> QED
    BY <2>1, <2>2, <2>3, TypesOfAdd DEF ListTypes
<1>9. ASSUME NEW t \in Timers, NEW d \in Nat, Adjust(t, d) PROVE ListTypes'
  <2> DEFINE n == SetExpireTime(t, d)
  <2>1. /\ n \in [Timers -> Fields]
        /\ n[t].next \in Timers \cup {NULL} /\ n[t].pre \in Timers \cup {NULL}
    BY TypesOfSetting DEF Fields
  <2>2. /\ heap' = heap /\ now' = now /\ t \in Live' /\ Live' = Live
        /\ atEnd' \in BOOLEAN /\ pc = "idle"
    BY <1>9 DEF Adjust, ListTypes, Live
  <2> HIDE DEF n
  <2>3. CASE node' = n /\ UNCHANGED <<head, tail, call>>
    BY <2>1, <2>2, <2>3 DEF ListTypes
  <2>4. CASE n[t].next \in Live /\ AddTimer(t, [n EXCEPT ![n[t].next].pre = NULL], n[t].next)
    <3>1. [n EXCEPT ![n[t].next].pre = NULL] \in [Timers -> Fields]
      BY <2>1 DEF Fields
    <3> QED
      BY <2>1, <2>2, <2>4, <3>1, TypesOfAdd DEF ListTypes
  <2>5. CASE /\ {n[t].pre, n[t].next} \subseteq Live
             /\ node' = [n EXCEPT ![n[t].next].pre = n[t].pre, ![n[t].pre].next = n[t].next]
             /\ WalkFrom(t, n[t].next) /\ UNCHANGED <<head, tail>>
    <3>1. node' \in [Timers -> Fields]
      BY <2>1, <2>5 DEF Fields
    <3> QED
      BY <2>1, <2>2, <2>5, <3>1 DEF ListTypes, WalkFrom
  <2>6. CASE Undefined
    BY <2>2, <2>6 DEF ListTypes, Undefined
  <2> QED
    BY <1>9, <2>3, <2>4, <2>5, <2>6 DEF Adjust, n
<1>10. ASSUME NEW t \in Timers, Delete(t) PROVE ListTypes'
  <2>1. CASE Undefined /\ UNCHANGED heap
    BY <1>10, <2>1 DEF Delete, ListTypes, Undefined
  <2>2. CASE DeleteTimer(t) /\ UNCHANGED call
    BY <1>10, <2>2, TypesOfUnlink DEF Delete, ListTypes
  <2> QED
    BY <1>10, <2>1, <2>2 DEF Delete
<1>11. CASE Tick
  BY <1>11 DEF Tick, ListTypes
<1>12. CASE Destroy
  BY <1>12 DEF Destroy, ListTypes
<1>13. CASE Second
  BY <1>13, TimerAssumption DEF Second, ListTypes
<1>14. CASE UNCHANGED vars
  BY <1>14 DEF vars, ListTypes, Live
<1> QED
  BY <1>1, <1>2, <1>3, <1>4, <1>5, <1>6, <1>7, <1>8, <1>9, <1>10, <1>11, <1>12, <1>13,
     <1>14 DEF ListAction, ListCall, LoopStep

-----------------------------------------------------------------------------
(* What the calls do to the list *)

Without(s, k) == [i \in 1..(Len(s) - 1) |-> s[IF i < k THEN i ELSE i + 1]]

LEMMA WithoutIs ==
    ASSUME NEW S, NEW s \in Seq(S), NEW k \in 1..Len(s), NEW r, r = Without(s, k)
    PROVE  /\ r \in Seq(S) /\ Len(r) = Len(s) - 1
           /\ \A i \in 1..Len(r) : /\ i \in 1..Len(s) /\ i + 1 \in 1..Len(s)
                                   /\ r[i] = s[IF i < k THEN i ELSE i + 1]
<1>1. Len(s) - 1 \in Nat /\ Len(s) \in Nat
  OBVIOUS
<1>2. \A i \in 1..(Len(s) - 1) : s[IF i < k THEN i ELSE i + 1] \in S
  OBVIOUS
<1>3. r \in Seq(S) /\ Len(r) = Len(s) - 1
  BY <1>1, <1>2 DEF Without
<1> QED
  BY <1>1, <1>3 DEF Without

\* What the nodes of a listing say of one another.
LEMMA LinksOf ==
    ASSUME ListTypes, NEW s, Listing(s)
    PROVE  /\ s \in Seq(Timers) /\ Len(s) \in Nat
           /\ \A k \in 1..Len(s) : s[k] \in Timers /\ s[k] \in Live /\ s[k] # NULL
           /\ \A j, k \in 1..Len(s) : s[j] = s[k] => j = k
           /\ \A k \in 1..Len(s) : node[s[k]].next = IF k = Len(s) THEN NULL ELSE s[k + 1]
           /\ \A k \in 1..Len(s) : k > 1 => node[s[k]].pre = s[k - 1]
<1>1. s \in Seq(Timers) /\ Len(s) \in Nat /\ Listed \subseteq Live /\ Live \subseteq Timers
  BY DEF Listing, Listed, Live
<1>2. \A k \in 1..Len(s) : s[k] \in Timers /\ s[k] \in Live /\ s[k] # NULL
  BY <1>1, TimerAssumption DEF Listing
<1>3. ASSUME NEW j \in 1..Len(s), NEW k \in 1..Len(s), s[j] = s[k] PROVE j = k
  <2>1. ~(j < k) /\ ~(k < j)
    BY <1>3 DEF Listing, Ordered
  <2> QED
    BY <1>1, <2>1
<1> QED
  BY <1>1, <1>2, <1>3 DEF Listing, IsList

\* The nodes of the list are as they were.
LEMMA SameListing ==
    ASSUME ListTypes, NEW s, Listing(s), Listed' = Listed,
           \A t \in Listed : node'[t] = node[t],
           head' = head, tail' = tail, pc' # "destroy" => pc # "destroy"
    PROVE  Listing(s)'
<1>1. \A k \in 1..Len(s) : s[k] \in Listed /\ node'[s[k]] = node[s[k]]
  BY DEF Listing
<1>2. IsList(s)'
  BY <1>1 DEF Listing, IsList
<1>3. Ordered(s)'
  BY <1>1 DEF Listing, Ordered
<1> QED
  BY <1>2, <1>3 DEF Listing

LEMMA FirstListing ==
    ASSUME NEW t \in Timers, NEW r, r = <<t>>, Listed' = {t},
           head' = t, tail' = t, node'[t].next = NULL
    PROVE  Listing(r)'
<1>1. r \in Seq(Timers) /\ Len(r) = 1 /\ r[1] = t /\ r # <<>> /\ 1..Len(r) = {1}
  OBVIOUS
<1>2. IsList(r)'
  BY <1>1 DEF IsList
<1>3. Ordered(r)'
  BY <1>1 DEF Ordered
<1> QED
  BY <1>1, <1>2, <1>3 DEF Listing

LEMMA LongerListing ==
    ASSUME ListTypes, NEW s, Listing(s), s # <<>>, pc # "destroy",
           NEW t \in Timers, t \notin Listed, NEW r, r = Append(s, t),
           Listed' = Listed \cup {t}, node[t].next = NULL,
           \A u \in Listed : node[u].expireTime <= node[t].expireTime,
           node' = [node EXCEPT ![tail].next = t, ![t].pre = tail],
           head' = head, tail' = t
    PROVE  Listing(r)'
<1> DEFINE n == Len(s)
<1>1. /\ s \in Seq(Timers) /\ n \in Nat /\ 1 \in 1..n /\ n \in 1..n
      /\ tail = s[n] /\ head = s[1]
      /\ \A k \in 1..n : s[k] \in Timers /\ s[k] # t /\ s[k] \in Listed
      /\ \A j, k \in 1..n : s[j] = s[k] => j = k
  BY EndsOf, LinksOf DEF Listing
<1>2. /\ r \in Seq(Timers) /\ Len(r) = n + 1 /\ r[n + 1] = t /\ r # <<>>
      /\ \A k \in 1..n : r[k] = s[k]
      /\ \A k \in 1..(n + 1) : k \in 1..n \/ k = n + 1
  BY <1>1
<1>3. /\ node'[t].next = NULL /\ node'[t].pre = s[n]
      /\ node'[t].expireTime = node[t].expireTime
      /\ node'[s[n]].next = t
      /\ \A k \in 1..n : /\ node'[s[k]].expireTime = node[s[k]].expireTime
                         /\ node'[s[k]].pre = node[s[k]].pre
                         /\ k # n => node'[s[k]].next = node[s[k]].next
  <2>1. PICK p \in Timers : p = s[n] /\ p # t
    BY <1>1
  <2>2. node' = [node EXCEPT ![p].next = t, ![t].pre = p]
    BY <1>1, <2>1
  <2>3. /\ \A u \in Timers : /\ node'[u].expireTime = node[u].expireTime
                             /\ u # t => node'[u].pre = node[u].pre
                             /\ u # p => node'[u].next = node[u].next
        /\ node'[t].pre = p /\ node'[p].next = t
    <3> DEFINE a == [node EXCEPT ![p].next = t]
    <3>1. /\ a \in [Timers -> Fields] /\ a[p].next = t
          /\ \A u \in Timers : /\ a[u].expireTime = node[u].expireTime
                               /\ a[u].pre = node[u].pre
                               /\ u # p => a[u].next = node[u].next
      BY DEF ListTypes, Fields
    <3>2. node' = [a EXCEPT ![t].pre = p]
      BY <2>2
    <3> HIDE DEF a
    <3>3. /\ node'[t].pre = p
          /\ \A u \in Timers : /\ node'[u].expireTime = a[u].expireTime
                               /\ u # t => node'[u].pre = a[u].pre
                               /\ node'[u].next = a[u].next
      BY <3>1, <3>2 DEF Fields
    <3> QED
      BY <3>1, <3>3
  <2>4. \A k \in 1..n : k # n => s[k] # p
    BY <1>1, <2>1
  <2>5. /\ node'[t].next = NULL /\ node'[t].pre = s[n] /\ node'[s[n]].next = t
        /\ node'[t].expireTime = node[t].expireTime
    BY <2>1, <2>3
  <2>6. ASSUME NEW k \in 1..n
        PROVE  /\ node'[s[k]].expireTime = node[s[k]].expireTime
               /\ node'[s[k]].pre = node[s[k]].pre
               /\ k # n => node'[s[k]].next = node[s[k]].next
    <3>1. s[k] \in Timers /\ s[k] # t /\ (k # n => s[k] # p)
      BY <1>1, <2>4
    <3> HIDE DEF n
    <3> QED
      BY <2>3, <3>1
  <2> QED
    BY <2>5, <2>6
<1>4. \A k \in 1..(n + 1) : node'[r[k]].next = IF k = n + 1 THEN NULL ELSE r[k + 1]
  <2> SUFFICES ASSUME NEW k \in 1..(n + 1)
               PROVE  node'[r[k]].next = IF k = n + 1 THEN NULL ELSE r[k + 1]
    OBVIOUS
  <2>1. CASE k = n + 1
    BY <1>2, <1>3, <2>1
  <2>2. CASE k = n
    BY <1>1, <1>2, <1>3, <2>2
  <2>3. CASE k \in 1..n /\ k # n
    <3>1. k + 1 \in 1..n /\ k # n + 1
      BY <1>1, <2>3
    <3>2. node[s[k]].next = s[k + 1]
      BY <2>3, LinksOf
    <3> QED
      BY <1>2, <1>3, <2>3, <3>1, <3>2
  <2> QED
    BY <1>2, <2>1, <2>2, <2>3
<1>5. \A k \in 1..(n + 1) : k > 1 => node'[r[k]].pre = r[k - 1]
  <2> SUFFICES ASSUME NEW k \in 1..(n + 1), k > 1 PROVE node'[r[k]].pre = r[k - 1]
    OBVIOUS
  <2>1. k - 1 \in 1..n /\ (k = n + 1 => k - 1 = n)
    BY <1>1
  <2>2. k # n + 1 => node[s[k]].pre = s[k - 1] /\ k \in 1..n
    BY <1>2, LinksOf
  <2> QED
    BY <1>2, <1>3, <2>1, <2>2
<1>6. IsList(r)'
  <2>1. head' = r[1]
    BY <1>1, <1>2
  <2>2. tail' = r[Len(r)]
    BY <1>2
  <2> QED
    BY <1>2, <1>4, <1>5, <2>1, <2>2 DEF IsList
<1>7. Ordered(r)'
  <2> SUFFICES ASSUME NEW j \in 1..(n + 1), NEW k \in 1..(n + 1), j < k
               PROVE  r[j] # r[k] /\ node'[r[j]].expireTime <= node'[r[k]].expireTime
    BY <1>2 DEF Ordered
  <2>1. j \in 1..n
    BY <1>1
  <2>2. CASE k = n + 1
    BY <1>1, <1>2, <1>3, <2>1, <2>2
  <2>3. CASE k \in 1..n
    <3>1. s[j] # s[k] /\ node[s[j]].expireTime <= node[s[k]].expireTime
      BY <2>1, <2>3 DEF Listing, Ordered
    <3> QED
      BY <1>2, <1>3, <2>1, <2>3, <3>1
  <2> QED
    BY <1>2, <2>2, <2>3
<1>8. (\A k \in 1..Len(r) : r[k] \in Listed') /\ \A u \in Listed' : \E k \in 1..Len(r) : r[k] = u
  <2>1. \A k \in 1..(n + 1) : r[k] \in Listed'
    BY <1>1, <1>2
  <2>2. n + 1 \in 1..(n + 1) /\ 1..n \subseteq 1..(n + 1)
    BY <1>1
  <2>3. ASSUME NEW u \in Listed PROVE \E k \in 1..(n + 1) : r[k] = u
    BY <1>2, <2>2 DEF Listing
  <2> QED
    BY <1>2, <2>1, <2>2, <2>3
<1> QED
  BY <1>2, <1>6, <1>7, <1>8 DEF Listing

\* What has to hold of the nodes for the list to go on without its k-th.
Bridged(s, k) ==
    /\ \A t \in Timers : node'[t].expireTime = node[t].expireTime
    /\ \A j \in 1..Len(s) : j # k =>
          node'[s[j]].next = IF j = Len(s) \/ (j = k - 1 /\ k = Len(s)) THEN NULL
                             ELSE IF j = k - 1 THEN s[k + 1] ELSE s[j + 1]
    /\ \A j \in 1..Len(s) : j # k /\ j > 1 /\ ~(j = 2 /\ k = 1) =>
          node'[s[j]].pre = IF j = k + 1 THEN s[k - 1] ELSE s[j - 1]
    /\ head' = IF Len(s) = 1 THEN NULL ELSE IF k = 1 THEN s[2] ELSE s[1]
    /\ pc' # "destroy" =>
          tail' = IF Len(s) = 1 THEN NULL ELSE IF k = Len(s) THEN s[k - 1] ELSE s[Len(s)]

LEMMA ShorterListing ==
    ASSUME ListTypes, NEW s, Listing(s), NEW k \in 1..Len(s), NEW r, r = Without(s, k),
           Listed' = Listed \ {s[k]}, Bridged(s, k)
    PROVE  Listing(r)'
<1> DEFINE n == Len(s)
           at(i) == IF i < k THEN i ELSE i + 1
<1>1. /\ s \in Seq(Timers) /\ n \in Nat /\ k \in 1..n
      /\ \A j \in 1..n : s[j] \in Timers /\ s[j] \in Listed
      /\ \A i, j \in 1..n : s[i] = s[j] => i = j
  BY LinksOf DEF Listing
<1>2. /\ r \in Seq(Timers) /\ Len(r) = n - 1
      /\ \A i \in 1..(n - 1) : r[i] = s[at(i)]
  <2>1. /\ r \in Seq(Timers) /\ Len(r) = Len(s) - 1
        /\ \A i \in 1..Len(r) : r[i] = s[IF i < k THEN i ELSE i + 1]
    BY <1>1, WithoutIs
  <2> QED
    BY <2>1
<1>3. \A i \in 1..(n - 1) : at(i) \in 1..n /\ at(i) # k
  BY <1>1
<1>4. \A j \in 1..n : j # k => \E i \in 1..(n - 1) : at(i) = j
  <2> SUFFICES ASSUME NEW j \in 1..n, j # k PROVE \E i \in 1..(n - 1) : at(i) = j
    OBVIOUS
  <2>1. CASE j < k
    <3>1. j \in 1..(n - 1) /\ at(j) = j
      BY <1>1, <2>1
    <3> QED
      BY <3>1
  <2>2. CASE j > k
    <3>1. j - 1 \in 1..(n - 1) /\ at(j - 1) = j
      BY <1>1, <2>2
    <3> QED
      BY <3>1
  <2> QED
    BY <1>1, <2>1, <2>2
<1>5. (\A i \in 1..Len(r) : r[i] \in Listed') /\ \A u \in Listed' : \E i \in 1..Len(r) : r[i] = u
  <2>1. ASSUME NEW i \in 1..(n - 1) PROVE r[i] \in Listed'
    BY <1>1, <1>2, <1>3
  <2>2. ASSUME NEW u \in Listed' PROVE \E i \in 1..(n - 1) : r[i] = u
    <3>1. PICK j \in 1..n : s[j] = u
      BY DEF Listing
    <3>2. j # k
      BY <3>1
    <3>3. PICK i \in 1..(n - 1) : at(i) = j
      BY <1>4, <3>2
    <3> QED
      BY <1>2, <3>1, <3>3
  <2> QED
    BY <1>2, <2>1, <2>2
<1>6. Ordered(r)'
  <2> SUFFICES ASSUME NEW i \in 1..(n - 1), NEW j \in 1..(n - 1), i < j
               PROVE  r[i] # r[j] /\ node'[r[i]].expireTime <= node'[r[j]].expireTime
    BY <1>2 DEF Ordered
  <2>1. at(i) \in 1..n /\ at(j) \in 1..n /\ at(i) < at(j)
    BY <1>1
  <2> HIDE DEF at
  <2>2. /\ s[at(i)] # s[at(j)]
        /\ node[s[at(i)]].expireTime <= node[s[at(j)]].expireTime
    BY <2>1 DEF Listing, Ordered
  <2> QED
    BY <1>1, <1>2, <2>1, <2>2 DEF Bridged
<1>7. \A i \in 1..(n - 1) : node'[r[i]].next = IF i = n - 1 THEN NULL ELSE r[i + 1]
  <2> SUFFICES ASSUME NEW i \in 1..(n - 1)
               PROVE  node'[r[i]].next = IF i = n - 1 THEN NULL ELSE r[i + 1]
    OBVIOUS
  <2> DEFINE j == at(i)
  <2>1. j \in 1..n /\ j # k /\ r[i] = s[j]
    BY <1>2, <1>3
  <2>2. node'[s[j]].next = IF j = n \/ (j = k - 1 /\ k = n) THEN NULL
                           ELSE IF j = k - 1 THEN s[k + 1] ELSE s[j + 1]
    BY <2>1 DEF Bridged
  <2>3. i = n - 1 <=> (j = n \/ (j = k - 1 /\ k = n))
    BY <1>1
  <2>4. ASSUME i # n - 1 PROVE r[i + 1] = IF j = k - 1 THEN s[k + 1] ELSE s[j + 1]
    <3>1. i + 1 \in 1..(n - 1) /\ at(i + 1) = IF j = k - 1 THEN k + 1 ELSE j + 1
      BY <1>1, <2>4
    <3>2. r[i + 1] = s[at(i + 1)]
      BY <1>2, <3>1
    <3> QED
      BY <3>1, <3>2
  <2> HIDE DEF j
  <2> QED
    BY <2>1, <2>2, <2>3, <2>4
<1>8. \A i \in 1..(n - 1) : i > 1 => node'[r[i]].pre = r[i - 1]
  <2> SUFFICES ASSUME NEW i \in 1..(n - 1), i > 1 PROVE node'[r[i]].pre = r[i - 1]
    OBVIOUS
  <2> DEFINE j == at(i)
  <2>1. j \in 1..n /\ j # k /\ r[i] = s[j] /\ j > 1 /\ ~(j = 2 /\ k = 1)
    BY <1>1, <1>2, <1>3
  <2>2. node'[s[j]].pre = IF j = k + 1 THEN s[k - 1] ELSE s[j - 1]
    BY <2>1 DEF Bridged
  <2>3. i - 1 \in 1..(n - 1) /\ at(i - 1) = IF j = k + 1 THEN k - 1 ELSE j - 1
    BY <1>1
  <2>4. r[i - 1] = s[at(i - 1)]
    BY <1>2, <2>3
  <2> HIDE DEF j
  <2> QED
    BY <2>1, <2>2, <2>3, <2>4
<1>9. /\ r = <<>> <=> n = 1
      /\ n # 1 => /\ r[1] = s[IF k = 1 THEN 2 ELSE 1]
                  /\ r[n - 1] = s[IF k = n THEN k - 1 ELSE n]
  <2>1. r = <<>> <=> Len(r) = 0
    BY <1>2
  <2>2. ASSUME n # 1 PROVE 1 \in 1..(n - 1) /\ n - 1 \in 1..(n - 1)
    <3>1. n \in Nat /\ n >= 1
      BY <1>1
    <3> HIDE DEF n
    <3> QED
      BY <2>2, <3>1
  <2>3. n # 1 => at(1) = (IF k = 1 THEN 2 ELSE 1) /\ at(n - 1) = IF k = n THEN k - 1 ELSE n
    BY <1>1
  <2> QED
    BY <1>1, <1>2, <2>1, <2>2, <2>3
<1>10. IsList(r)'
  <2>1. head' = IF r = <<>> THEN NULL ELSE r[1]
    BY <1>9 DEF Bridged
  <2>2. pc' # "destroy" => tail' = IF r = <<>> THEN NULL ELSE r[Len(r)]
    BY <1>2, <1>9 DEF Bridged
  <2> QED
    BY <1>2, <1>7, <1>8, <2>1, <2>2 DEF IsList
<1> QED
  BY <1>2, <1>5, <1>6, <1>10 DEF Listing

LEMMA DestroyBridges ==
    ASSUME ListTypes, NEW s, Listing(s), DestroyNode
    PROVE  1 \in 1..Len(s) /\ head = s[1] /\ Bridged(s, 1)
<1>1. /\ pc = "destroy" /\ pc' = "destroy" /\ head \in Live /\ node' = node
      /\ head' = node[head].next
  BY DEF DestroyNode, call
<1>2. s # <<>>
  BY <1>1, EndsOf, TimerAssumption DEF Live
<1>3. 1 \in 1..Len(s) /\ head = s[1]
  BY <1>2, EndsOf
<1>4. head' = IF Len(s) = 1 THEN NULL ELSE s[2]
  <2>1. node[s[1]].next = IF 1 = Len(s) THEN NULL ELSE s[1 + 1]
    BY <1>3, LinksOf
  <2> QED
    BY <1>1, <1>3, <2>1
<1>5. \A j \in 1..Len(s) : j # 1 =>
          node'[s[j]].next = IF j = Len(s) THEN NULL ELSE s[j + 1]
  BY <1>1, LinksOf
<1>6. \A j \in 1..Len(s) : j # 1 /\ j > 1 => node'[s[j]].pre = s[j - 1]
  BY <1>1, LinksOf
<1>7. \A j \in 1..Len(s) : j \in Int /\ (j = 2 <=> j = 1 + 1) /\ j # 1 - 1
  OBVIOUS
<1>8. Bridged(s, 1)
  <2>1. \A j \in 1..Len(s) : j # 1 =>
          node'[s[j]].next = IF j = Len(s) \/ (j = 1 - 1 /\ 1 = Len(s)) THEN NULL
                             ELSE IF j = 1 - 1 THEN s[1 + 1] ELSE s[j + 1]
    BY <1>5, <1>7
  <2>2. \A j \in 1..Len(s) : j # 1 /\ j > 1 /\ ~(j = 2 /\ 1 = 1) =>
          node'[s[j]].pre = IF j = 1 + 1 THEN s[1 - 1] ELSE s[j - 1]
    BY <1>6, <1>7
  <2> QED
    BY <1>1, <1>4, <2>1, <2>2 DEF Bridged
<1> QED
  BY <1>3, <1>8

\* Deleting any node of the list is safe, and bridges the gap.
LEMMA DeleteIsSafe ==
    ASSUME ListTypes, NEW s, Listing(s), NEW k \in 1..Len(s), pc # "destroy"
    PROVE  CanDelete(s[k])
<1> DEFINE n == Len(s)
<1>1. /\ n \in Nat /\ n >= 1 /\ s # <<>> /\ head = s[1] /\ tail = s[n]
      /\ 1 \in 1..n /\ n \in 1..n
      /\ \A j \in 1..n : s[j] \in Live
      /\ \A i, j \in 1..n : s[i] = s[j] => i = j
  BY LinksOf, EndsOf
<1>2. node[s[k]].next = (IF k = n THEN NULL ELSE s[k + 1])
      /\ (k > 1 => node[s[k]].pre = s[k - 1])
  BY LinksOf
<1> HIDE DEF n
<1>3. (head = s[k] <=> k = 1) /\ (tail = s[k] <=> k = n)
  BY <1>1 DEF n
<1>4. k \in 1..n /\ (k # n => k + 1 \in 1..n) /\ (k > 1 => k - 1 \in 1..n)
      /\ (k # 1 => k > 1)
  BY <1>1 DEF n
<1>5. (k # n => node[s[k]].next \in Live) /\ (k # 1 => node[s[k]].pre \in Live)
  BY <1>1, <1>2, <1>4
<1> QED
  BY <1>1, <1>3, <1>4, <1>5 DEF CanDelete, Neighbours

LEMMA DeleteBridges ==
    ASSUME ListTypes, NEW s, Listing(s), NEW k \in 1..Len(s), pc # "destroy",
           DeleteTimer(s[k])
    PROVE  Bridged(s, k)
<1> DEFINE n == Len(s)
<1>1. /\ n \in Nat /\ n >= 1 /\ k \in 1..n /\ s # <<>> /\ head = s[1] /\ tail = s[n]
      /\ 1 \in 1..n /\ n \in 1..n
      /\ \A j \in 1..n : s[j] \in Timers
      /\ \A i, j \in 1..n : s[i] = s[j] => i = j
      /\ \A j \in 1..n : node[s[j]].next = IF j = n THEN NULL ELSE s[j + 1]
      /\ \A j \in 1..n : j > 1 => node[s[j]].pre = s[j - 1]
  BY LinksOf, EndsOf
<1>2. node \in [Timers -> Fields]
  BY DEF ListTypes
<1>3. Unlink(s[k])
  BY DEF DeleteTimer
<1> HIDE DEF n
<1>4. (head = s[k] <=> k = 1) /\ (tail = s[k] <=> k = n)
  BY <1>1
<1> DEFINE
      times == \A t \in Timers : node'[t].expireTime = node[t].expireTime
      nexts == \A j \in 1..n : j # k =>
                  node'[s[j]].next = IF j = n \/ (j = k - 1 /\ k = n) THEN NULL
                                     ELSE IF j = k - 1 THEN s[k + 1] ELSE s[j + 1]
      pres == \A j \in 1..n : j # k /\ j > 1 /\ ~(j = 2 /\ k = 1) =>
                  node'[s[j]].pre = IF j = k + 1 THEN s[k - 1] ELSE s[j - 1]
      heads == head' = IF n = 1 THEN NULL ELSE IF k = 1 THEN s[2] ELSE s[1]
      tails == tail' = IF n = 1 THEN NULL ELSE IF k = n THEN s[k - 1] ELSE s[n]
<1> SUFFICES times /\ nexts /\ pres /\ heads /\ tails
  BY DEF Bridged, n
<1>5. CASE k = 1 /\ n = 1
  <2>1. head' = NULL /\ tail' = NULL /\ node' = node
    BY <1>3, <1>4, <1>5 DEF Unlink
  <2>2. \A j \in 1..n : j = k
    BY <1>1, <1>5
  <2> QED
    BY <1>5, <2>1, <2>2
<1>6. CASE k = 1 /\ n # 1
  <2>1. 2 \in 1..n /\ 1 + 1 = 2
    BY <1>1, <1>6
  <2>2. node[s[1]].next = s[2]
    BY <1>1, <1>6, <2>1
  <2>3. head' = s[2] /\ tail' = tail /\ node' = [node EXCEPT ![s[2]].pre = NULL]
    BY <1>3, <1>4, <1>6, <2>2 DEF Unlink
  <2>4. \A t \in Timers : /\ node'[t].expireTime = node[t].expireTime
                          /\ node'[t].next = node[t].next
                          /\ t # s[2] => node'[t].pre = node[t].pre
    BY <1>2, <2>3 DEF Fields
  <2>5. times
    BY <2>4
  <2>6. nexts
    <3> SUFFICES ASSUME NEW j \in 1..n, j # 1
                 PROVE  node'[s[j]].next = IF j = n THEN NULL ELSE s[j + 1]
      BY <1>1, <1>6
    <3> QED
      BY <1>1, <2>4
  <2>7. pres
    <3> SUFFICES ASSUME NEW j \in 1..n, j > 1, j # 2
                 PROVE  node'[s[j]].pre = s[j - 1]
      BY <1>1, <1>6
    <3>1. s[j] # s[2]
      BY <1>1, <2>1
    <3> QED
      BY <1>1, <2>4, <3>1
  <2>8. heads /\ tails
    BY <1>1, <1>6, <2>3
  <2> QED
    BY <2>5, <2>6, <2>7, <2>8
<1>7. CASE k # 1 /\ k = n
  <2>1. n - 1 \in 1..n /\ n > 1 /\ n # 1 /\ n - 1 # n
    BY <1>1, <1>7
  <2>2. node[s[n]].pre = s[n - 1]
    BY <1>1, <2>1
  <2>3. /\ head' = head /\ tail' = s[n - 1]
        /\ node' = [node EXCEPT ![s[n - 1]].next = NULL]
    BY <1>3, <1>4, <1>7, <2>2 DEF Unlink
  <2>4. s[n - 1] \in Timers /\ \A j \in 1..n : s[j] = s[n - 1] => j = n - 1
    BY <1>1, <2>1
  <2>5. /\ node'[s[n - 1]].next = NULL
        /\ \A t \in Timers : /\ node'[t].expireTime = node[t].expireTime
                             /\ node'[t].pre = node[t].pre
                             /\ t # s[n - 1] => node'[t].next = node[t].next
    BY <1>2, <2>3, <2>4 DEF Fields
  <2>6. times
    BY <2>5
  <2>7. nexts
    <3> SUFFICES ASSUME NEW j \in 1..n, j # n
                 PROVE  node'[s[j]].next = IF j = n - 1 THEN NULL ELSE s[j + 1]
      BY <1>7
    <3> QED
      BY <1>1, <2>4, <2>5
  <2>8. pres
    <3> SUFFICES ASSUME NEW j \in 1..n, j > 1
                 PROVE  node'[s[j]].pre = s[j - 1]
      BY <1>1, <1>7
    <3> QED
      BY <1>1, <2>5
  <2>9. heads /\ tails
    BY <1>1, <1>7, <2>1, <2>3
  <2> QED
    BY <2>6, <2>7, <2>8, <2>9
<1>8. CASE k # 1 /\ k # n
  <2>1. k - 1 \in 1..n /\ k + 1 \in 1..n /\ k > 1 /\ n # 1 /\ k - 1 # k + 1
    BY <1>1, <1>8
  <2>2. node[s[k]].pre = s[k - 1] /\ node[s[k]].next = s[k + 1]
    BY <1>1, <1>8, <2>1
  <2>3. PICK p \in Timers, q \in Timers : p = s[k - 1] /\ q = s[k + 1] /\ p # q
    BY <1>1, <2>1
  <2>4. /\ head' = head /\ tail' = tail
        /\ node' = [node EXCEPT ![q].pre = p, ![p].next = q]
    BY <1>3, <1>4, <1>8, <2>2, <2>3 DEF Unlink
  <2>5. \A j \in 1..n : (s[j] = p <=> j = k - 1) /\ (s[j] = q <=> j = k + 1)
    BY <1>1, <2>1, <2>3
  <2>6. /\ node'[p].next = q /\ node'[q].pre = p
        /\ \A t \in Timers : /\ node'[t].expireTime = node[t].expireTime
                             /\ t # q => node'[t].pre = node[t].pre
                             /\ t # p => node'[t].next = node[t].next
    BY <1>2, <2>3, <2>4 DEF Fields
  <2>7. times
    BY <2>6
  <2>8. nexts
    <3> SUFFICES ASSUME NEW j \in 1..n, j # k
                 PROVE  node'[s[j]].next = IF j = n THEN NULL
                                           ELSE IF j = k - 1 THEN q ELSE s[j + 1]
      BY <1>8, <2>3
    <3>1. CASE j = k - 1
      BY <1>1, <1>8, <2>3, <2>6, <3>1
    <3>2. CASE j # k - 1
      BY <1>1, <2>5, <2>6, <3>2
    <3> QED
      BY <3>1, <3>2
  <2>9. pres
    <3> SUFFICES ASSUME NEW j \in 1..n, j # k, j > 1
                 PROVE  node'[s[j]].pre = IF j = k + 1 THEN p ELSE s[j - 1]
      BY <1>8, <2>3
    <3> QED
      BY <1>1, <2>3, <2>5, <2>6
  <2>10. heads /\ tails
    BY <1>1, <1>8, <2>1, <2>4
  <2> QED
    BY <2>7, <2>8, <2>9, <2>10
<1> QED
  BY <1>1, <1>5, <1>6, <1>7, <1>8

-----------------------------------------------------------------------------
(* The calls keep the list whole: one lemma for each *)

\* What the lemmas start from and come to.
Sound == ListTypes /\ atEnd /\ pc # "undefined" /\ Whole

LEMMA WalkOnKeeps == ASSUME Sound, WalkOn PROVE Whole' /\ pc' # "undefined"
<1> USE DEF Sound
<1>1. PICK s : Listing(s)
  BY DEF Whole
<1>2. /\ pc = "walk" /\ pc' = pc /\ timer' = timer /\ node' = node /\ heap' = heap
      /\ head' = head /\ tail' = tail /\ cur \in Live /\ cur' = node[cur].next
  BY DEF WalkOn
<1>3. Live' = Live /\ Listed' = Listed
  BY <1>2 DEF Live, Listed
<1>4. Listing(s)'
  BY <1>1, <1>2, <1>3, SameListing
<1>5. cur' \in Listed \cup {NULL}
  <2>1. cur \in Listed
    BY <1>2, TimerAssumption DEF Whole, UnderWay, Live
  <2>2. PICK k \in 1..Len(s) : s[k] = cur
    BY <1>1, <2>1 DEF Listing
  <2>3. cur' = IF k = Len(s) THEN NULL ELSE s[k + 1]
    BY <1>1, <1>2, <2>2, LinksOf
  <2>4. k # Len(s) => k + 1 \in 1..Len(s)
    BY <1>1, LinksOf
  <2> QED
    BY <1>1, <2>3, <2>4 DEF Listing
<1> QED
  BY <1>2, <1>3, <1>4, <1>5 DEF Whole, UnderWay, Fresh

LEMMA AppendKeeps == ASSUME Sound, AppendNode PROVE Whole' /\ pc' # "undefined"
<1> USE DEF Sound
<1>1. PICK s : Listing(s)
  BY DEF Whole
<1>2. /\ pc = "walk" /\ pc' = "idle" /\ cur' = NULL /\ heap' = heap
      /\ head' = head /\ tail' = timer /\ tail \in Live
      /\ node' = [node EXCEPT ![tail].next = timer, ![timer].pre = tail]
  BY DEF AppendNode, Return
<1>3. /\ timer \in Timers /\ timer \in Live /\ timer \notin Listed
      /\ Listed' = Listed \cup {timer}
  BY <1>2 DEF ListTypes, Live, Listed
<1>4. /\ node[timer].next = NULL /\ Listed # {}
      /\ \A u \in Listed : node[u].expireTime < node[timer].expireTime
  BY <1>2 DEF Whole, UnderWay
<1>5. PICK t \in Timers : t = timer
  BY <1>3
<1>6. PICK r : r = Append(s, t)
  OBVIOUS
<1>7. \A u \in Listed : node[u].expireTime <= node[t].expireTime
  <2>1. \A u \in Timers : node[u].expireTime \in Nat
    BY DEF ListTypes, Fields
  <2> QED
    BY <1>3, <1>4, <1>5, <2>1 DEF Listed, Live
<1>8. s # <<>>
  BY <1>1, <1>4, EndsOf
<1>9. Listing(r)'
  BY <1>1, <1>2, <1>3, <1>4, <1>5, <1>6, <1>7, <1>8, LongerListing
<1>10. Fresh'
  <2>1. ASSUME NEW u \in Timers, heap[u] = "unborn" PROVE node'[u].next = node[u].next
    BY <1>2, <1>3, <2>1 DEF ListTypes, Fields, Live
  <2> QED
    BY <1>2, <2>1 DEF Fresh, Whole
<1> QED
  BY <1>2, <1>9, <1>10 DEF Whole, UnderWay

\* All nodes are due before timer, so the helper never stops at one.
LEMMA InsertNever == Sound => ~InsertNode
<1> SUFFICES ASSUME Sound, InsertNode PROVE FALSE
  OBVIOUS
<1>1. /\ pc = "walk" /\ cur \in Timers /\ cur # NULL /\ timer \in Timers
      /\ node[cur].expireTime >= node[timer].expireTime
  BY TimerAssumption DEF InsertNode, Live, Sound, ListTypes
<1>2. node[cur].expireTime \in Nat /\ node[timer].expireTime \in Nat
  BY <1>1 DEF Sound, ListTypes, Fields
<1>3. node[cur].expireTime < node[timer].expireTime
  BY <1>1 DEF Sound, Whole, UnderWay
<1> QED
  BY <1>1, <1>2, <1>3

LEMMA DeleteListing ==
    ASSUME Sound, pc \in {"idle", "tick"}, pc' # "walk",
           NEW t \in Live, DeleteTimer(t)
    PROVE  /\ \E r : Listing(r)'
           /\ Fresh'
           /\ t = head => head' = node[t].next
<1> USE DEF Sound
<1>1. PICK s : Listing(s)
  BY DEF Whole
<1>2. Listed = Live /\ Listed' = Live' /\ Live' = Live \ {t} /\ t \in Timers
  BY DEF Listed, Live, DeleteTimer, ListTypes
<1>3. PICK k \in 1..Len(s) : s[k] = t
  BY <1>1, <1>2 DEF Listing
<1>4. Bridged(s, k)
  BY <1>1, <1>3, DeleteBridges
<1>5. PICK r : r = Without(s, k)
  OBVIOUS
<1>6. Listing(r)'
  BY <1>1, <1>2, <1>3, <1>4, <1>5, ShorterListing
<1>7. Fresh'
  <2>1. /\ head = t => (tail = t \/ node[t].next \in Live)
        /\ head # t => node[t].pre \in Live
        /\ head # t /\ tail # t => node[t].next \in Live
    BY <1>1, <1>3, DeleteIsSafe DEF CanDelete, Neighbours
  <2>2. ASSUME NEW u \in Timers, heap[u] = "unborn" PROVE node'[u].next = node[u].next
    BY <2>1, <2>2 DEF DeleteTimer, Unlink, ListTypes, Fields, Live
  <2>3. \A u \in Timers : heap'[u] = "unborn" => heap[u] = "unborn"
    BY DEF DeleteTimer, ListTypes
  <2> QED
    BY <2>2, <2>3 DEF Fresh, Whole
<1>8. ASSUME t = head PROVE head' = node[t].next
  <2>1. CASE tail = t
    <3>1. s # <<>> /\ Len(s) \in 1..Len(s)
      BY <1>1, <1>3, EndsOf
    <3>2. s[Len(s)] = t
      BY <1>1, <2>1, <3>1, EndsOf
    <3>3. node[t].next = NULL
      BY <1>1, <3>1, <3>2, LinksOf
    <3> QED
      BY <1>8, <2>1, <3>3 DEF DeleteTimer, Unlink
  <2>2. CASE tail # t
    BY <1>8, <2>2 DEF DeleteTimer, Unlink
  <2> QED
    BY <2>1, <2>2
<1> QED
  BY <1>6, <1>7, <1>8

LEMMA DeleteKeeps ==
    ASSUME Sound, NEW t \in Timers, Delete(t)
    PROVE  Whole' /\ pc' # "undefined"
<1>1. PICK s : Listing(s)
  BY DEF Sound, Whole
<1>2. pc = "idle" /\ t \in Live
  BY DEF Delete, Live
<1>3. PICK k \in 1..Len(s) : s[k] = t
  BY <1>1, <1>2 DEF Listing, Listed
<1>4. CanDelete(t)
  BY <1>1, <1>2, <1>3, DeleteIsSafe DEF Sound
<1>5. DeleteTimer(t) /\ pc' = pc /\ cur' = cur
  BY <1>4 DEF Delete
<1>6. (\E r : Listing(r)') /\ Fresh'
  BY <1>2, <1>5, DeleteListing
<1>7. cur = NULL
  BY <1>2 DEF Sound, Whole, UnderWay
<1> QED
  BY <1>2, <1>5, <1>6, <1>7 DEF Whole, UnderWay

LEMMA TickFireKeeps == ASSUME Sound, TickFire PROVE Whole' /\ pc' # "undefined"
<1>1. /\ pc = "tick" /\ pc' = "tick" /\ cur \in Live /\ DeleteTimer(cur)
      /\ cur' = node[cur].next
  BY DEF TickFire
<1>2. cur = head
  BY <1>1 DEF Sound, Whole, UnderWay
<1>3. PICK t \in Live : t = cur
  BY <1>1
<1>4. (\E r : Listing(r)') /\ Fresh' /\ head' = cur'
  BY <1>1, <1>2, <1>3, DeleteListing
<1> QED
  BY <1>1, <1>4 DEF Whole, UnderWay

\* The calls that only begin or end, and the clock.
LEMMA QuietKeeps ==
    ASSUME Sound, TickEnd \/ Tick \/ Destroy \/ Second
    PROVE  Whole' /\ pc' # "undefined"
<1> USE DEF Sound
<1>1. PICK s : Listing(s)
  BY DEF Whole
<1>2. /\ node' = node /\ head' = head /\ tail' = tail /\ heap' = heap
      /\ pc \in {"idle", "tick"} /\ pc' \in {"idle", "tick", "destroy"}
      /\ pc' = "tick" => cur' = head
      /\ pc' = "idle" => cur' = NULL \/ (cur' = cur /\ pc = "idle")
      /\ pc' = "destroy" => pc = "idle" /\ cur' = cur
  BY DEF TickEnd, Tick, Destroy, Second, Return, call
<1>3. Listed' = Listed
  BY <1>2 DEF Listed, Live
<1>4. pc = "destroy" => pc' = "destroy"
  BY <1>2
<1>5. Listing(s)'
  <2>1. pc' # "destroy" => pc # "destroy"
    BY <1>2
  <2> QED
    BY <1>1, <1>2, <1>3, <2>1, SameListing
<1>6. UnderWay'
  BY <1>2 DEF Whole, UnderWay
<1>7. Fresh'
  BY <1>2 DEF Whole, Fresh
<1> QED
  BY <1>2, <1>5, <1>6, <1>7 DEF Whole

LEMMA DestroyNodeKeeps == ASSUME Sound, DestroyNode PROVE Whole' /\ pc' # "undefined"
<1> USE DEF Sound
<1>1. PICK s : Listing(s)
  BY DEF Whole
<1>2. /\ pc = "destroy" /\ pc' = pc /\ cur' = cur /\ node' = node
      /\ heap' = [heap EXCEPT ![head] = "deleted"] /\ head \in Live
  BY DEF DestroyNode, call
<1>3. 1 \in 1..Len(s) /\ head = s[1] /\ Bridged(s, 1)
  BY <1>1, DestroyBridges
<1>4. Listed' = Listed \ {s[1]}
  BY <1>2, <1>3 DEF Listed, Live, ListTypes
<1>5. PICK r : r = Without(s, 1)
  OBVIOUS
<1>6. Listing(r)'
  BY <1>1, <1>3, <1>4, <1>5, ShorterListing
<1>7. Fresh' /\ UnderWay'
  BY <1>2 DEF Whole, Fresh, UnderWay, ListTypes
<1> QED
  BY <1>2, <1>6, <1>7 DEF Whole

\* A loop never goes astray.
LEMMA UndefinedNever == Sound => ~LoopUndefined
<1> SUFFICES ASSUME Sound, LoopUndefined PROVE FALSE
  OBVIOUS
<1> USE DEF Sound
<1>1. NoneDangling /\ (pc = "walk" => tail \in Live)
  BY WholeNotDangling
<1>2. pc = "tick" /\ cur \in Live /\ ~CanDelete(cur)
  BY <1>1 DEF LoopUndefined, NoneDangling
<1>3. PICK s : Listing(s)
  BY DEF Whole
<1>4. PICK k \in 1..Len(s) : s[k] = cur
  BY <1>2, <1>3 DEF Listing, Listed
<1> QED
  BY <1>2, <1>3, <1>4, DeleteIsSafe

LEMMA AdjustKeeps ==
    ASSUME Sound, atEnd', NEW t \in Timers, NEW d \in Nat, Adjust(t, d)
    PROVE  /\ Whole' /\ pc' # "undefined"
           /\ node' = SetExpireTime(t, d) /\ UNCHANGED <<head, tail, call>>
<1> USE DEF Sound
<1>1. PICK s : Listing(s)
  BY DEF Whole
<1>2. /\ pc = "idle" /\ t \in Live /\ now + d >= node[t].expireTime
      /\ node[t].next = NULL /\ heap' = heap
  BY DEF Adjust, Live
<1>3. /\ node' = SetExpireTime(t, d) /\ head' = head /\ tail' = tail
      /\ pc' = pc /\ timer' = timer /\ cur' = cur
  BY <1>2, TypesOfSetting DEF Adjust, call
<1>4. Listed' = Listed /\ Listed = Live
  BY <1>2, <1>3 DEF Listed, Live
<1>5. PICK k \in 1..Len(s) : s[k] = t
  BY <1>1, <1>2, <1>4 DEF Listing
<1>6. k = Len(s)
  <2>1. node[s[k]].next = IF k = Len(s) THEN NULL ELSE s[k + 1]
    BY <1>1, LinksOf
  <2>2. k # Len(s) => k + 1 \in 1..Len(s)
    BY <1>1, LinksOf
  <2>3. k # Len(s) => s[k + 1] # NULL
    BY <1>1, <2>2, LinksOf
  <2> QED
    BY <1>2, <1>5, <2>1, <2>3
<1>7. /\ \A u \in Timers : node'[u].next = node[u].next /\ node'[u].pre = node[u].pre
      /\ node'[t].expireTime = now + d
      /\ \A u \in Timers \ {t} : node'[u].expireTime = node[u].expireTime
  BY <1>3, TypesOfSetting
<1>8. IsList(s)'
  <2>1. \A i \in 1..Len(s) : s[i] \in Timers
    BY <1>1, LinksOf
  <2> QED
    BY <1>1, <1>3, <1>7, <2>1 DEF Listing, IsList
<1>9. Ordered(s)'
  <2> SUFFICES ASSUME NEW i \in 1..Len(s), NEW j \in 1..Len(s), i < j
               PROVE  s[i] # s[j] /\ node'[s[i]].expireTime <= node'[s[j]].expireTime
    BY DEF Ordered
  <2>1. s[i] # s[j] /\ node[s[i]].expireTime <= node[s[j]].expireTime
    BY <1>1 DEF Listing, Ordered
  <2>2. /\ Len(s) \in Nat /\ s[i] \in Timers /\ s[j] \in Timers
        /\ (s[j] = t => j = k) /\ (s[i] = t => i = k)
    BY <1>1, <1>5, LinksOf
  <2>3. s[i] # t
    BY <1>6, <2>2
  <2>4. /\ node[s[i]].expireTime \in Nat /\ node[s[j]].expireTime \in Nat
        /\ now \in Nat /\ now + d \in Nat
    BY <2>2 DEF ListTypes, Fields
  <2>5. CASE s[j] = t
    BY <1>2, <1>7, <2>1, <2>2, <2>3, <2>4, <2>5
  <2>6. CASE s[j] # t
    BY <1>7, <2>1, <2>2, <2>3, <2>6
  <2> QED
    BY <2>5, <2>6
<1>10. Listing(s)'
  BY <1>1, <1>4, <1>8, <1>9 DEF Listing
<1>11. Fresh' /\ UnderWay'
  BY <1>2, <1>3, <1>7 DEF Whole, Fresh, UnderWay
<1> QED
  BY <1>2, <1>3, <1>10, <1>11 DEF Whole, call

LEMMA AddKeeps ==
    ASSUME Sound, atEnd', NEW t \in Timers, NEW d \in Nat, Add(t, d)
    PROVE  /\ Whole' /\ pc' # "undefined"
           /\ node' = SetExpireTime(t, d)
<1> USE DEF Sound
<1>1. PICK s : Listing(s)
  BY DEF Whole
<1> DEFINE n == SetExpireTime(t, d)
<1>2. /\ pc = "idle" /\ heap[t] = "unborn" /\ heap' = [heap EXCEPT ![t] = "live"]
      /\ \A u \in Live \ {t} : node[u].expireTime < now + d
      /\ AddTimer(t, n, head)
  BY DEF Add, Beyond
<1>3. /\ n[t].expireTime = now + d /\ n[t].next = NULL
      /\ \A u \in Timers \ {t} : n[u] = node[u]
      /\ \A u \in Timers : n[u].next = node[u].next
  BY <1>2, TypesOfSetting DEF Whole, Fresh
<1>4. /\ Listed = Live /\ t \notin Live /\ Live \subseteq Timers /\ Live' = Live \cup {t}
      /\ head \in Listed \cup {NULL} /\ (head = NULL => Listed = {}) /\ NULL \notin Listed
  BY <1>1, <1>2, EndsOf, TimerAssumption DEF Listed, Live, ListTypes
<1> HIDE DEF n
<1>5. node' = n => Fresh'
  BY <1>2, <1>3 DEF Whole, Fresh, ListTypes
<1>6. CASE head = NULL
  <2>1. head' = t /\ tail' = t /\ node' = n /\ Return
    BY <1>2, <1>6, TimerAssumption DEF AddTimer, Live, Dangling
  <2>2. pc' = "idle" /\ cur' = NULL
    BY <2>1 DEF Return
  <2>3. Listed' = {t}
    BY <1>4, <1>6, <2>2 DEF Listed
  <2>4. PICK r : r = <<t>>
    OBVIOUS
  <2>5. Listing(r)'
    BY <1>3, <2>1, <2>3, <2>4, FirstListing
  <2> QED
    BY <1>5, <2>1, <2>2, <2>5 DEF Whole, UnderWay, n
<1>7. CASE head # NULL
  <2>1. head \in Live /\ head \in Timers /\ head # t
    BY <1>4, <1>7
  <2>2. n[head].expireTime < n[t].expireTime /\ n[head].expireTime \in Nat
        /\ n[t].expireTime \in Nat
    BY <1>2, <1>3, <2>1 DEF ListTypes, Fields
  <2>3. node' = n /\ head' = head /\ tail' = tail /\ WalkFrom(t, head)
    BY <1>2, <1>7, <2>1, <2>2 DEF AddTimer, Dangling
  <2>4. pc' = "walk" /\ timer' = t /\ cur' = head
    BY <2>3 DEF WalkFrom
  <2>5. Listed' = Listed
    BY <1>4, <2>4 DEF Listed
  <2>6. Listing(s)'
    <3>1. \A u \in Listed : node'[u] = node[u]
      BY <1>3, <1>4, <2>3
    <3> QED
      BY <1>1, <1>2, <2>3, <2>5, <3>1, SameListing
  <2>7. UnderWay'
    <3>1. \A u \in Listed : node'[u].expireTime < node'[t].expireTime
      BY <1>2, <1>3, <1>4, <2>3
    <3> QED
      BY <1>3, <1>4, <2>1, <2>3, <2>4, <2>5, <3>1 DEF UnderWay
  <2> QED
    BY <1>5, <2>3, <2>4, <2>6, <2>7 DEF Whole, n
<1> QED
  BY <1>6, <1>7

-----------------------------------------------------------------------------
(* The list by itself *)

LEMMA NotDanglingNext == (ListTypes /\ Whole /\ pc # "undefined" => NoneDangling)'
  BY WholeNotDangling, PTL

LEMMA CallKeeps ==
    ASSUME ListInv, ListCall
    PROVE  ListInv' /\ (atEnd' => atEnd /\ pc # "undefined" /\ pc' # "undefined")
<1>1. ListTypes'
  BY TypesKept DEF ListInv, ListAction
<1>2. pc # "undefined" /\ (atEnd' => atEnd)
  <2>1. LoopStep => pc # "undefined" /\ atEnd' = atEnd
    BY DEF LoopStep, WalkOn, AppendNode, InsertNode, TickFire, TickEnd, DestroyNode,
           LoopUndefined
  <2>2. ASSUME NEW t \in Timers, NEW d \in Nat, Add(t, d) \/ Adjust(t, d)
        PROVE  pc # "undefined" /\ (atEnd' => atEnd)
    BY <2>2 DEF Add, Adjust
  <2>3. ASSUME NEW t \in Timers, Delete(t) PROVE pc # "undefined" /\ atEnd' = atEnd
    BY <2>3 DEF Delete
  <2>4. Tick \/ Destroy \/ Second => pc # "undefined" /\ atEnd' = atEnd
    BY DEF Tick, Destroy, Second
  <2> QED
    BY <2>1, <2>2, <2>3, <2>4 DEF ListCall
<1>3. ASSUME atEnd' PROVE Whole' /\ pc' # "undefined"
  <2>1. Sound
    BY <1>2, <1>3 DEF Sound, ListInv
  <2> QED
    BY <1>3, <2>1, WalkOnKeeps, AppendKeeps, InsertNever, TickFireKeeps, QuietKeeps,
       DestroyNodeKeeps, UndefinedNever, AddKeeps, AdjustKeeps, DeleteKeeps
       DEF ListCall, LoopStep
<1> QED
  BY <1>1, <1>2, <1>3, NotDanglingNext DEF ListInv

LEMMA ListKeeps == ListInv /\ ListAction => ListInv'
<1> SUFFICES ASSUME ListInv, ListAction PROVE ListInv'
  OBVIOUS
<1>1. CASE ListCall
  BY <1>1, CallKeeps
<1>2. CASE Undefined /\ UNCHANGED <<heap, now, atEnd>>
  BY <1>2, TypesKept
  DEF ListAction, ListInv, Undefined, NoneDangling, Dangling, Live
<1>3. CASE UNCHANGED vars
  <2>1. /\ node' = node /\ heap' = heap /\ head' = head /\ tail' = tail /\ pc' = pc
        /\ timer' = timer /\ cur' = cur /\ atEnd' = atEnd
    BY <1>3 DEF vars
  <2>2. Live' = Live /\ Listed' = Listed
    BY <2>1 DEF Live, Listed
  <2>3. ASSUME NEW s, Listing(s) PROVE Listing(s)'
    BY <2>1, <2>2, <2>3 DEF Listing, IsList, Ordered
  <2>4. Whole => Whole'
    BY <2>1, <2>2, <2>3 DEF Whole, Fresh, UnderWay
  <2> QED
    BY <1>3, <2>1, <2>2, <2>4, TypesKept
    DEF ListAction, ListInv, NoneDangling, Dangling
<1> QED
  BY <1>1, <1>2, <1>3 DEF ListAction

\* A listing is one of the sequences of the timers that should be in the list.
LEMMA ListingIsRight ==
    ASSUME ListTypes, NEW s, Listing(s)
    PROVE  s \in SetToSeqs(Listed) /\ Sorted(s)
<1> DEFINE n == Len(s)
<1>1. /\ s \in Seq(Timers) /\ n \in Nat
      /\ \A j, k \in 1..n : s[j] = s[k] => j = k
  BY LinksOf
<1>2. s \in [1..n -> Listed]
  BY <1>1 DEF Listing
<1>3. s \in Bijection(1..n, Listed)
  <2>1. IsInjective(s)
    BY <1>1, <1>2 DEF IsInjective
  <2>2. s \in Injection(1..n, Listed)
    BY <1>2, <2>1 DEF Injection
  <2>3. s \in Surjection(1..n, Listed)
    BY <1>2 DEF Surjection, Listing
  <2> QED
    BY <2>2, <2>3 DEF Bijection
<1>4. ExistsBijection(1..n, Listed)
  BY <1>3 DEF ExistsBijection
<1>5. Cardinality(Listed) = n
  BY <1>1, <1>4, FS_CountingElements
<1>6. s \in SetToSeqs(Listed)
  BY <1>1, <1>2, <1>5 DEF SetToSeqs, IsInjective
<1>7. Sorted(s)
  <2> SUFFICES ASSUME NEW k \in 2..n
               PROVE  node[s[k - 1]].expireTime <= node[s[k]].expireTime
    BY DEF Sorted
  <2>1. k - 1 \in 1..n /\ k \in 1..n /\ k - 1 < k
    BY <1>1
  <2> QED
    BY <2>1 DEF Listing, Ordered
<1> QED
  BY <1>6, <1>7

LEMMA NextIsCall == Next => ListCall
  BY TimerAssumption DEF Next, ListCall

LEMMA EndListFollows ==
    ASSUME ListInv, atEnd => pc # "undefined"
    PROVE  EndListIsRight
<1> SUFFICES ASSUME atEnd PROVE \E s \in SetToSeqs(Listed) : IsList(s) /\ Sorted(s)
  BY DEF EndListIsRight, ListIsRight
<1>1. PICK s : Listing(s)
  BY DEF ListInv, Whole
<1>2. s \in SetToSeqs(Listed) /\ Sorted(s)
  BY <1>1, ListingIsRight DEF ListInv
<1> QED
  BY <1>1, <1>2 DEF Listing

\* The list at its end is right for any number of timers and any delays: what
\* addTimer appends and deleteTimer takes out, at either end or in between and
\* in the middle of a tick, leaves it linked both ways, in order, with every
\* timer that is live, and no pointer to a deleted one.
THEOREM ListCorrect == Spec => []EndListIsRight
<1> DEFINE Inv == ListInv /\ (atEnd => pc # "undefined")
<1>1. Init => Inv
  BY ListInitInv
<1>2. Inv /\ [Next]_vars => Inv'
  <2> SUFFICES ASSUME Inv, [Next]_vars PROVE Inv'
    OBVIOUS
  <2>1. CASE Next
    BY <2>1, NextIsCall, CallKeeps
  <2>2. CASE UNCHANGED vars
    <3>1. ListInv'
      BY <2>2, ListKeeps DEF ListAction
    <3> QED
      BY <2>2, <3>1 DEF vars
  <2> QED
    BY <2>1, <2>2
<1>3. Inv => EndListIsRight
  BY EndListFollows
<1> QED
  BY <1>1, <1>2, <1>3, PTL DEF Spec

\* When tick stops, at a node that is not due or at the end, it has come to the
\* head of what is left.
LEMMA TickEndThorough ==
    ASSUME ListInv, atEnd, TickEnd
    PROVE  \A t \in Live : node[t].expireTime > now
<1> SUFFICES ASSUME NEW t \in Live PROVE node[t].expireTime > now
  OBVIOUS
<1>1. /\ pc = "tick" /\ ListTypes /\ cur = head
      /\ cur = NULL \/ (cur \in Live /\ node[cur].expireTime > now)
  BY DEF TickEnd, IsDue, ListInv, Whole, UnderWay, ListTypes, Fields, Live
<1>2. PICK s : Listing(s)
  BY <1>1 DEF ListInv, Whole
<1>3. PICK k \in 1..Len(s) : s[k] = t
  BY <1>1, <1>2 DEF Listing, Listed
<1>4. /\ Len(s) \in Nat /\ s # <<>> /\ 1 \in 1..Len(s) /\ head = s[1] /\ head # NULL
      /\ s[1] \in Timers /\ t \in Timers
  BY <1>1, <1>2, <1>3, EndsOf, LinksOf
<1>5. node[s[1]].expireTime <= node[t].expireTime
  <2>1. CASE k = 1
    BY <1>1, <1>3, <1>4, <2>1 DEF ListTypes, Fields
  <2>2. CASE k # 1
    <3>1. 1 < k
      BY <1>3, <1>4, <2>2
    <3> QED
      BY <1>2, <1>3, <1>4, <3>1 DEF Listing, Ordered
  <2> QED
    BY <2>1, <2>2
<1>6. /\ node[s[1]].expireTime \in Nat /\ node[t].expireTime \in Nat /\ now \in Nat
      /\ node[s[1]].expireTime > now
  BY <1>1, <1>4 DEF ListTypes, Fields
<1> QED
  BY <1>5, <1>6

\* tick leaves no timer that is due, however many are.
THEOREM TickCorrect == Spec => TickIsThorough
<1> DEFINE Thorough == atEnd /\ pc = "tick" /\ pc' = "idle" =>
                          \A t \in Live : node[t].expireTime > now
<1>1. Init => ListInv
  BY ListInitInv
<1>2. ListInv /\ [Next]_vars => ListInv'
  BY NextIsCall, ListKeeps DEF ListAction
<1>3. ListInv /\ [Next]_vars => [Thorough]_vars
  <2> SUFFICES ASSUME ListInv, Next, atEnd, pc = "tick", pc' = "idle"
               PROVE  \A t \in Live : node[t].expireTime > now
    BY DEF vars
  <2>1. TickEnd
    BY DEF Next, LoopStep, WalkOn, AppendNode, InsertNode, TickFire, DestroyNode,
           LoopUndefined, Undefined, Add, Adjust, Delete, Tick, Destroy, Second
  <2> QED
    BY <2>1, TickEndThorough
<1> QED
  BY <1>1, <1>2, <1>3, PTL DEF Spec, TickIsThorough

-----------------------------------------------------------------------------
(* The server: its inductive invariant *)

ServerTypes ==
    /\ users \in [FDs -> [timer : Timers \cup {NULL}, confd : {lfd}]]
    /\ closed \subseteq {lfd}
    /\ batch \subseteq FDs \cup {Pipe}
    /\ spc \in {"wait", "batch", "tick", "over", "ended", "killed"}
    /\ heard \in [Clients -> 0..MaxTime]
    /\ alarmAt \in Nat \cup {NoAlarm}
    /\ pipe \in Seq(Signals)
    /\ timeout \in BOOLEAN /\ stop \in BOOLEAN
    /\ alarms \in 0..2
    /\ pc = "destroy" => spc = "ended"

\* Each timer there has been is that of one descriptor, which is still open.
Paired ==
    /\ \A f, g \in Open : users[f].timer = users[g].timer => f = g
    /\ \A f \in Open : users[f].timer \in Timers /\ heap[users[f].timer] # "unborn"
    /\ \A t \in Timers : heap[t] # "unborn" => \E f \in Open : users[f].timer = t

Punctual ==
    pc # "undefined" =>
        \A f \in Open : users[f].timer \in Live =>
            node[users[f].timer].expireTime = heard[conn[f]] + 3 * TIMESLOT

ListenerIsRight ==
    Running => (lfd \in closed <=> \E f \in Open : users[f].timer \notin Live)

ServerInv ==
    /\ ListInv /\ NetInv /\ ServerTypes
    /\ Paired /\ Punctual /\ ListenerIsRight

\* The alarms there are, also once the server runs no more.
Alarms(p) == {k \in 1..Len(p) : p[k] = "ALRM"}
AlarmAccounted ==
    1 = Cardinality(Alarms(pipe))
        + (IF timeout THEN 1 ELSE 0) + (IF alarmAt # NoAlarm THEN 1 ELSE 0)

AlarmInv ==
    /\ now \in Nat /\ pipe \in Seq(Signals) /\ timeout \in BOOLEAN
    /\ spc = "tick" => timeout
    /\ AlarmAccounted

-----------------------------------------------------------------------------
(* The one alarm *)

LEMMA AlarmsOf ==
    ASSUME NEW p \in Seq(Signals)
    PROVE  /\ IsFiniteSet(Alarms(p)) /\ Cardinality(Alarms(p)) \in Nat
           /\ "ALRM" \notin ToSet(p) => Cardinality(Alarms(p)) = 0
           /\ "ALRM" \in ToSet(p) => Cardinality(Alarms(p)) # 0
<1>1. IsFiniteSet(1..Len(p)) /\ Alarms(p) \subseteq 1..Len(p)
  BY FS_Interval DEF Alarms
<1>2. IsFiniteSet(Alarms(p))
  BY <1>1, FS_Subset
<1>3. "ALRM" \in ToSet(p) <=> Alarms(p) # {}
  BY DEF ToSet, Alarms
<1> QED
  BY <1>2, <1>3, FS_CardinalityType, FS_EmptySet

LEMMA AlarmsAppend ==
    ASSUME NEW p \in Seq(Signals)
    PROVE  /\ Append(p, "TERM") \in Seq(Signals) /\ Append(p, "ALRM") \in Seq(Signals)
           /\ Alarms(Append(p, "TERM")) = Alarms(p)
           /\ Cardinality(Alarms(Append(p, "ALRM"))) = Cardinality(Alarms(p)) + 1
<1>1. Len(p) \in Nat
  OBVIOUS
<1>2. ASSUME NEW x \in Signals
      PROVE  /\ Append(p, x) \in Seq(Signals) /\ Len(Append(p, x)) = Len(p) + 1
             /\ Append(p, x)[Len(p) + 1] = x
             /\ \A k \in 1..Len(p) : Append(p, x)[k] = p[k]
  OBVIOUS
<1>3. "TERM" \in Signals /\ "ALRM" \in Signals
  BY DEF Signals
<1>4. \A k \in 1..(Len(p) + 1) : k = Len(p) + 1 \/ k \in 1..Len(p)
  BY <1>1
<1>5. \A k \in 1..Len(p) : k \in 1..(Len(p) + 1) /\ k # Len(p) + 1
  BY <1>1
<1>6. Alarms(Append(p, "TERM")) = Alarms(p)
  BY <1>2, <1>3, <1>4, <1>5 DEF Alarms
<1>7. Alarms(Append(p, "ALRM")) = Alarms(p) \cup {Len(p) + 1} /\ Len(p) + 1 \notin Alarms(p)
  <2>1. Len(p) + 1 \in 1..(Len(p) + 1)
    BY <1>1
  <2> QED
    BY <1>2, <1>3, <1>4, <1>5, <2>1 DEF Alarms
<1>8. Cardinality(Alarms(Append(p, "ALRM"))) = Cardinality(Alarms(p)) + 1
  BY <1>7, AlarmsOf, FS_AddElement
<1> QED
  BY <1>2, <1>3, <1>6, <1>8

LEMMA ClockOfList == ListCall => now' \in {now, now + 1}
  BY DEF ListCall, LoopStep, WalkOn, AppendNode, InsertNode, TickFire, TickEnd, DestroyNode,
         LoopUndefined, Add, Adjust, Delete, Tick, Destroy, Second

LEMMA AlarmInitInv == ServerInit => AlarmInv
<1> SUFFICES ASSUME ServerInit PROVE AlarmInv
  OBVIOUS
<1>1. now = 0 /\ pipe = <<>> /\ timeout = FALSE /\ spc = "wait" /\ alarmAt = TIMESLOT
  BY DEF ServerInit, Init
<1>2. <<>> \in Seq(Signals) /\ "ALRM" \notin ToSet(<<>>)
  BY EmptySeq DEF ToSet
<1>3. Cardinality(Alarms(pipe)) = 0
  BY <1>1, <1>2, AlarmsOf
<1>4. alarmAt # NoAlarm
  BY <1>1, ServerAssumption DEF NoAlarm
<1>5. (IF timeout THEN 1 ELSE 0) = 0
  BY <1>1
<1>6. AlarmAccounted
  BY <1>3, <1>4, <1>5 DEF AlarmAccounted
<1> QED
  BY <1>1, <1>2, <1>6 DEF AlarmInv

LEMMA AlarmKept == AlarmInv /\ [ServerNext]_allVars => AlarmInv'
<1> SUFFICES ASSUME AlarmInv, [ServerNext]_allVars PROVE AlarmInv'
  OBVIOUS
<1> USE DEF AlarmInv
<1>1. ASSUME UNCHANGED <<pipe, timeout, alarmAt>>, now' \in {now, now + 1},
             spc' = "tick" => spc = "tick" \/ timeout
      PROVE  AlarmInv'
  BY <1>1 DEF AlarmAccounted
<1>2. /\ Cardinality(Alarms(pipe)) \in Nat
      /\ "ALRM" \notin ToSet(pipe) => Cardinality(Alarms(pipe)) = 0
      /\ "ALRM" \in ToSet(pipe) => Cardinality(Alarms(pipe)) # 0
  BY AlarmsOf
<1>3. CASE EpollWait \/ NothingDue \/ LeaveMain
  BY <1>1, <1>3
  DEF EpollWait, NothingDue, GoOn, LeaveMain, Destroy, signalVars, vars
<1>4. CASE AcceptClient
  BY <1>1, <1>4 DEF AcceptClient, Takes, Undefined, Add, signalVars
<1>5. ASSUME NEW f \in FDs, ReceiveBytes(f) \/ ReceiveEnd(f) PROVE AlarmInv'
  BY <1>1, <1>5
  DEF ReceiveBytes, ReceiveEnd, Takes, PutOff, Drop, Adjust, Delete, Undefined, signalVars
<1>6. CASE ReadPipe
  <2>1. /\ now' = now /\ pipe' = <<>> /\ spc' = spc /\ alarmAt' = alarmAt
        /\ spc = "batch"
        /\ timeout' = (timeout \/ "ALRM" \in ToSet(pipe))
    BY <1>6 DEF ReadPipe, vars
  <2>2. <<>> \in Seq(Signals) /\ "ALRM" \notin ToSet(<<>>)
    BY EmptySeq DEF ToSet
  <2>3. Cardinality(Alarms(pipe')) = 0
    BY <2>1, <2>2, AlarmsOf
  <2>4. AlarmAccounted'
    <3>1. CASE "ALRM" \in ToSet(pipe)
      <4>1. (IF timeout THEN 1 ELSE 0) = 0 /\ alarmAt = NoAlarm
        BY <1>2, <3>1 DEF AlarmAccounted
      <4>2. (IF timeout' THEN 1 ELSE 0) = 1
        BY <2>1, <3>1
      <4> QED
        BY <2>1, <2>3, <4>1, <4>2 DEF AlarmAccounted
    <3>2. CASE "ALRM" \notin ToSet(pipe)
      <4>1. timeout' = timeout
        BY <2>1, <3>2
      <4> QED
        BY <1>2, <2>1, <2>3, <3>2, <4>1 DEF AlarmAccounted
    <3> QED
      BY <3>1, <3>2
  <2> QED
    BY <2>1, <2>2, <2>4
<1>7. CASE StartTick
  BY <1>1, <1>7 DEF StartTick, AfterBatch, Tick, signalVars, vars
<1>8. CASE AfterTick
  <2>1. /\ now' = now /\ pipe' = pipe /\ alarmAt' = now + TIMESLOT /\ timeout' = FALSE
        /\ spc = "tick" /\ spc' # "tick"
    BY <1>8 DEF AfterTick, GoOn, Rearm, vars
  <2>2. now + TIMESLOT # NoAlarm
    BY ServerAssumption DEF NoAlarm
  <2>3. Cardinality(Alarms(pipe)) = 0
    BY <1>2, <2>1 DEF AlarmAccounted
  <2>4. AlarmAccounted'
    BY <2>1, <2>2, <2>3 DEF AlarmAccounted
  <2> QED
    BY <2>1, <2>4
<1>9. CASE ListStep
  <2>1. /\ UNCHANGED <<pipe, timeout, alarmAt, spc>> /\ LoopStep
    BY <1>9 DEF ListStep, signalVars
  <2>2. now' \in {now, now + 1}
    BY <2>1, ClockOfList DEF ListCall
  <2> QED
    BY <1>1, <2>1, <2>2
<1>10. CASE AlarmFires
  <2>1. /\ now' = now /\ pipe' = Append(pipe, "ALRM") /\ alarmAt # NoAlarm
        /\ alarmAt' = NoAlarm /\ timeout' = timeout /\ (spc' = "tick" => spc = "tick")
    BY <1>10 DEF AlarmFires, signal_handler, vars
  <2>2. /\ Append(pipe, "ALRM") \in Seq(Signals)
        /\ Cardinality(Alarms(pipe')) = Cardinality(Alarms(pipe)) + 1
    BY <2>1, AlarmsAppend
  <2>3. AlarmAccounted'
    BY <1>2, <2>1, <2>2 DEF AlarmAccounted
  <2> QED
    BY <2>1, <2>2, <2>3
<1>11. CASE TermArrives
  <2>1. /\ now' = now /\ pipe' = Append(pipe, "TERM")
        /\ UNCHANGED <<alarmAt, timeout, spc>>
    BY <1>11 DEF TermArrives, signal_handler, vars, mainVars
  <2> QED
    BY <2>1, AlarmsAppend DEF AlarmAccounted
<1>12. CASE TimePasses
  BY <1>1, <1>12 DEF TimePasses, Second, serverVars, mainVars, signalVars
<1>13. CASE (\E c \in Clients : ClientActs(c)) \/ UNCHANGED allVars
  BY <1>1, <1>13 DEF ClientActs, allVars, serverVars, mainVars, signalVars, vars
<1> QED
  BY <1>3, <1>4, <1>5, <1>6, <1>7, <1>8, <1>9, <1>10, <1>11, <1>12, <1>13
     DEF ServerNext, ServerStep

\* However alarms, bytes, the signal to end and the clock come together, the
\* alarm is never lost nor set twice: the handler, the read of the pipe and the
\* end of the loop only hand it on.
THEOREM AlarmCorrect == ServerSpec => []OneAlarm
<1>1. AlarmInv => OneAlarm
  BY DEF AlarmInv, AlarmAccounted, Alarms, OneAlarm
<1> QED
  BY <1>1, AlarmInitInv, AlarmKept, PTL DEF ServerSpec

-----------------------------------------------------------------------------
(* What the calls of the list change of what the server relies on *)

SameTimes == \A t \in Timers : node'[t].expireTime = node[t].expireTime

LEMMA LoopChanges ==
    ASSUME ListTypes, LoopStep
    PROVE  /\ SameTimes /\ now' = now /\ pc # "undefined" /\ (pc' = "destroy" => pc = "destroy")
           /\ \/ heap' = heap
              \/ /\ pc = "tick" /\ cur \in Live /\ node[cur].expireTime <= now
                 /\ heap' = [heap EXCEPT ![cur] = "deleted"]
              \/ /\ pc = "destroy" /\ head \in Live
                 /\ heap' = [heap EXCEPT ![head] = "deleted"]
<1>1. CASE WalkOn \/ TickEnd \/ DestroyNode \/ LoopUndefined
  BY <1>1 DEF WalkOn, TickEnd, DestroyNode, LoopUndefined, Undefined, Return, SameTimes
<1>2. CASE AppendNode
  BY <1>2 DEF AppendNode, Return, SameTimes, ListTypes, Fields
<1>3. CASE InsertNode
  <2> DEFINE a == [node EXCEPT ![timer].next = cur, ![timer].pre = cur]
  <2>1. timer \in Timers /\ cur \in Timers
    BY <1>3 DEF InsertNode, ListTypes, Live
  <2>2. a \in [Timers -> Fields] /\ \A t \in Timers : a[t].expireTime = node[t].expireTime
    BY <2>1 DEF ListTypes, Fields
  <2>3. node' = [a EXCEPT ![cur].pre = timer, ![cur].next = timer]
    BY <1>3 DEF InsertNode
  <2> HIDE DEF a
  <2>4. SameTimes
    BY <2>1, <2>2, <2>3 DEF Fields, SameTimes
  <2> QED
    BY <1>3, <2>4 DEF InsertNode, Return
<1>4. CASE TickFire
  <2>1. cur \in Timers /\ DeleteTimer(cur) /\ pc = "tick" /\ pc' = "tick"
    BY <1>4 DEF TickFire, Live
  <2>2. SameTimes
    BY <2>1 DEF DeleteTimer, Unlink, ListTypes, Fields, SameTimes
  <2> QED
    BY <1>4, <2>1, <2>2 DEF TickFire, DeleteTimer, IsDue
<1> QED
  BY <1>1, <1>2, <1>3, <1>4 DEF LoopStep

LEMMA AddChanges ==
    ASSUME ListTypes, NEW t \in Timers, NEW d \in Nat, Add(t, d)
    PROVE  /\ heap[t] = "unborn" /\ heap' = [heap EXCEPT ![t] = "live"] /\ now' = now
           /\ pc = "idle" /\ pc' # "destroy"
           /\ pc' # "undefined" =>
                 /\ node'[t].expireTime = now + d
                 /\ \A u \in Timers \ {t} : node'[u].expireTime = node[u].expireTime
<1> DEFINE n == SetExpireTime(t, d)
<1>1. /\ n \in [Timers -> Fields] /\ n[t].expireTime = now + d
      /\ \A u \in Timers \ {t} : n[u].expireTime = node[u].expireTime
  BY TypesOfSetting
<1>2. AddTimer(t, n, head)
  BY DEF Add
<1> HIDE DEF n
<1>3. (pc' = "idle" \/ pc' = "walk" \/ pc' = "undefined")
      /\ (pc' # "undefined" => \A u \in Timers : node'[u].expireTime = n[u].expireTime)
  BY <1>1, <1>2 DEF AddTimer, Return, WalkFrom, Undefined, Fields
<1> QED
  BY <1>1, <1>3 DEF Add

LEMMA AdjustChanges ==
    ASSUME ListTypes, NEW t \in Timers, NEW d \in Nat, Adjust(t, d)
    PROVE  /\ heap' = heap /\ now' = now /\ pc = "idle" /\ pc' # "destroy"
           /\ pc' # "undefined" =>
                 /\ node'[t].expireTime = now + d
                 /\ \A u \in Timers \ {t} : node'[u].expireTime = node[u].expireTime
<1> DEFINE n == SetExpireTime(t, d)
           next == n[t].next
           pre == n[t].pre
           b == [n EXCEPT ![next].pre = NULL]
<1>1. /\ n \in [Timers -> Fields] /\ n[t].expireTime = now + d
      /\ \A u \in Timers \ {t} : n[u].expireTime = node[u].expireTime
  BY TypesOfSetting
<1>2. /\ heap' = heap /\ now' = now /\ pc = "idle"
      /\ \/ node' = n /\ UNCHANGED <<head, tail, call>>
         \/ next \in Live /\ AddTimer(t, b, next)
         \/ /\ {pre, next} \subseteq Live
            /\ node' = [n EXCEPT ![next].pre = pre, ![pre].next = next]
            /\ WalkFrom(t, next)
         \/ Undefined
  BY DEF Adjust
<1> HIDE DEF n
<1>3. CASE node' = n /\ UNCHANGED <<head, tail, call>>
  BY <1>1, <1>2, <1>3
<1>4. CASE next \in Live /\ AddTimer(t, b, next)
  <2>1. b \in [Timers -> Fields] /\ \A u \in Timers : b[u].expireTime = n[u].expireTime
    BY <1>1 DEF Fields
  <2> HIDE DEF b, next
  <2>2. (pc' = "idle" \/ pc' = "walk" \/ pc' = "undefined")
        /\ (pc' # "undefined" => \A u \in Timers : node'[u].expireTime = b[u].expireTime)
    BY <1>4, <2>1 DEF AddTimer, Return, WalkFrom, Undefined, Fields
  <2> QED
    BY <1>1, <1>2, <2>1, <2>2
<1>5. CASE /\ {pre, next} \subseteq Live
           /\ node' = [n EXCEPT ![next].pre = pre, ![pre].next = next]
           /\ WalkFrom(t, next)
  <2>1. \A u \in Timers : node'[u].expireTime = n[u].expireTime
    BY <1>1, <1>5 DEF Fields
  <2> QED
    BY <1>1, <1>2, <1>5, <2>1 DEF WalkFrom
<1>6. CASE Undefined
  BY <1>2, <1>6 DEF Undefined
<1> QED
  BY <1>2, <1>3, <1>4, <1>5, <1>6

LEMMA DeleteChanges ==
    ASSUME ListTypes, NEW t \in Timers, Delete(t)
    PROVE  /\ SameTimes /\ now' = now /\ pc = "idle" /\ pc' # "destroy"
           /\ pc' # "undefined" => heap' = [heap EXCEPT ![t] = "deleted"]
           /\ pc' = "undefined" => heap' = heap
<1>1. CASE Undefined /\ UNCHANGED heap
  BY <1>1 DEF Delete, Undefined, SameTimes
<1>2. CASE DeleteTimer(t) /\ UNCHANGED call
  <2>1. SameTimes
    BY <1>2 DEF DeleteTimer, Unlink, ListTypes, Fields, SameTimes
  <2> QED
    BY <1>2, <2>1 DEF Delete, DeleteTimer
<1> QED
  BY <1>1, <1>2 DEF Delete

-----------------------------------------------------------------------------
(* The server's invariant: one lemma for each kind of action *)

LEMMA ServerInitInv == ServerInit => ServerInv
<1> SUFFICES ASSUME ServerInit PROVE ServerInv
  OBVIOUS
<1>1. ListInv /\ NetInv /\ pc = "idle" /\ heap = [t \in Timers |-> "unborn"]
  BY ListInitInv, NetInitInv DEF ServerInit, Init
<1>2. ServerTypes
  <2>1. <<>> \in Seq(Signals) /\ TIMESLOT \in Nat /\ MaxTime \in Nat /\ lfd \in FDs
    BY EmptySeq, ServerAssumption, TimerAssumption, FDsAre
  <2>2. [c \in Clients |-> 0] \in [Clients -> 0..MaxTime]
    BY <2>1
  <2>3. [f \in FDs |-> [timer |-> NULL, confd |-> lfd]]
            \in [FDs -> [timer : Timers \cup {NULL}, confd : {lfd}]]
    OBVIOUS
  <2>4. /\ users = [f \in FDs |-> [timer |-> NULL, confd |-> lfd]]
        /\ closed = {} /\ batch = {} /\ spc = "wait" /\ heard = [c \in Clients |-> 0]
        /\ alarmAt = TIMESLOT /\ pipe = <<>> /\ timeout = FALSE /\ stop = FALSE
        /\ alarms = 0
    BY DEF ServerInit
  <2>5. closed \subseteq {lfd} /\ batch \subseteq FDs \cup {Pipe}
    BY <2>4
  <2>6. timeout \in BOOLEAN /\ stop \in BOOLEAN
    BY <2>4, Zenon
  <2>7. alarms \in 0..2
    BY <2>4, SMT
  <2> QED
    BY <1>1, <2>1, <2>2, <2>3, <2>4, <2>5, <2>6, <2>7 DEF ServerTypes
<1>3. Open = {}
  BY DEF ServerInit, NetInit, Open
<1> QED
  BY <1>1, <1>2, <1>3 DEF ServerInv, Paired, Punctual, ListenerIsRight, ServerInit

\* Connections, timers and the listener are not touched.
LEMMA UntouchedKept ==
    ASSUME ServerInv, ListInv', NetInv', ServerTypes',
           UNCHANGED <<users, closed, heard, conn, heap>>, SameTimes,
           Running' => Running, pc' # "undefined" => pc # "undefined"
    PROVE  ServerInv'
<1> USE DEF ServerInv
<1>1. Open' = Open /\ Live' = Live
  BY DEF Open, Live
<1>2. Paired'
  BY <1>1 DEF Paired
<1>3. Punctual'
  <2>1. \A f \in Open : users[f].timer \in Live => users[f].timer \in Timers
    BY DEF Live
  <2> QED
    BY <1>1, <2>1 DEF Punctual, SameTimes
<1>4. ListenerIsRight'
  BY <1>1 DEF ListenerIsRight
<1> QED
  BY <1>2, <1>3, <1>4

\* There is a timer for each client, so new finds one that was never used.
LEMMA UnbornTimer ==
    ASSUME ServerInv, backlog # <<>>, NEW t, t = CHOOSE u \in Timers : heap[u] = "unborn"
    PROVE  t \in Timers /\ heap[t] = "unborn"
<1> USE DEF ServerInv
<1>1. SUFFICES ASSUME \A u \in Timers : heap[u] # "unborn" PROVE FALSE
  OBVIOUS
<1> DEFINE ports == FDs \ {lfd}
           others == ports \ {FreeFD}
           of == [u \in Timers |-> CHOOSE f \in Open : users[f].timer = u]
<1>2. FreeFD \in ports /\ FreeFD \notin Open /\ Open \subseteq others
  BY DescriptorFree DEF Open
<1>3. \A u \in Timers : of[u] \in Open /\ users[of[u]].timer = u
  BY <1>1 DEF Paired
<1>4. of \in Injection(Timers, others)
  <2>1. of \in [Timers -> others]
    BY <1>2, <1>3
  <2>2. IsInjective(of)
    <3>1. ASSUME NEW u \in Timers, NEW v \in Timers, of[u] = of[v] PROVE u = v
      BY <1>3, <3>1
    <3> QED
      BY <3>1 DEF IsInjective
  <2> QED
    BY <2>1, <2>2 DEF Injection
<1>5. /\ IsFiniteSet(ports) /\ IsFiniteSet(others)
      /\ Cardinality(others) = Cardinality(ports) - 1
  <2>1. IsFiniteSet(ports)
    BY FDsAre, FS_Subset
  <2> HIDE DEF ports
  <2> QED
    BY <1>2, <2>1, FS_RemoveElement
<1>6. Cardinality(Timers) <= Cardinality(others)
  BY <1>4, <1>5, FS_Injection
<1>7. Cardinality(ports) = Cardinality(Clients)
  <2> DEFINE n == Cardinality(Clients)
  <2>1. n \in Nat /\ ports = 1..n
    BY FDsAre
  <2>2. Cardinality(1..n) = IF 1 > n THEN 0 ELSE n - 1 + 1
    BY <2>1, FS_Interval
  <2> HIDE DEF n
  <2>3. (IF 1 > n THEN 0 ELSE n - 1 + 1) = n
    BY <2>1
  <2> HIDE DEF ports
  <2>4. Cardinality(ports) = n
    BY <2>1, <2>2, <2>3
  <2> QED
    BY <2>4 DEF n
<1> HIDE DEF ports, others
<1> QED
  BY <1>5, <1>6, <1>7, FDsAre, ServerAssumption

LEMMA ServerTypesQuiet ==
    ASSUME ServerInv,
           UNCHANGED <<users, closed, heard>>, now' \in {now, now + 1}, now' \in 0..MaxTime,
           EpollWait \/ ReadPipe \/ NothingDue \/ StartTick \/ AfterTick
           \/ AlarmFires \/ TermArrives \/ UNCHANGED serverVars,
           pc' = "destroy" => pc = "destroy"
    PROVE  ServerTypes'
<1> USE DEF ServerInv, ServerTypes
<1>1. CASE EpollWait \/ NothingDue \/ StartTick
  <2>1. Ready \subseteq FDs \cup {Pipe}
    BY DEF Ready
  <2> QED
    BY <1>1, <2>1 DEF EpollWait, NothingDue, StartTick, AfterBatch, GoOn, signalVars
<1>2. CASE ReadPipe
  BY <1>2, EmptySeq DEF ReadPipe
<1>3. CASE AfterTick
  <2>1. now + TIMESLOT \in Nat
    BY ServerAssumption DEF ListInv, ListTypes
  <2> QED
    BY <1>3, <2>1 DEF AfterTick, GoOn, Rearm
<1>4. CASE AlarmFires
  <2>1. Min({alarms + 1, 2}) \in {alarms + 1, 2} /\ Min({alarms + 1, 2}) <= 2
    <3> DEFINE S == {alarms + 1, 2}
    <3>1. S \subseteq Nat /\ S # {} /\ 2 \in S
      OBVIOUS
    <3> HIDE DEF S
    <3>2. Min(S) \in S /\ Min(S) <= 2
      BY <3>1, MinIsLeast
    <3> QED
      BY <3>2 DEF S
  <2>2. Min({alarms + 1, 2}) \in 0..2
    BY <2>1
  <2>3. Append(pipe, "ALRM") \in Seq(Signals)
    BY AlarmsAppend
  <2>4. spc' \in {"wait", "batch", "tick", "over", "ended", "killed"}
        /\ (spc = "ended" => spc' = "ended")
    BY <1>4 DEF AlarmFires, Running
  <2>5. /\ alarmAt' = NoAlarm /\ pipe' = Append(pipe, "ALRM") /\ alarms' = Min({alarms + 1, 2})
        /\ UNCHANGED <<batch, timeout, stop>> /\ pc' = pc
    BY <1>4 DEF AlarmFires, signal_handler, vars
  <2> QED
    BY <2>2, <2>3, <2>4, <2>5
<1>5. CASE TermArrives
  <2>1. Append(pipe, "TERM") \in Seq(Signals)
    BY AlarmsAppend
  <2> QED
    BY <1>5, <2>1 DEF TermArrives, signal_handler, mainVars
<1>6. CASE UNCHANGED serverVars
  BY <1>6 DEF serverVars, mainVars, signalVars
<1> QED
  BY <1>1, <1>2, <1>3, <1>4, <1>5, <1>6

LEMMA QuietServerKept ==
    ASSUME ServerInv,
           \/ EpollWait \/ ReadPipe \/ NothingDue \/ StartTick \/ AfterTick
           \/ AlarmFires \/ TermArrives \/ TimePasses
           \/ \E c \in Clients : ClientActs(c)
           \/ UNCHANGED allVars
    PROVE  ServerInv'
<1> USE DEF ServerInv
<1>1. UNCHANGED vars \/ Tick \/ Second
  BY DEF EpollWait, ReadPipe, NothingDue, StartTick, AfterTick, AlarmFires, TermArrives,
         TimePasses, ClientActs, allVars
<1>2. /\ heap' = heap /\ node' = node /\ now' \in {now, now + 1}
      /\ pc' # "undefined" => pc # "undefined"
      /\ pc' = "destroy" => pc = "destroy"
      /\ pc' = "undefined" <=> pc = "undefined"
  BY <1>1 DEF vars, Tick, Second
<1>3. ListInv'
  BY <1>1, ListKeeps DEF ListAction, ListCall
<1>4. NetInv'
  <2>1. CASE UNCHANGED netVars
    BY <2>1, ReadNet DEF netVars, NetInv, NetTypeOK
  <2>2. ASSUME NEW c \in Clients, ClientActs(c) PROVE NetInv'
    BY <2>2, ClientNet DEF ClientActs
  <2> QED
    BY <2>1, <2>2
    DEF EpollWait, ReadPipe, NothingDue, StartTick, AfterTick, AlarmFires, TermArrives,
        TimePasses, allVars
<1>5. UNCHANGED <<users, closed, heard>>
  BY DEF EpollWait, ReadPipe, NothingDue, StartTick, AfterTick, AlarmFires, TermArrives,
         TimePasses, ClientActs, allVars, serverVars, mainVars
<1>6. conn' = conn
  BY DEF EpollWait, ReadPipe, NothingDue, StartTick, AfterTick, AlarmFires, TermArrives,
         TimePasses, ClientActs, Connect, SendByte, Leave, allVars, netVars
<1>7. ServerTypes'
  <2>1. now' \in 0..MaxTime
    BY <1>3 DEF ListInv, ListTypes
  <2> QED
    BY <1>2, <1>5, <2>1, ServerTypesQuiet DEF TimePasses, ClientActs, allVars
<1>8. Running' => Running
  <2>1. spc' \notin {"ended", "killed"} => spc \notin {"ended", "killed"}
    BY DEF EpollWait, ReadPipe, NothingDue, StartTick, AfterTick, AfterBatch, AlarmFires,
           Running, TermArrives, TimePasses, ClientActs, allVars, serverVars, mainVars
  <2> QED
    BY <1>2, <2>1 DEF Running
<1> QED
  BY <1>2, <1>3, <1>4, <1>5, <1>6, <1>7, <1>8, UntouchedKept DEF SameTimes

LEMMA AcceptServerKept == ASSUME ServerInv, AcceptClient PROVE ServerInv'
<1> USE DEF ServerInv
<1>1. /\ pc = "idle" /\ spc = "batch" /\ spc' = "batch" /\ lfd \in batch
      /\ batch' = batch \ {lfd} /\ closed' = closed
      /\ UNCHANGED <<timeout, stop, signalVars, phase, inbox>>
  BY DEF AcceptClient, Takes
<1>2. CASE lfd \in closed
  <2>1. /\ Undefined /\ UNCHANGED <<heap, now, atEnd, users, heard, conn, backlog>>
    BY <1>2 DEF AcceptClient
  <2>2. /\ ListInv' /\ pc' = "undefined" /\ node' = node
    BY <2>1, ListKeeps DEF ListAction, Undefined
  <2>3. NetInv'
    BY <1>1, <2>1, ReadNet DEF NetInv, NetTypeOK
  <2>4. ServerTypes'
    BY <1>1, <2>1, <2>2 DEF ServerTypes, signalVars
  <2> QED
    BY <1>1, <2>1, <2>2, <2>3, <2>4, UntouchedKept DEF SameTimes, Running
<1>3. CASE lfd \notin closed
  <2> DEFINE c == Head(backlog)
  <2>1. PICK t : t = CHOOSE u \in Timers : heap[u] = "unborn"
    OBVIOUS
  <2>2. /\ TakeConnection
        /\ users' = [users EXCEPT ![FreeFD] = [timer |-> t, confd |-> lfd]]
        /\ heard' = [heard EXCEPT ![c] = now]
        /\ Add(t, 3 * TIMESLOT)
    BY <1>3, <2>1 DEF AcceptClient
  <2>3. backlog # <<>>
    BY <2>2 DEF TakeConnection
  <2>4. t \in Timers /\ heap[t] = "unborn" /\ 3 * TIMESLOT \in Nat
    BY <2>1, <2>3, UnbornTimer, ServerAssumption
  <2>5. /\ FreeFD \in FDs \ {lfd} /\ conn[FreeFD] = NoClient /\ c \in Clients
        /\ c = backlog[1] /\ 1 \in 1..Len(backlog) /\ c # NoClient
    BY <2>3, DescriptorFree, NetAssumption DEF NetInv, NetTypeOK
  <2>6. ListInv'
    BY <2>2, <2>4, ListKeeps DEF ListAction, ListCall
  <2>7. NetInv'
    BY <1>1, <2>2, AcceptNet
  <2>8. /\ heap' = [heap EXCEPT ![t] = "live"] /\ now' = now /\ pc' # "destroy"
        /\ pc' # "undefined" =>
              /\ node'[t].expireTime = now + 3 * TIMESLOT
              /\ \A u \in Timers \ {t} : node'[u].expireTime = node[u].expireTime
    BY <2>2, <2>4, AddChanges DEF ListInv
  <2>9. conn' = [conn EXCEPT ![FreeFD] = c] /\ conn \in [FDs -> Clients \cup {NoClient}]
    BY <2>2 DEF TakeConnection, NetInv, NetTypeOK
  <2>10. /\ Open' = Open \cup {FreeFD} /\ FreeFD \notin Open
         /\ \A f \in Open : f \in FDs /\ conn'[f] = conn[f] /\ users'[f] = users[f]
         /\ users'[FreeFD].timer = t /\ conn'[FreeFD] = c
    BY <2>2, <2>5, <2>9 DEF Open, ServerTypes
  <2>11. \A f \in Open : conn[f] \in Clients /\ conn[f] # c
    BY <2>5, <2>9 DEF Open, NetInv
  <2>12. \A f \in Open : users[f].timer # t
    BY <2>4 DEF Paired
  <2>13. /\ \A u \in Timers \ {t} : heap'[u] = heap[u]
         /\ heap'[t] = "live" /\ Live' = Live \cup {t}
    BY <2>4, <2>8 DEF Live, ListInv, ListTypes
  <2>14. ServerTypes'
    <3>1. now \in 0..MaxTime /\ heard' \in [Clients -> 0..MaxTime]
      BY <2>2, <2>5 DEF ListInv, ListTypes, ServerTypes
    <3>2. users' \in [FDs -> [timer : Timers \cup {NULL}, confd : {lfd}]]
      BY <2>2, <2>4, <2>5 DEF ServerTypes
    <3>3. batch' \subseteq FDs \cup {Pipe}
      BY <1>1 DEF ServerTypes
    <3> QED
      BY <1>1, <2>8, <3>1, <3>2, <3>3 DEF ServerTypes, signalVars
  <2>15. Paired'
    BY <2>4, <2>10, <2>12, <2>13 DEF Paired
  <2>16. Punctual'
    <3> SUFFICES ASSUME pc' # "undefined", NEW f \in Open', users'[f].timer \in Live'
                 PROVE  node'[users'[f].timer].expireTime = heard'[conn'[f]] + 3 * TIMESLOT
      BY DEF Punctual
    <3>1. CASE f = FreeFD
      BY <2>2, <2>5, <2>8, <2>10, <3>1 DEF ServerTypes
    <3>2. CASE f \in Open
      <4>1. users[f].timer \in Live /\ users[f].timer \in Timers \ {t}
        BY <2>10, <2>12, <2>13, <3>2 DEF Live
      <4>2. node[users[f].timer].expireTime = heard[conn[f]] + 3 * TIMESLOT
        BY <1>1, <3>2, <4>1 DEF Punctual
      <4>3. heard'[conn[f]] = heard[conn[f]]
        BY <2>2, <2>11, <3>2 DEF ServerTypes
      <4> QED
        BY <2>8, <2>10, <3>2, <4>1, <4>2, <4>3
    <3> QED
      BY <2>10, <3>1, <3>2
  <2>17. ListenerIsRight'
    <3>1. \A f \in Open : users[f].timer \in Live
      BY <1>1, <1>3 DEF ListenerIsRight, Running
    <3>2. \A f \in Open' : users'[f].timer \in Live'
      BY <2>10, <2>13, <3>1
    <3> QED
      BY <1>1, <1>3, <3>2 DEF ListenerIsRight
  <2> QED
    BY <2>6, <2>7, <2>14, <2>15, <2>16, <2>17
<1> QED
  BY <1>2, <1>3

\* Who has received is due three slots from now.
LEMMA BytesServerKept ==
    ASSUME ServerInv, NEW f \in FDs, ReceiveBytes(f)
    PROVE  ServerInv'
<1> USE DEF ServerInv
<1> DEFINE c == conn[f]
           t == users[f].timer
<1>1. /\ f \in Open /\ pc = "idle" /\ spc = "batch" /\ spc' = "batch"
      /\ batch' = batch \ {f} /\ heard' = [heard EXCEPT ![c] = now]
      /\ PutOff(t)
      /\ UNCHANGED <<users, closed, timeout, stop, signalVars, phase, conn, backlog>>
  BY DEF ReceiveBytes, Takes
<1>2. c \in Clients /\ t \in Timers /\ Open \subseteq FDs /\ Open' = Open
  BY <1>1 DEF Open, NetInv, NetTypeOK, Paired
<1>3. /\ 3 * TIMESLOT \in Nat
      /\ Adjust(t, 3 * TIMESLOT) \/ (Undefined /\ UNCHANGED <<heap, now, atEnd>>)
  BY <1>1, ServerAssumption DEF PutOff
<1>4. ListInv'
  BY <1>2, <1>3, ListKeeps DEF ListAction, ListCall
<1>5. /\ heap' = heap /\ now' = now /\ pc' # "destroy"
      /\ pc' # "undefined" =>
            /\ node'[t].expireTime = now + 3 * TIMESLOT
            /\ \A u \in Timers \ {t} : node'[u].expireTime = node[u].expireTime
  BY <1>2, <1>3, AdjustChanges DEF ListInv, Undefined
<1>6. NetInv'
  <2> DEFINE S == {inbox[c], BUF_SIZE}
  <2>1. S \subseteq Nat /\ S # {} /\ inbox[c] \in S /\ inbox[c] \in 0..MaxBytes
        /\ MaxBytes \in Nat
    BY <1>2, ServerAssumption, NetAssumption DEF NetInv, NetTypeOK
  <2>2. inbox' = [inbox EXCEPT ![c] = @ - Min(S)]
    BY DEF ReceiveBytes
  <2> HIDE DEF S
  <2>3. Min(S) \in Nat /\ Min(S) <= inbox[c]
    BY <2>1, MinIsLeast
  <2>4. inbox[c] - Min(S) \in 0..MaxBytes
    BY <2>1, <2>3
  <2> HIDE DEF c
  <2>5. inbox' \in [Clients -> 0..MaxBytes]
    BY <1>2, <2>2, <2>4 DEF NetInv, NetTypeOK
  <2> QED
    BY <1>1, <2>5, ReadNet
<1>7. ServerTypes'
  <2>1. now \in 0..MaxTime /\ heard' \in [Clients -> 0..MaxTime]
    BY <1>1, <1>2 DEF ListInv, ListTypes, ServerTypes
  <2>2. batch' \subseteq FDs \cup {Pipe}
    BY <1>1 DEF ServerTypes
  <2> QED
    BY <1>1, <1>5, <2>1, <2>2 DEF ServerTypes, signalVars
<1>8. Live' = Live
  BY <1>5 DEF Live
<1>9. Paired'
  BY <1>1, <1>2, <1>5 DEF Paired
<1>10. Punctual'
  <2> SUFFICES ASSUME pc' # "undefined", NEW g \in Open, users[g].timer \in Live
               PROVE  node'[users[g].timer].expireTime = heard'[conn[g]] + 3 * TIMESLOT
    BY <1>1, <1>2, <1>8 DEF Punctual
  <2>1. CASE g = f
    BY <1>1, <1>2, <1>5, <2>1 DEF ServerTypes
  <2>2. CASE g # f
    <3>1. users[g].timer # t /\ users[g].timer \in Timers
      BY <1>1, <2>2 DEF Paired
    <3>2. conn[g] # c
      BY <1>1, <1>2, <2>2 DEF Open, NetInv
    <3>3. node[users[g].timer].expireTime = heard[conn[g]] + 3 * TIMESLOT
      BY <1>1 DEF Punctual
    <3>4. heard'[conn[g]] = heard[conn[g]]
      <4>1. conn[g] \in Clients
        BY DEF Open, NetInv, NetTypeOK
      <4> QED
        BY <1>1, <3>2, <4>1 DEF ServerTypes
    <3> QED
      BY <1>5, <3>1, <3>3, <3>4
  <2> QED
    BY <2>1, <2>2
<1>11. ListenerIsRight'
  BY <1>1, <1>2, <1>8 DEF ListenerIsRight, Running
<1> QED
  BY <1>4, <1>6, <1>7, <1>9, <1>10, <1>11

\* A timer that is deleted takes the listener with it.
LEMMA GoneKept ==
    ASSUME ServerInv, Paired', ListInv', ServerTypes', NetInv', SameTimes,
           UNCHANGED <<users, heard, conn>>, pc # "undefined",
           NEW f \in Open, closed' = closed \cup {lfd},
           pc' # "undefined" => heap' = [heap EXCEPT ![users[f].timer] = "deleted"]
    PROVE  ServerInv'
<1> USE DEF ServerInv
<1>1. Open' = Open /\ users[f].timer \in Timers
  BY DEF Open, Paired
<1>2. pc' # "undefined" => Live' = Live \ {users[f].timer}
  BY <1>1 DEF Live, ListInv, ListTypes
<1>3. Punctual'
  <2> SUFFICES ASSUME pc' # "undefined", NEW g \in Open, users[g].timer \in Live'
               PROVE  node'[users[g].timer].expireTime = heard[conn[g]] + 3 * TIMESLOT
    BY <1>1 DEF Punctual
  <2>1. users[g].timer \in Live /\ users[g].timer \in Timers
    BY <1>2 DEF Live
  <2> QED
    BY <2>1 DEF Punctual, SameTimes
<1>4. ListenerIsRight'
  <2> SUFFICES ASSUME pc' # "undefined"
               PROVE  lfd \in closed' /\ \E g \in Open' : users'[g].timer \notin Live'
    BY DEF ListenerIsRight, Running
  <2>1. users'[f].timer \notin Live'
    BY <1>2
  <2> QED
    BY <1>1, <2>1
<1> QED
  BY <1>3, <1>4

LEMMA EndServerKept ==
    ASSUME ServerInv, NEW f \in FDs, ReceiveEnd(f)
    PROVE  ServerInv'
<1> USE DEF ServerInv
<1> DEFINE t == users[f].timer
<1>1. /\ f \in Open /\ pc = "idle" /\ spc' = spc /\ batch' = batch \ {f}
      /\ closed' = closed \cup {users[f].confd} /\ Drop(t)
      /\ UNCHANGED <<users, heard, timeout, stop, signalVars, phase, conn, backlog, inbox>>
  BY DEF ReceiveEnd, Takes, cb_func
<1>2. t \in Timers /\ closed' = closed \cup {lfd}
  BY <1>1 DEF Paired, ServerTypes
<1>3. (t \in Live /\ Delete(t)) \/ (Undefined /\ UNCHANGED <<heap, now, atEnd>>)
  BY <1>1 DEF Drop
<1>4. ListInv'
  BY <1>2, <1>3, ListKeeps DEF ListAction, ListCall
<1>5. /\ SameTimes /\ now' = now /\ pc' # "destroy"
      /\ pc' # "undefined" => heap' = [heap EXCEPT ![t] = "deleted"]
      /\ \A u \in Timers : heap'[u] = "unborn" <=> heap[u] = "unborn"
  <2>1. CASE t \in Live /\ Delete(t)
    <3>1. /\ SameTimes /\ now' = now /\ pc' # "destroy"
          /\ pc' # "undefined" => heap' = [heap EXCEPT ![t] = "deleted"]
          /\ pc' = "undefined" => heap' = heap
      BY <1>2, <2>1, DeleteChanges DEF ListInv
    <3> QED
      BY <1>2, <2>1, <3>1 DEF Live, ListInv, ListTypes
  <2>2. CASE Undefined /\ UNCHANGED <<heap, now, atEnd>>
    BY <2>2 DEF Undefined, SameTimes
  <2> QED
    BY <1>3, <2>1, <2>2
<1>6. NetInv'
  BY <1>1, ReadNet DEF NetInv, NetTypeOK
<1>7. ServerTypes'
  <2>1. closed' \subseteq {lfd} /\ batch' \subseteq FDs \cup {Pipe}
    BY <1>1, <1>2 DEF ServerTypes
  <2> QED
    BY <1>1, <1>5, <2>1 DEF ServerTypes, signalVars
<1>8. Paired'
  <2>1. Open' = Open
    BY <1>1 DEF Open
  <2> QED
    BY <1>1, <1>5, <2>1 DEF Paired
<1> QED
  BY <1>1, <1>2, <1>4, <1>5, <1>6, <1>7, <1>8, GoneKept

LEMMA LeaveServerKept == ASSUME ServerInv, LeaveMain PROVE ServerInv'
<1> USE DEF ServerInv
<1>1. /\ spc' = "ended" /\ closed' = closed \cup {lfd} /\ pc = "idle" /\ pc' = "destroy"
      /\ UNCHANGED <<users, batch, heard, timeout, stop, signalVars, netVars,
                     node, heap, now>>
      /\ Destroy
  BY DEF LeaveMain, Destroy
<1>2. ListInv'
  BY <1>1, ListKeeps DEF ListAction, ListCall
<1>3. NetInv'
  BY <1>1, ReadNet DEF netVars, NetInv, NetTypeOK
<1>4. ServerTypes'
  BY <1>1 DEF ServerTypes, signalVars
<1>5. Open' = Open /\ Live' = Live
  BY <1>1 DEF Open, Live, netVars
<1>6. Paired' /\ Punctual'
  BY <1>1, <1>5 DEF Paired, Punctual, netVars
<1>7. ListenerIsRight'
  BY <1>1 DEF ListenerIsRight, Running
<1> QED
  BY <1>2, <1>3, <1>4, <1>6, <1>7

\* The client whose timer is deleted.
LEMMA UserOfIs ==
    ASSUME ServerInv, NEW t \in Live
    PROVE  UserOf(t) \in Open /\ users[UserOf(t)].timer = t
<1>1. \E f \in Open : users[f].timer = t
  BY DEF ServerInv, Paired, Live
<1> QED
  BY <1>1 DEF UserOf

LEMMA LoopServerKept == ASSUME ServerInv, ListStep PROVE ServerInv'
<1> USE DEF ServerInv
<1>1. /\ LoopStep
      /\ UNCHANGED <<users, batch, spc, heard, timeout, stop, signalVars, netVars>>
      /\ IF pc = "tick" /\ Live' # Live THEN cb_func(UserOf(cur)) ELSE UNCHANGED closed
  BY DEF ListStep
<1>2. ListInv'
  BY <1>1, ListKeeps DEF ListAction, ListCall
<1>3. /\ SameTimes /\ now' = now /\ pc # "undefined" /\ (pc' = "destroy" => pc = "destroy")
      /\ \/ heap' = heap
         \/ /\ pc = "tick" /\ cur \in Live /\ node[cur].expireTime <= now
            /\ heap' = [heap EXCEPT ![cur] = "deleted"]
         \/ /\ pc = "destroy" /\ head \in Live
            /\ heap' = [heap EXCEPT ![head] = "deleted"]
  BY <1>1, LoopChanges DEF ListInv
<1>4. NetInv' /\ conn' = conn /\ Open' = Open
  BY <1>1, ReadNet DEF netVars, NetInv, NetTypeOK, Open
<1>5. closed' \subseteq {lfd} => ServerTypes'
  BY <1>1, <1>3 DEF ServerTypes, signalVars
<1>6. CASE heap' = heap
  <2>1. closed' = closed
    BY <1>1, <1>6 DEF Live
  <2>2. ServerTypes'
    BY <1>5, <2>1 DEF ServerTypes
  <2>3. Running' => Running
    BY <1>1, <1>3 DEF Running
  <2> QED
    BY <1>1, <1>2, <1>3, <1>4, <1>6, <2>1, <2>2, <2>3, UntouchedKept
<1>7. CASE /\ pc = "tick" /\ cur \in Live
           /\ heap' = [heap EXCEPT ![cur] = "deleted"]
  <2> DEFINE f == UserOf(cur)
  <2>1. f \in Open /\ users[f].timer = cur /\ f \in FDs
    <3>1. PICK t \in Live : t = cur
      BY <1>7
    <3> QED
      BY <3>1, UserOfIs DEF Open
  <2>2. cur \in Live /\ cur \notin Live' /\ \A t \in Timers : heap'[t] = "unborn" <=> heap[t] = "unborn"
    BY <1>7 DEF Live, ListInv, ListTypes
  <2>3. closed' = closed \cup {lfd}
    BY <1>1, <1>7, <2>1, <2>2 DEF cb_func, ServerTypes
  <2>4. ServerTypes'
    BY <1>5, <2>3 DEF ServerTypes
  <2>5. Paired'
    BY <1>1, <1>4, <2>2 DEF Paired
  <2> HIDE DEF f
  <2> QED
    BY <1>1, <1>2, <1>3, <1>4, <1>7, <2>1, <2>3, <2>4, <2>5, GoneKept
<1>8. CASE /\ pc = "destroy" /\ head \in Live
           /\ heap' = [heap EXCEPT ![head] = "deleted"]
  <2>1. closed' = closed /\ spc' = "ended"
    BY <1>1, <1>8 DEF ServerTypes
  <2>2. /\ Live' \subseteq Live /\ Live' \subseteq Timers
        /\ \A t \in Timers : heap'[t] = "unborn" <=> heap[t] = "unborn"
    BY <1>8 DEF Live, ListInv, ListTypes
  <2>3. ServerTypes'
    BY <1>5, <2>1 DEF ServerTypes
  <2>4. Paired'
    BY <1>1, <1>4, <2>2 DEF Paired
  <2>5. Punctual'
    <3> SUFFICES ASSUME NEW f \in Open, users[f].timer \in Live'
                 PROVE  node'[users[f].timer].expireTime = heard[conn[f]] + 3 * TIMESLOT
      BY <1>1, <1>4 DEF Punctual
    <3>1. users[f].timer \in Live /\ users[f].timer \in Timers
      BY <2>2
    <3> QED
      BY <1>3, <3>1 DEF Punctual, SameTimes
  <2>6. ListenerIsRight'
    BY <2>1 DEF ListenerIsRight, Running
  <2> QED
    BY <1>2, <1>4, <2>3, <2>4, <2>5, <2>6
<1> QED
  BY <1>3, <1>6, <1>7, <1>8

LEMMA ServerKept == ServerInv /\ [ServerNext]_allVars => ServerInv'
<1> SUFFICES ASSUME ServerInv, [ServerNext]_allVars PROVE ServerInv'
  OBVIOUS
<1> QED
  BY QuietServerKept, AcceptServerKept, BytesServerKept, EndServerKept, LeaveServerKept,
     LoopServerKept
  DEF ServerNext, ServerStep

LEMMA TimersMatchFollows == ServerInv => TimersMatch
<1> SUFFICES ASSUME ServerInv PROVE TimersMatch
  OBVIOUS
<1> USE DEF ServerInv
<1>1. TimerListTypeOK
  <2>1. {head, tail, timer, cur} \subseteq Timers \cup {NULL}
    BY DEF ListInv, ListTypes
  <2> QED
    BY <2>1 DEF ListInv, ListTypes, NoneDangling, TimerListTypeOK
<1>2. users \in [FDs -> [timer : Timers \cup {NULL}, confd : FDs]] /\ closed \subseteq FDs
  BY FDsAre DEF ServerTypes
<1>3. ServerTypeOK
  BY <1>1, <1>2 DEF ServerTypeOK, ServerTypes, NetInv
<1>4. Live \subseteq {users[f].timer : f \in Open}
  BY DEF Paired, Live
<1>5. Running => \A f \in Open : users[f].timer \in Live =>
                     node[users[f].timer].expireTime = heard[conn[f]] + 3 * TIMESLOT
  BY DEF Running, Punctual
<1> QED
  BY <1>3, <1>4, <1>5 DEF TimersMatch, Paired, ListenerIsRight

\* Every connection has its timer and every timer its connection, due three
\* slots after the client was last heard, for any number of clients; and the
\* listener is gone from the first deletion of a timer on, not sooner.
THEOREM MatchCorrect == ServerSpec => []TimersMatch
  BY ServerInitInv, ServerKept, TimersMatchFollows, PTL DEF ServerSpec

LEMMA SilentStep ==
    ASSUME ServerInv, [ServerNext]_allVars, NEW t \in Live \ Live', pc = "tick"
    PROVE  now >= heard[conn[UserOf(t)]] + 3 * TIMESLOT
<1> USE DEF ServerInv
<1>1. heap' # heap
  BY DEF Live
<1>2. ListStep
  BY <1>1
  DEF ServerNext, ServerStep, EpollWait, AcceptClient, Takes, ReadPipe, ReceiveBytes,
      ReceiveEnd, NothingDue, StartTick, AfterBatch, AfterTick, LeaveMain, Destroy,
      AlarmFires, TermArrives, TimePasses, Second, ClientActs, allVars, vars
<1>3. /\ cur \in Live /\ node[cur].expireTime <= now
      /\ heap' = [heap EXCEPT ![cur] = "deleted"]
  BY <1>1, <1>2, LoopChanges DEF ListStep, ListInv
<1>4. t = cur
  BY <1>3 DEF Live, ListInv, ListTypes
<1>5. UserOf(t) \in Open /\ users[UserOf(t)].timer = t
  BY UserOfIs
<1>6. node[t].expireTime = heard[conn[UserOf(t)]] + 3 * TIMESLOT
  BY <1>5 DEF Punctual
<1>7. node[t].expireTime \in Nat /\ now \in Nat
  BY DEF ListInv, ListTypes, Fields, Live
<1> QED
  BY <1>3, <1>4, <1>6, <1>7

\* No client is given up that has been heard within three slots.
THEOREM SilentCorrect == ServerSpec => SilentOnly
<1> DEFINE Gone == \A t \in Live \ Live' : pc = "tick" =>
                       now >= heard[conn[UserOf(t)]] + 3 * TIMESLOT
<1>1. ServerInv /\ [ServerNext]_allVars => [Gone]_allVars
  BY SilentStep
<1> QED
  BY <1>1, ServerInitInv, ServerKept, PTL DEF ServerSpec, SilentOnly
=============================================================================
