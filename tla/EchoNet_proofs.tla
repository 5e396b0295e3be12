--------------------------- MODULE EchoNet_proofs ---------------------------
(***************************************************************************)
(* What the servers can count on of the network of EchoNet, for every set  *)
(* of clients: NetInv says that a client is in one place at most, and the  *)
(* lemmas that the calls keep it so and that accept finds a descriptor.    *)
(***************************************************************************)
EXTENDS EchoNet, FiniteSetTheorems, WellFoundedInduction, TLAPS

\* Min is what it should be: of the sets 0..n with n \in S one is in no other.
LEMMA MinIsLeast ==
    ASSUME NEW S, S \subseteq Nat, S # {}
    PROVE  Min(S) \in S /\ \A n \in S : Min(S) <= n
<1> DEFINE upTo == {0..n : n \in S}
<1>1. upTo \subseteq FiniteSubsetsOf(Nat) /\ upTo # {}
  <2>1. ASSUME NEW n \in S PROVE 0..n \in FiniteSubsetsOf(Nat)
    <3>1. n \in Int /\ 0..n \subseteq Nat
      OBVIOUS
    <3>2. IsFiniteSet(0..n)
      BY <3>1, FS_Interval
    <3> QED
      BY <3>1, <3>2 DEF FiniteSubsetsOf
  <2> QED
    BY <2>1
<1>2. PICK low \in upTo : \A u \in upTo : <<u, low>> \notin StrictSubsetOrdering(Nat)
  BY <1>1, FS_StrictSubsetOrderingWellFounded, WFMin
<1>3. PICK m \in S : low = 0..m
  BY <1>2
<1>4. ASSUME NEW n \in S PROVE m <= n
  <2>1. SUFFICES ASSUME n < m PROVE FALSE
    OBVIOUS
  <2>2. 0..n \subseteq 0..m /\ m \in 0..m /\ m \notin 0..n
    BY <2>1
  <2>3. <<0..n, low>> \in StrictSubsetOrdering(Nat)
    BY <1>3, <2>2 DEF StrictSubsetOrdering
  <2> QED
    BY <1>2, <2>3
<1> QED
  BY <1>4 DEF Min

-----------------------------------------------------------------------------
\* A client is in the backlog or on a descriptor, once, and only if it came.
NetInv ==
    /\ NetTypeOK
    /\ conn[lfd] = NoClient
    /\ \A f, g \in FDs : conn[f] = conn[g] /\ conn[f] # NoClient => f = g
    /\ \A i, j \in 1..Len(backlog) : backlog[i] = backlog[j] => i = j
    /\ \A i \in 1..Len(backlog), f \in FDs : backlog[i] # conn[f]
    /\ \A i \in 1..Len(backlog) : phase[backlog[i]] # "away"
    /\ \A f \in FDs : conn[f] # NoClient => phase[conn[f]] # "away"

LEMMA FDsAre ==
    /\ Cardinality(Clients) \in Nat /\ IsFiniteSet(FDs)
    /\ FDs \subseteq Nat /\ lfd \in FDs /\ FDs \ {lfd} = 1..Cardinality(Clients)
<1>1. Cardinality(Clients) \in Nat
  BY NetAssumption, FS_CardinalityType
<1>2. IsFiniteSet(0..Cardinality(Clients))
  BY <1>1, FS_Interval
<1> QED
  BY <1>1, <1>2 DEF FDs, lfd

LEMMA NetInitInv == NetInit => NetInv
<1> SUFFICES ASSUME NetInit PROVE NetInv
  OBVIOUS
<1>1. NetTypeOK
  BY NetAssumption DEF NetInit, NetTypeOK
<1> QED
  BY <1>1, FDsAre DEF NetInit, NetInv

\* As many clients as are on descriptors are not in the backlog.
LEMMA DescriptorFree ==
    ASSUME NetInv, backlog # <<>>
    PROVE  /\ FreeFD \in FDs \ {lfd} /\ conn[FreeFD] = NoClient
           /\ Head(backlog) \in Clients /\ Head(backlog) = backlog[1]
<1>1. Head(backlog) = backlog[1] /\ 1 \in 1..Len(backlog) /\ backlog[1] \in Clients
  BY DEF NetInv, NetTypeOK
<1> DEFINE others == Clients \ {backlog[1]}
           free == {f \in FDs \ {lfd} : conn[f] = NoClient}
<1>2. IsFiniteSet(others) /\ Cardinality(others) = Cardinality(Clients) - 1
  BY <1>1, NetAssumption, FS_RemoveElement
<1>3. ASSUME free = {} PROVE FALSE
  <2> DEFINE on == [f \in FDs \ {lfd} |-> conn[f]]
  <2>1. on \in Injection(FDs \ {lfd}, others)
    <3>1. ASSUME NEW f \in FDs \ {lfd} PROVE conn[f] \in others
      BY <1>1, <1>3 DEF NetInv, NetTypeOK
    <3>2. \A f, g \in FDs \ {lfd} : on[f] = on[g] => f = g
      BY <1>3 DEF NetInv
    <3> QED
      BY <3>1, <3>2 DEF Injection, IsInjective
  <2>2. Cardinality(FDs \ {lfd}) <= Cardinality(others)
    BY <1>2, <2>1, FS_Injection
  <2>3. Cardinality(FDs \ {lfd}) = Cardinality(Clients)
    <3> DEFINE n == Cardinality(Clients)
    <3>1. n \in Nat /\ FDs \ {lfd} = 1..n
      BY FDsAre
    <3>2. Cardinality(1..n) = IF 1 > n THEN 0 ELSE n - 1 + 1
      BY <3>1, FS_Interval
    <3> HIDE DEF n
    <3>3. (IF 1 > n THEN 0 ELSE n - 1 + 1) = n
      BY <3>1
    <3>4. Cardinality(FDs \ {lfd}) = n
      BY <3>1, <3>2, <3>3
    <3> QED
      BY <3>4 DEF n
  <2> QED
    BY <1>2, <2>2, <2>3, FDsAre
<1>4. free \subseteq Nat /\ free # {}
  BY <1>3, FDsAre
<1>5. FreeFD \in free
  BY <1>4, MinIsLeast DEF FreeFD
<1> QED
  BY <1>1, <1>5

-----------------------------------------------------------------------------
(* The calls *)

LEMMA ClientNet ==
    ASSUME NetInv, NEW c \in Clients, Connect(c) \/ SendByte(c) \/ Leave(c)
    PROVE  NetInv'
<1> USE DEF NetInv, NetTypeOK
<1>1. CASE Connect(c)
  <2>1. /\ phase[c] = "away" /\ phase' = [phase EXCEPT ![c] = "here"]
        /\ backlog' = Append(backlog, c) /\ conn' = conn /\ inbox' = inbox
    BY <1>1 DEF Connect
  <2>2. NetTypeOK'
    BY <2>1
  <2>3. /\ Len(backlog') = Len(backlog) + 1 /\ backlog'[Len(backlog) + 1] = c
        /\ \A i \in 1..Len(backlog) : backlog'[i] = backlog[i]
    BY <2>1
  <2>4. \A i \in 1..Len(backlog) : backlog[i] # c
    BY <2>1
  <2>5. \A f \in FDs : conn[f] # c
    BY <2>1, NetAssumption
  <2>6. \A d \in Clients : phase[d] # "away" => phase'[d] # "away"
    BY <2>1
  <2>7. phase'[c] # "away"
    BY <2>1
  <2> QED
    BY <2>1, <2>2, <2>3, <2>4, <2>5, <2>6, <2>7
<1>2. CASE SendByte(c)
  <2>1. inbox' \in [Clients -> 0..MaxBytes]
    BY <1>2, NetAssumption DEF SendByte
  <2> QED
    BY <1>2, <2>1 DEF SendByte
<1>3. CASE Leave(c)
  BY <1>3 DEF Leave
<1> QED
  BY <1>1, <1>2, <1>3

LEMMA TailOfBacklog ==
    ASSUME NetInv, backlog # <<>>, backlog' = Tail(backlog)
    PROVE  /\ backlog' \in Seq(Clients) /\ 1 \in 1..Len(backlog)
           /\ \A i \in 1..Len(backlog') : /\ i + 1 \in 1..Len(backlog)
                                         /\ backlog'[i] = backlog[i + 1]
                                         /\ backlog'[i] # backlog[1]
           /\ \A i, j \in 1..Len(backlog') : backlog'[i] = backlog'[j] => i = j
<1> USE DEF NetInv
<1>1. /\ backlog' \in Seq(Clients) /\ Len(backlog') = Len(backlog) - 1
      /\ \A i \in 1..Len(backlog') : i + 1 \in 1..Len(backlog) /\ backlog'[i] = backlog[i + 1]
  BY DEF NetTypeOK
<1>2. 1 \in 1..Len(backlog) /\ \A i \in 1..Len(backlog') : backlog'[i] # backlog[1]
  BY <1>1 DEF NetTypeOK
<1>3. ASSUME NEW i \in 1..Len(backlog'), NEW j \in 1..Len(backlog'),
             backlog'[i] = backlog'[j]
      PROVE  i = j
  <2>1. i + 1 = j + 1
    BY <1>1, <1>3
  <2>2. i \in Int /\ j \in Int
    BY <1>1
  <2> QED
    BY <2>1, <2>2
<1> QED
  BY <1>1, <1>2, <1>3

LEMMA AcceptNet ==
    ASSUME NetInv, TakeConnection, phase' = phase, inbox' = inbox
    PROVE  NetInv'
<1> USE DEF NetInv
<1>1. /\ backlog # <<>> /\ backlog' = Tail(backlog)
      /\ conn' = [conn EXCEPT ![FreeFD] = backlog[1]]
  BY DescriptorFree DEF TakeConnection
<1>2. /\ FreeFD \in FDs \ {lfd} /\ conn[FreeFD] = NoClient /\ backlog[1] \in Clients
  BY <1>1, DescriptorFree
<1>3. /\ backlog' \in Seq(Clients) /\ 1 \in 1..Len(backlog)
      /\ \A i \in 1..Len(backlog') : i + 1 \in 1..Len(backlog) /\ backlog'[i] = backlog[i + 1]
      /\ \A i \in 1..Len(backlog') : backlog'[i] # backlog[1]
      /\ \A i, j \in 1..Len(backlog') : backlog'[i] = backlog'[j] => i = j
  BY <1>1, TailOfBacklog
<1>4. NetTypeOK'
  BY <1>1, <1>2, <1>3 DEF NetTypeOK
<1>5. conn'[FreeFD] = backlog[1] /\ \A f \in FDs \ {FreeFD} : conn'[f] = conn[f]
  BY <1>1, <1>2 DEF NetTypeOK
<1>6. /\ conn'[lfd] = NoClient
      /\ \A f, g \in FDs : conn'[f] = conn'[g] /\ conn'[f] # NoClient => f = g
  <2>1. \A f \in FDs : conn[f] # backlog[1]
    BY <1>3
  <2>2. conn'[lfd] = NoClient
    BY <1>2, <1>5, FDsAre
  <2>3. ASSUME NEW f \in FDs, NEW g \in FDs, conn'[f] = conn'[g], conn'[f] # NoClient
        PROVE  f = g
    <3>1. CASE f = FreeFD \/ g = FreeFD
      BY <1>5, <2>1, <2>3, <3>1
    <3>2. CASE f # FreeFD /\ g # FreeFD
      BY <1>5, <2>3, <3>2
    <3> QED
      BY <3>1, <3>2
  <2> QED
    BY <2>2, <2>3
<1>7. \A i \in 1..Len(backlog'), f \in FDs : backlog'[i] # conn'[f]
  BY <1>3, <1>5
<1>8. \A i \in 1..Len(backlog') : phase[backlog'[i]] # "away"
  BY <1>3
<1>9. \A f \in FDs : conn'[f] # NoClient => phase[conn'[f]] # "away"
  BY <1>3, <1>5
<1> HIDE DEF NetInv
<1> QED
  BY <1>3, <1>4, <1>6, <1>7, <1>8, <1>9 DEF NetInv

LEMMA CloseNet ==
    ASSUME NetInv, NEW f \in FDs, conn' = [conn EXCEPT ![f] = NoClient],
           backlog' = backlog, phase' = phase, inbox' = inbox
    PROVE  NetInv'
  BY NetAssumption DEF NetInv, NetTypeOK

LEMMA ReadNet ==
    ASSUME NetInv, inbox' \in [Clients -> 0..MaxBytes], UNCHANGED <<conn, backlog, phase>>
    PROVE  NetInv'
  BY DEF NetInv, NetTypeOK

=============================================================================
