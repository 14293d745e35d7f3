-------------------------- MODULE QoSSessionProofs --------------------------
(* Proofs about QoSSession for every number of ids, messages, connections,   *)
(* publishing threads and restarts: all variables have their types, and the  *)
(* send quota stays between 0 and the client's Receive Maximum.              *)
EXTENDS QoSSession, FiniteSetTheorems, FunctionTheorems, SequenceTheorems,
        WellFoundedInduction, TLAPS

-----------------------------------------------------------------------------
(* Facts about the operators of the model                                    *)

LEMMA IdsAreFinite == ASSUME NEW S \in SUBSET Ids PROVE IsFiniteSet(S) /\ Cardinality(S) \in Nat
<1>1. IsFiniteSet(Ids)
  BY FS_Interval, BoundsAssumption DEF Ids
<1> QED
  BY <1>1, FS_Subset, FS_CardinalityType

(* A set of numbers has a smallest one.                                      *)
LEMMA HasMinimum ==
    ASSUME NEW S, S \subseteq Nat, S # {}
    PROVE  \E x \in S : \A y \in S : x <= y
<1>1. PICK x \in S : \A y \in S : ~ (<<y, x>> \in OpToRel(<, Nat))
  BY NatLessThanWellFounded, WFMin
<1>2. \A y \in S : ~ (y < x)
  BY <1>1 DEF OpToRel
<1> QED
  BY <1>2

(* The number of steps to an id is a number, as "% 65536" is.                *)
LEMMA DistanceType == ASSUME nextPacketId \in 0..MaxId, NEW id \in Ids PROVE Distance(id) \in Nat
<1>1. MaxId + 1 \in Nat \ {0}
  BY BoundsAssumption
<1>2. id - nextPacketId - 1 \in Int
  BY DEF Ids
<1> DEFINE n == MaxId + 1
           d == id - nextPacketId - 1
<1>3. \A a \in Int, b \in Nat \ {0} : a % b \in Nat
  OBVIOUS
<1> QED
  BY <1>1, <1>2, <1>3 DEF Distance

(* getNextPacketId returns an unused id when there is one (session.cpp:128). *)
LEMMA FirstFreeIsFree ==
    ASSUME nextPacketId \in 0..MaxId, NEW used, Ids \ used # {}
    PROVE  FirstFree(used) \in Ids \ used
<1> DEFINE distances == {Distance(id) : id \in Ids \ used}
<1>1. distances \subseteq Nat /\ distances # {}
  BY DistanceType
<1>2. PICK x \in distances : \A y \in distances : x <= y
  BY <1>1, HasMinimum
<1>3. \E id \in Ids \ used : \A other \in Ids \ used : Distance(id) <= Distance(other)
  BY <1>2
<1> QED
  BY <1>3 DEF FirstFree

(* What comes back from acknowledgements or cleared messages leaves the quota *)
(* between 0 and its ceiling (session.cpp:34-35).                            *)
LEMMA IncreasedQuotaBounds ==
    ASSUME NEW ids \in SUBSET Ids, flowControlQuota \in Int, flowControlCealing \in 1..MaxId,
           QuotaWithinReceiveMaximum
    PROVE  IncreasedQuota(ids) \in 0..flowControlCealing
<1>1. Cardinality(ids) \in Nat
  BY IdsAreFinite
<1> QED
  BY <1>1, BoundsAssumption DEF IncreasedQuota, QuotaWithinReceiveMaximum

-----------------------------------------------------------------------------
(* Sorting                                                                   *)

(* The rank of an element in a finite set with distinct keys.                *)
Rank(S, key, x) == Cardinality({y \in S : key[y] < key[x]})

LEMMA RankIncreases ==
    ASSUME NEW S, IsFiniteSet(S), NEW key, \A x \in S : key[x] \in Int,
           NEW x \in S, NEW y \in S, key[x] < key[y]
    PROVE  Rank(S, key, x) < Rank(S, key, y)
<1> DEFINE below(z) == {w \in S : key[w] < key[z]}
<1>1. IsFiniteSet(below(x)) /\ IsFiniteSet(below(y))
  BY FS_Subset
<1>2. x \notin below(x) /\ below(x) \cup {x} \subseteq below(y)
  OBVIOUS
<1>3. IsFiniteSet(below(x) \cup {x}) /\ Cardinality(below(x) \cup {x}) = Cardinality(below(x)) + 1
  BY <1>1, <1>2, FS_AddElement
<1>4. Cardinality(below(x) \cup {x}) <= Cardinality(below(y))
  BY <1>1, <1>2, FS_Subset
<1>5. Cardinality(below(x)) \in Nat /\ Cardinality(below(y)) \in Nat
  BY <1>1, FS_CardinalityType
<1> QED
  BY <1>3, <1>4, <1>5 DEF Rank

LEMMA RankInjective ==
    ASSUME NEW S, IsFiniteSet(S), NEW key, \A x \in S : key[x] \in Int,
           \A x, y \in S : key[x] = key[y] => x = y,
           NEW x \in S, NEW y \in S, Rank(S, key, x) = Rank(S, key, y)
    PROVE  x = y
<1>1. \A u \in S : Rank(S, key, u) \in Nat
  BY FS_Subset, FS_CardinalityType DEF Rank
<1>2. ~ (key[x] < key[y]) /\ ~ (key[y] < key[x])
  BY <1>1, RankIncreases
<1> QED
  BY <1>2

LEMMA RankBound ==
    ASSUME NEW S, IsFiniteSet(S), NEW key, \A x \in S : key[x] \in Int, NEW x \in S
    PROVE  Rank(S, key, x) \in 0..(Cardinality(S) - 1)
<1> DEFINE below == {w \in S : key[w] < key[x]}
<1>1. below \subseteq S \ {x}
  OBVIOUS
<1>2. IsFiniteSet(S \ {x}) /\ Cardinality(S \ {x}) = Cardinality(S) - 1
  BY FS_RemoveElement
<1>3. IsFiniteSet(below) /\ Cardinality(below) <= Cardinality(S \ {x})
  BY <1>1, <1>2, FS_Subset
<1> QED
  BY <1>2, <1>3, FS_CardinalityType DEF Rank

(* A finite set with distinct keys has an enumeration in their order.        *)
LEMMA SortedExists ==
    ASSUME NEW S, IsFiniteSet(S), NEW key, \A x \in S : key[x] \in Int,
           \A x, y \in S : key[x] = key[y] => x = y
    PROVE  /\ SortedBy(S, key) \in [1..Cardinality(S) -> S]
           /\ \A i, j \in 1..Cardinality(S) :
                 i < j => key[SortedBy(S, key)[i]] < key[SortedBy(S, key)[j]]
<1> DEFINE n == Cardinality(S)
           rank == [x \in S |-> Rank(S, key, x) + 1]
           s == [i \in 1..n |-> CHOOSE x \in S : rank[x] = i]
<1>1. n \in Nat
  BY FS_CardinalityType
<1>2. \A x \in S : Rank(S, key, x) \in 0..(n - 1)
  BY RankBound
<1>3. rank \in [S -> 1..n]
  BY <1>1, <1>2
<1>4. \A x, y \in S : rank[x] = rank[y] => x = y
  <2> SUFFICES ASSUME NEW x \in S, NEW y \in S, rank[x] = rank[y] PROVE x = y
    OBVIOUS
  <2>1. Rank(S, key, x) = Rank(S, key, y)
    BY <1>2
  <2> QED
    BY <2>1, RankInjective
<1>5. rank \in Injection(S, 1..n)
  BY <1>3, <1>4 DEF Injection, IsInjective
<1>6. IsFiniteSet(1..n) /\ Cardinality(1..n) = n
  BY <1>1, FS_Interval
<1>7. rank \in Surjection(S, 1..n)
  BY <1>5, <1>6, FS_Injection
<1>8. \A i \in 1..n : s[i] \in S /\ rank[s[i]] = i
  BY <1>7 DEF Surjection
<1>9. \A i, j \in 1..n : i < j => key[s[i]] < key[s[j]]
  <2> SUFFICES ASSUME NEW i \in 1..n, NEW j \in 1..n, i < j, ~ (key[s[i]] < key[s[j]])
               PROVE  FALSE
    OBVIOUS
  <2>1. s[i] \in S /\ s[j] \in S /\ rank[s[i]] = i /\ rank[s[j]] = j
    BY <1>8
  <2>2. s[i] # s[j]
    BY <2>1
  <2>3. key[s[j]] < key[s[i]]
    BY <2>1, <2>2
  <2>4. Rank(S, key, s[j]) < Rank(S, key, s[i])
    BY <2>1, <2>3, RankIncreases
  <2> HIDE DEF s
  <2>5. Rank(S, key, s[i]) = i - 1 /\ Rank(S, key, s[j]) = j - 1
    BY <1>2, <2>1
  <2> QED
    BY <2>4, <2>5
<1>10. s \in [1..n -> S]
  BY <1>8
<1> HIDE DEF s
<1> QED
  BY <1>9, <1>10 DEF SortedBy

(* sendAllPendingQosData sends no more than the quota allows                 *)
(* (session.cpp:379-387).                                                    *)
LEMMA KeptWithinQuota ==
    ASSUME NEW gone, Queued \in SUBSET Ids, \A id \in Queued : queue[id] \in Int,
           \A i, j \in Queued : queue[i] = queue[j] => i = j,
           flowControlQuota \in Nat
    PROVE  IsFiniteSet(Kept(gone)) /\ Cardinality(Kept(gone)) \in 0..flowControlQuota
<1> DEFINE S == Queued \ gone
           rank == [id \in Kept(gone) |-> Rank(S, queue, id)]
<1>1. IsFiniteSet(S)
  BY IdsAreFinite
<1>2. Kept(gone) = {id \in S : Rank(S, queue, id) < flowControlQuota}
  BY DEF Kept, Rank
<1>3. \A id \in S : Rank(S, queue, id) \in Nat
  BY <1>1, FS_Subset, FS_CardinalityType DEF Rank
<1>4. rank \in [Kept(gone) -> 0..(flowControlQuota - 1)]
  BY <1>2, <1>3
<1>5. rank \in Injection(Kept(gone), 0..(flowControlQuota - 1))
  <2> SUFFICES ASSUME NEW x \in Kept(gone), NEW y \in Kept(gone), rank[x] = rank[y] PROVE x = y
    BY <1>4 DEF Injection, IsInjective
  <2> QED
    BY <1>1, <1>2, RankInjective
<1>6. IsFiniteSet(0..(flowControlQuota - 1))
      /\ Cardinality(0..(flowControlQuota - 1)) = flowControlQuota
  BY FS_Interval
<1> QED
  BY <1>5, <1>6, FS_Injection, FS_CardinalityType

-----------------------------------------------------------------------------
(* The inductive invariant                                                   *)

(* The number of a message identifies it: a publish is in the queue at one   *)
(* id only, and one that writePacket still handles is not queued yet.  The   *)
(* quota needs this, as what is resent is counted by message.                *)
MessagesDistinct ==
    /\ \A i \in Queued : queue[i] <= published
    /\ \A i, j \in Queued : queue[i] = queue[j] => i = j
    /\ \A t \in Publishers : pc[t] # "idle" => msg[t] \in 1..published
    /\ \A t \in Publishers, i \in Queued : pc[t] = "lock" => queue[i] # msg[t]
    /\ \A t, u \in Publishers : pc[t] = "lock" /\ pc[u] = "lock" /\ t # u => msg[t] # msg[u]

(* So it is with the publishes that sendAllPendingQosData copied.            *)
CopiesDistinct ==
    \A k \in Conns : \A i, j \in DOMAIN pending[k].publishes :
        pending[k].publishes[i] = pending[k].publishes[j] => i = j

WritersHaveIds == \A t \in Publishers : pc[t] = "write" => packetId[t] \in Ids

IInv ==
    /\ TypeOK
    /\ QuotaWithinReceiveMaximum
    /\ MessagesDistinct
    /\ CopiesDistinct
    /\ WritersHaveIds

LEMMA QueueStateIntro ==
    ASSUME NEW ids \in SUBSET Ids, NEW q \in [ids -> Msgs]
    PROVE  q \in QueueStates
  BY DEF QueueStates

LEMMA QueueStateElim ==
    ASSUME NEW q \in QueueStates
    PROVE  DOMAIN q \in SUBSET Ids /\ q \in [DOMAIN q -> Msgs]
<1>1. PICK ids \in SUBSET Ids : q \in [ids -> Msgs]
  BY DEF QueueStates
<1>2. DOMAIN q = ids
  BY <1>1
<1> QED
  BY <1>1, <1>2

LEMMA WithoutType ==
    ASSUME NEW q \in QueueStates, NEW ids
    PROVE  Without(q, ids) \in QueueStates
<1> DEFINE left == DOMAIN q \ ids
<1>1. left \in SUBSET Ids /\ Without(q, ids) \in [left -> Msgs]
  BY QueueStateElim DEF Without
<1> QED
  BY <1>1, QueueStateIntro

LEMMA EmptyQueueType == NoPublishes \in QueueStates
<1>1. NoPublishes \in [{} -> Msgs]
  BY DEF NoPublishes
<1> QED
  BY <1>1, QueueStateIntro

LEMMA InitIInv == Init => IInv
<1> SUFFICES ASSUME Init PROVE IInv
  OBVIOUS
<1>1. TypeOK
  <2>1. QosDataType
    BY BoundsAssumption, EmptyQueueType DEF Init, QosDataType, Ids
  <2>2. NothingPending \in Pendings
    BY BoundsAssumption, EmptyQueueType DEF NothingPending, Pendings
  <2>3. ConnectionsType
    BY <2>2, BoundsAssumption DEF Init, ConnectionsType
  <2>4. SessionType /\ WritersType
    <3>1. 0 \in 0..MaxConns /\ 0 \in 0..MaxMsgs /\ 0 \in 0..MaxId
      BY BoundsAssumption
    <3>2. SessionType
      BY <3>1, Zenon DEF Init, SessionType
    <3>3. WritersType
      BY <3>1 DEF Init, WritersType
    <3> QED
      BY <3>2, <3>3
  <2>5. NetworkType
    BY DEF Init, NetworkType
  <2>6. PeerType
    BY BoundsAssumption DEF Init, PeerType
  <2>7. WorldType
    BY BoundsAssumption DEF Init, WorldType
  <2> QED
    BY <2>1, <2>3, <2>4, <2>5, <2>6, <2>7 DEF TypeOK
<1>2. QuotaWithinReceiveMaximum
  BY BoundsAssumption DEF Init, QuotaWithinReceiveMaximum
<1>3. MessagesDistinct /\ CopiesDistinct /\ WritersHaveIds
  BY DEF Init, MessagesDistinct, CopiesDistinct, WritersHaveIds, Queued, NoPublishes, NothingPending
<1> QED
  BY <1>1, <1>2, <1>3 DEF IInv

-----------------------------------------------------------------------------
(* What a step leaves alone keeps its type                                   *)

LEMMA Frames ==
    /\ QosDataType /\ UNCHANGED qosData => QosDataType'
    /\ SessionType /\ UNCHANGED session => SessionType'
    /\ WritersType /\ UNCHANGED writers => WritersType'
    /\ ConnectionsType /\ UNCHANGED connections => ConnectionsType'
    /\ NetworkType /\ UNCHANGED network => NetworkType'
    /\ PeerType /\ UNCHANGED peer => PeerType'
    /\ WorldType /\ UNCHANGED world => WorldType'
<1>1. QosDataType /\ UNCHANGED qosData => QosDataType'
  BY DEF qosData, QosDataType
<1>2. SessionType /\ UNCHANGED session => SessionType'
  BY Zenon DEF session, SessionType
<1>3. WritersType /\ UNCHANGED writers => WritersType'
  BY DEF writers, WritersType
<1>4. ConnectionsType /\ UNCHANGED connections => ConnectionsType'
  BY DEF connections, ConnectionsType
<1>5. NetworkType /\ UNCHANGED network => NetworkType'
  BY DEF network, NetworkType
<1>6. PeerType /\ UNCHANGED peer => PeerType'
  BY DEF peer, PeerType
<1>7. WorldType /\ UNCHANGED world => WorldType'
  BY DEF world, WorldType
<1> QED
  BY <1>1, <1>2, <1>3, <1>4, <1>5, <1>6, <1>7

LEMMA InvariantFrames ==
    /\ QuotaWithinReceiveMaximum /\ UNCHANGED <<flowControlQuota, flowControlCealing>>
          => QuotaWithinReceiveMaximum'
    /\ MessagesDistinct /\ UNCHANGED <<queue, published, pc, msg>> => MessagesDistinct'
    /\ CopiesDistinct /\ UNCHANGED pending => CopiesDistinct'
    /\ WritersHaveIds /\ UNCHANGED <<pc, packetId>> => WritersHaveIds'
<1>1. QuotaWithinReceiveMaximum /\ UNCHANGED <<flowControlQuota, flowControlCealing>>
         => QuotaWithinReceiveMaximum'
  BY DEF QuotaWithinReceiveMaximum
<1>2. MessagesDistinct /\ UNCHANGED <<queue, published, pc, msg>> => MessagesDistinct'
  BY DEF MessagesDistinct, Queued
<1>3. CopiesDistinct /\ UNCHANGED pending => CopiesDistinct'
  BY DEF CopiesDistinct
<1>4. WritersHaveIds /\ UNCHANGED <<pc, packetId>> => WritersHaveIds'
  BY DEF WritersHaveIds
<1> QED
  BY <1>1, <1>2, <1>3, <1>4

(* Erasing publishes from the queue keeps its messages distinct.             *)
LEMMA ErasureKeepsDistinct ==
    ASSUME MessagesDistinct, NEW ids, queue' = Without(queue, ids), UNCHANGED <<published, pc, msg>>
    PROVE  MessagesDistinct'
<1>1. DOMAIN queue' \subseteq DOMAIN queue /\ \A i \in DOMAIN queue' : queue'[i] = queue[i]
  BY DEF Without
<1> QED
  BY <1>1 DEF MessagesDistinct, Queued

(* Send appends packets to what the device reads, or nothing.                *)
LEMMA SendType ==
    ASSUME out \in Seq(Packets), NEW conn, NEW packets \in Seq(Packets), Send(conn, packets)
    PROVE  out' \in Seq(Packets)
  BY ConcatProperties DEF Send

LEMMA PacketTypes ==
    /\ \A id \in Ids, m \in Msgs : <<Publish(id, m)>> \in Seq(Packets)
    /\ \A id \in Ids : <<PubRel(id)>> \in Seq(Packets)
    /\ \A b \in BOOLEAN : <<ConnAck(b)>> \in Seq(Packets)
<1> DEFINE publishes == {Publish(id, m) : id \in Ids, m \in Msgs}
           pubRels == {PubRel(id) : id \in Ids}
           connAcks == {ConnAck(TRUE), ConnAck(FALSE)}
<1>0. Packets = publishes \cup pubRels \cup connAcks
  BY DEF Packets
<1>1. \A id \in Ids, m \in Msgs : Publish(id, m) \in Packets
  <2>1. \A id \in Ids, m \in Msgs : Publish(id, m) \in publishes
    OBVIOUS
  <2> HIDE DEF publishes, pubRels, connAcks
  <2> QED
    BY <1>0, <2>1
<1>2. \A id \in Ids : PubRel(id) \in Packets
  <2>1. \A id \in Ids : PubRel(id) \in pubRels
    BY Zenon
  <2> HIDE DEF publishes, pubRels, connAcks
  <2> QED
    BY <1>0, <2>1
<1>3. \A b \in BOOLEAN : ConnAck(b) \in Packets
  <2>1. ConnAck(TRUE) \in Packets /\ ConnAck(FALSE) \in Packets
    <3>1. ConnAck(TRUE) \in connAcks /\ ConnAck(FALSE) \in connAcks
      BY Zenon
    <3> HIDE DEF publishes, pubRels, connAcks
    <3> QED
      BY <1>0, <3>1
  <2> QED
    BY <2>1, Zenon
<1>4. \A p \in Packets : <<p>> \in Seq(Packets)
  OBVIOUS
<1>5. \A b \in BOOLEAN : <<ConnAck(b)>> \in Seq(Packets)
  BY <1>3, <1>4, Zenon
<1>6. \A id \in Ids, m \in Msgs : <<Publish(id, m)>> \in Seq(Packets)
  BY <1>1, <1>4, Zenon
<1>7. \A id \in Ids : <<PubRel(id)>> \in Seq(Packets)
  BY <1>2, <1>4, Zenon
<1> QED
  BY <1>5, <1>6, <1>7, Zenon

-----------------------------------------------------------------------------
(* Session::writePacket                                                      *)

LEMMA BeginWriteIInv ==
    ASSUME IInv, NEW t \in Publishers, BeginWrite(t)
    PROVE  IInv'
<1> USE DEF BeginWrite
<1>1. SharedClient \in 0..MaxConns
  BY BoundsAssumption DEF IInv, TypeOK, SessionType, SharedClient
<1>2. WritersType'
  <2>1. published + 1 \in 0..MaxMsgs
    BY BoundsAssumption DEF IInv, TypeOK, WorldType
  <2> QED
    BY <1>1, <2>1 DEF IInv, TypeOK, WritersType
<1>3. WorldType'
  BY BoundsAssumption DEF IInv, TypeOK, WorldType
<1>4. TypeOK'
  BY <1>2, <1>3, Frames DEF IInv, TypeOK
<1>5. MessagesDistinct'
  <2>1. published \in Nat /\ published' = published + 1 /\ queue' = queue
        /\ pc' = [pc EXCEPT ![t] = "lock"] /\ msg' = [msg EXCEPT ![t] = published + 1]
    BY BoundsAssumption DEF IInv, TypeOK, WorldType, qosData
  <2>2. \A i \in Queued : queue[i] \in Nat
    BY QueueStateElim DEF IInv, TypeOK, QosDataType, Queued, Msgs
  <2>3. pc \in [Publishers -> {"idle", "lock", "write"}] /\ msg \in [Publishers -> 0..MaxMsgs]
    BY DEF IInv, TypeOK, WritersType
  <2>4. \A u \in Publishers :
          /\ pc'[u] = IF u = t THEN "lock" ELSE pc[u]
          /\ msg'[u] = IF u = t THEN published + 1 ELSE msg[u]
    BY <2>1, <2>3
  <2>5. MessagesDistinct
    BY DEF IInv
  <2> QED
    BY <2>1, <2>2, <2>3, <2>4, <2>5 DEF MessagesDistinct, Queued
<1>6. WritersHaveIds'
  BY DEF IInv, TypeOK, WritersType, WritersHaveIds
<1> QED
  BY <1>4, <1>5, <1>6, InvariantFrames DEF IInv, qosData, connections

LEMMA DropForQuotaIInv ==
    ASSUME IInv, NEW t \in Publishers, DropForQuota(t)
    PROVE  IInv'
<1>1. PICK cleared \in Clearable(t) :
         /\ IncreaseFlowControlQuota(cleared)
         /\ queue' = Without(queue, cleared)
         /\ dropped' = dropped \cup {msg[t]} \cup {queue[id] : id \in cleared}
  BY DEF DropForQuota
<1>2. /\ pc[t] = "lock"
      /\ pc' = [pc EXCEPT ![t] = "idle"] /\ heldClient' = [heldClient EXCEPT ![t] = 0]
      /\ packetId' = [packetId EXCEPT ![t] = 0] /\ msg' = msg
      /\ UNCHANGED <<nextPacketId, flowControlCealing, outgoingQoS2, session, connections,
                     network, peer, published, expired, restarts>>
  BY DEF DropForQuota, FinishWrite
<1>3. queue \in QueueStates /\ DOMAIN queue \in SUBSET Ids /\ queue \in [DOMAIN queue -> Msgs]
  BY QueueStateElim DEF IInv, TypeOK, QosDataType
<1>4. cleared \in SUBSET Ids /\ cleared \subseteq Queued
  BY <1>1, <1>3 DEF Clearable, ExpiredInQueue, Queued
<1>5. IncreasedQuota(cleared) \in 0..flowControlCealing
  BY <1>4, IncreasedQuotaBounds DEF IInv, TypeOK, QosDataType
<1>6. QosDataType'
  BY <1>1, <1>2, <1>3, <1>5, WithoutType DEF IInv, TypeOK, QosDataType, IncreaseFlowControlQuota
<1>7. WritersType'
  BY <1>2, BoundsAssumption DEF IInv, TypeOK, WritersType
<1>8. WorldType'
  <2>1. msg[t] \in Msgs
    BY <1>2, BoundsAssumption DEF IInv, TypeOK, WorldType, MessagesDistinct, Msgs
  <2>2. {queue[id] : id \in cleared} \subseteq Msgs
    BY <1>3, <1>4 DEF Queued
  <2> QED
    BY <1>1, <1>2, <2>1, <2>2 DEF IInv, TypeOK, WorldType
<1>9. TypeOK'
  BY <1>2, <1>6, <1>7, <1>8, Frames DEF IInv, TypeOK
<1>10. QuotaWithinReceiveMaximum'
  BY <1>1, <1>2, <1>5 DEF IInv, TypeOK, QosDataType, IncreaseFlowControlQuota,
     QuotaWithinReceiveMaximum
<1>11. MessagesDistinct'
  <2>1. DOMAIN queue' \subseteq DOMAIN queue /\ \A i \in DOMAIN queue' : queue'[i] = queue[i]
    BY <1>1 DEF Without
  <2>2. \A u \in Publishers : pc'[u] = IF u = t THEN "idle" ELSE pc[u]
    BY <1>2 DEF IInv, TypeOK, WritersType
  <2> QED
    BY <1>2, <2>1, <2>2 DEF IInv, MessagesDistinct, Queued
<1>12. WritersHaveIds'
  BY <1>2 DEF IInv, TypeOK, WritersType, WritersHaveIds
<1> QED
  BY <1>2, <1>9, <1>10, <1>11, <1>12, InvariantFrames DEF IInv, connections

LEMMA TakeIdIInv ==
    ASSUME IInv, NEW t \in Publishers, TakeId(t)
    PROVE  IInv'
<1>1. PICK cleared \in Clearable(t) :
         /\ IdAvailable(usedIds \ cleared, IncreasedQuota(cleared))
         /\ nextPacketId' = FirstFree(usedIds \ cleared)
         /\ usedIds' = (usedIds \ cleared) \cup {FirstFree(usedIds \ cleared)}
         /\ flowControlQuota' = IncreasedQuota(cleared) - 1
         /\ packetId' = [packetId EXCEPT ![t] = FirstFree(usedIds \ cleared)]
         /\ queue' = IF destroyOnDisconnect THEN Without(queue, cleared)
                     ELSE [i \in DOMAIN Without(queue, cleared) \cup {FirstFree(usedIds \ cleared)} |->
                             IF i = FirstFree(usedIds \ cleared) THEN msg[t]
                             ELSE Without(queue, cleared)[i]]
         /\ dropped' = dropped \cup {queue[i] : i \in cleared}
  BY DEF TakeId
<1> DEFINE id == FirstFree(usedIds \ cleared)
           left == Without(queue, cleared)
<1>2. /\ pc[t] = "lock"
      /\ pc' = [pc EXCEPT ![t] = "write"]
      /\ UNCHANGED <<flowControlCealing, outgoingQoS2, session, msg, heldClient, connections,
                     network, peer, published, expired, restarts>>
  BY DEF TakeId
<1>3. queue \in QueueStates /\ DOMAIN queue \in SUBSET Ids /\ queue \in [DOMAIN queue -> Msgs]
  BY QueueStateElim DEF IInv, TypeOK, QosDataType
<1>4. cleared \in SUBSET Ids /\ cleared \subseteq Queued
  BY <1>1, <1>3 DEF Clearable, ExpiredInQueue, Queued
<1>5. IncreasedQuota(cleared) \in 0..flowControlCealing /\ IncreasedQuota(cleared) # 0
  BY <1>1, <1>4, IncreasedQuotaBounds DEF IInv, TypeOK, QosDataType, IdAvailable
<1>6. id \in Ids
  BY <1>1, FirstFreeIsFree DEF IInv, TypeOK, QosDataType, IdAvailable
<1>7. left \in QueueStates /\ DOMAIN left \in SUBSET Ids /\ left \in [DOMAIN left -> Msgs]
  BY <1>3, WithoutType, QueueStateElim
<1>8. msg[t] \in Msgs
  BY <1>2, BoundsAssumption DEF IInv, TypeOK, WorldType, MessagesDistinct, Msgs
<1>9. queue' \in QueueStates
  <2>1. CASE destroyOnDisconnect
    BY <1>1, <1>7, <2>1
  <2>2. CASE ~destroyOnDisconnect
    <3>1. queue' = [i \in DOMAIN left \cup {id} |-> IF i = id THEN msg[t] ELSE left[i]]
      BY <1>1, <2>2
    <3> HIDE DEF id, left
    <3>2. queue' \in [DOMAIN left \cup {id} -> Msgs]
      BY <3>1, <1>7, <1>8
    <3>3. DOMAIN left \cup {id} \in SUBSET Ids
      BY <1>6, <1>7
    <3> QED
      BY <3>2, <3>3, QueueStateIntro
  <2> QED
    BY <2>1, <2>2
<1>10. QosDataType'
  <2>1. nextPacketId' \in 0..MaxId /\ usedIds' \subseteq Ids
    BY <1>1, <1>6 DEF IInv, TypeOK, QosDataType, Ids
  <2>2. flowControlQuota' \in Int /\ flowControlCealing' \in 1..MaxId /\ outgoingQoS2' \subseteq Ids
    BY <1>1, <1>2, <1>5 DEF IInv, TypeOK, QosDataType
  <2> QED
    BY <1>9, <2>1, <2>2 DEF QosDataType
<1>11. WritersType'
  <2>1. id \in 0..MaxId
    BY <1>6 DEF Ids
  <2> QED
    BY <1>1, <1>2, <2>1 DEF IInv, TypeOK, WritersType
<1>12. WorldType'
  <2>1. {queue[i] : i \in cleared} \subseteq Msgs
    BY <1>3, <1>4 DEF Queued
  <2> QED
    BY <1>1, <1>2, <2>1 DEF IInv, TypeOK, WorldType
<1>13. TypeOK'
  BY <1>2, <1>10, <1>11, <1>12, Frames DEF IInv, TypeOK
<1>14. QuotaWithinReceiveMaximum'
  BY <1>1, <1>2, <1>5, BoundsAssumption DEF IInv, TypeOK, QosDataType, QuotaWithinReceiveMaximum
<1>15. MessagesDistinct'
  <2>1. \A i \in DOMAIN queue' : \/ queue'[i] = msg[t] /\ i = id
                                 \/ i \in DOMAIN queue /\ queue'[i] = queue[i]
    BY <1>1 DEF Without
  <2>2. \A u \in Publishers : pc'[u] = IF u = t THEN "write" ELSE pc[u]
    BY <1>2 DEF IInv, TypeOK, WritersType
  <2>3. msg' = msg /\ published' = published /\ published \in Nat
    BY <1>2, BoundsAssumption DEF IInv, TypeOK, WorldType
  <2>4. MessagesDistinct /\ msg[t] <= published
    BY <1>2, BoundsAssumption DEF IInv, MessagesDistinct, TypeOK, WorldType
  <2> HIDE DEF id, left
  <2>5. \A i \in Queued' : queue'[i] <= published'
    BY <2>1, <2>3, <2>4 DEF MessagesDistinct, Queued
  <2>6. \A i, j \in Queued' : queue'[i] = queue'[j] => i = j
    BY <1>2, <2>1, <2>4 DEF MessagesDistinct, Queued
  <2>7. \A u \in Publishers : pc'[u] # "idle" => msg'[u] \in 1..published'
    BY <1>2, <2>2, <2>3, <2>4 DEF MessagesDistinct
  <2>8. \A u \in Publishers, i \in Queued' : pc'[u] = "lock" => queue'[i] # msg'[u]
    BY <1>2, <2>1, <2>2, <2>3, <2>4 DEF MessagesDistinct, Queued
  <2>9. \A u, v \in Publishers : pc'[u] = "lock" /\ pc'[v] = "lock" /\ u # v => msg'[u] # msg'[v]
    BY <2>2, <2>3, <2>4 DEF MessagesDistinct
  <2> QED
    BY <2>5, <2>6, <2>7, <2>8, <2>9 DEF MessagesDistinct
<1>16. WritersHaveIds'
  BY <1>1, <1>2, <1>6 DEF IInv, TypeOK, WritersType, WritersHaveIds
<1> QED
  BY <1>2, <1>13, <1>14, <1>15, <1>16, InvariantFrames DEF IInv, connections

LEMMA WriteToClientIInv ==
    ASSUME IInv, NEW t \in Publishers, WriteToClient(t)
    PROVE  IInv'
<1>1. /\ pc[t] = "write"
      /\ pc' = [pc EXCEPT ![t] = "idle"] /\ heldClient' = [heldClient EXCEPT ![t] = 0]
      /\ packetId' = [packetId EXCEPT ![t] = 0] /\ msg' = msg
      /\ UNCHANGED <<qosData, session, connections, in, peer, world>>
  BY DEF WriteToClient, FinishWrite
<1>2. WritersType'
  BY <1>1, BoundsAssumption DEF IInv, TypeOK, WritersType
<1>3. NetworkType'
  <2>1. packetId[t] \in Ids /\ msg[t] \in Msgs
    BY <1>1, BoundsAssumption
       DEF IInv, TypeOK, WorldType, WritersHaveIds, MessagesDistinct, Msgs
  <2>2. <<Publish(packetId[t], msg[t])>> \in Seq(Packets)
    BY <2>1, PacketTypes
  <2>3. out' \in Seq(Packets)
    BY <2>2, SendType DEF IInv, TypeOK, NetworkType, WriteToClient
  <2> QED
    BY <1>1, <2>3 DEF IInv, TypeOK, NetworkType
<1>4. TypeOK'
  BY <1>1, <1>2, <1>3, Frames DEF IInv, TypeOK
<1>5. MessagesDistinct'
  <2>1. \A u \in Publishers : pc'[u] = IF u = t THEN "idle" ELSE pc[u]
    BY <1>1 DEF IInv, TypeOK, WritersType
  <2> QED
    BY <1>1, <2>1 DEF IInv, MessagesDistinct, Queued, qosData, world
<1>6. WritersHaveIds'
  BY <1>1 DEF IInv, TypeOK, WritersType, WritersHaveIds
<1> QED
  BY <1>1, <1>4, <1>5, <1>6, InvariantFrames DEF IInv, qosData, connections

-----------------------------------------------------------------------------
(* The connect sequence                                                      *)

LEMMA AssignIInv ==
    ASSUME IInv, NEW k \in Conns, Assign(k)
    PROVE  IInv'
<1>1. /\ client' = k /\ peerConn' = k /\ out' = <<>>
      /\ stage' = [stage EXCEPT ![k] = "assigned"]
      /\ present' = [present EXCEPT ![k] = client # 0 \/ restored]
      /\ UNCHANGED <<qosData, destroyOnDisconnect, restored, writers, pending, receivedRec,
                     in, peerReceived, delivered, world>>
  BY DEF Assign
<1>2. k \in 0..MaxConns
  BY DEF Conns
<1>3. SessionType'
  BY <1>1, <1>2, Zenon DEF IInv, TypeOK, SessionType
<1>4. ConnectionsType'
  <2>1. (client # 0 \/ restored) \in BOOLEAN
    BY Zenon DEF IInv, TypeOK, SessionType
  <2>2. present' \in [Conns -> BOOLEAN]
    BY <1>1, <2>1, Zenon DEF IInv, TypeOK, ConnectionsType
  <2> QED
    BY <1>1, <2>2 DEF IInv, TypeOK, ConnectionsType
<1>5. NetworkType'
  BY <1>1 DEF IInv, TypeOK, NetworkType
<1>6. PeerType'
  BY <1>1, <1>2 DEF IInv, TypeOK, PeerType
<1>7. TypeOK'
  BY <1>1, <1>3, <1>4, <1>5, <1>6, Frames DEF IInv, TypeOK
<1> QED
  BY <1>1, <1>7, InvariantFrames DEF IInv, qosData, writers, world

LEMMA SetSessionPropertiesIInv ==
    ASSUME IInv, NEW k \in Conns, SetSessionProperties(k)
    PROVE  IInv'
<1>1. PICK receiveMax \in ReceiveMaxima :
         flowControlCealing' = receiveMax /\ flowControlQuota' = receiveMax
  BY DEF SetSessionProperties
<1>2. /\ destroyOnDisconnect' = (k \in CleanConns)
      /\ stage' = [stage EXCEPT ![k] = "registered"]
      /\ UNCHANGED <<usedIds, queue, nextPacketId, outgoingQoS2, client, restored, writers,
                     present, pending, receivedRec, network, peer, world>>
  BY DEF SetSessionProperties
<1>3. receiveMax \in 1..MaxId
  BY ReceiveMaximaAssumption
<1>4. QosDataType'
  BY <1>1, <1>2, <1>3 DEF IInv, TypeOK, QosDataType
<1>5. SessionType'
  <2>1. client' = client /\ restored' = restored
    BY <1>2
  <2>2. destroyOnDisconnect' = TRUE \/ destroyOnDisconnect' = FALSE
    BY <1>2
  <2>3. destroyOnDisconnect' \in BOOLEAN
    BY <2>2, Zenon
  <2> QED
    BY <2>1, <2>3, Zenon DEF IInv, TypeOK, SessionType
<1>6. ConnectionsType'
  BY <1>2 DEF IInv, TypeOK, ConnectionsType
<1>7. TypeOK'
  BY <1>2, <1>4, <1>5, <1>6, Frames DEF IInv, TypeOK
<1>8. QuotaWithinReceiveMaximum'
  BY <1>1, <1>3 DEF QuotaWithinReceiveMaximum
<1> QED
  BY <1>2, <1>7, <1>8, InvariantFrames DEF IInv, writers, world

LEMMA SendConnackIInv ==
    ASSUME IInv, NEW k \in Conns, SendConnack(k)
    PROVE  IInv'
<1>1. /\ Send(k, <<ConnAck(present[k])>>)
      /\ stage' = [stage EXCEPT ![k] = "acknowledged"]
      /\ UNCHANGED <<qosData, session, writers, present, pending, receivedRec, in, peer, world>>
  BY DEF SendConnack
<1>2. NetworkType'
  <2>1. present[k] \in BOOLEAN
    BY Zenon DEF IInv, TypeOK, ConnectionsType
  <2>2. <<ConnAck(present[k])>> \in Seq(Packets)
    BY <2>1, PacketTypes, Zenon
  <2>3. out' \in Seq(Packets)
    BY <1>1, <2>2, SendType DEF IInv, TypeOK, NetworkType
  <2> QED
    BY <1>1, <2>3 DEF IInv, TypeOK, NetworkType
<1>3. ConnectionsType'
  BY <1>1 DEF IInv, TypeOK, ConnectionsType
<1>4. TypeOK'
  BY <1>1, <1>2, <1>3, Frames DEF IInv, TypeOK
<1> QED
  BY <1>1, <1>4, InvariantFrames DEF IInv, qosData, writers, world

LEMMA PickClientIInv ==
    ASSUME IInv, NEW k \in Conns, PickClient(k)
    PROVE  IInv'
<1>1. UNCHANGED <<qosData, session, writers, present, receivedRec, network, peer, world>>
  BY DEF PickClient
<1>2. SharedClient \in 0..MaxConns
  BY BoundsAssumption DEF IInv, TypeOK, SessionType, SharedClient
<1>3. /\ pending' \in [Conns -> Pendings]
      /\ \A j \in Conns : pending'[j].publishes = pending[j].publishes
  <2>1. CASE pending' = pending
    BY <2>1 DEF IInv, TypeOK, ConnectionsType
  <2>2. CASE pending' = [pending EXCEPT ![k].to = SharedClient]
    BY <1>2, <2>2 DEF IInv, TypeOK, ConnectionsType, Pendings
  <2> QED
    BY <2>1, <2>2 DEF PickClient
<1>4. stage' \in [Conns -> {"unused", "assigned", "registered", "acknowledged",
                            "picked", "copied", "live", "dead"}]
  BY DEF IInv, TypeOK, ConnectionsType, PickClient
<1>5. ConnectionsType'
  BY <1>1, <1>3, <1>4 DEF IInv, TypeOK, ConnectionsType
<1>6. TypeOK'
  BY <1>1, <1>5, Frames DEF IInv, TypeOK
<1>7. CopiesDistinct'
  BY <1>3 DEF IInv, CopiesDistinct
<1> QED
  BY <1>1, <1>6, <1>7, InvariantFrames DEF IInv, qosData, writers, world

LEMMA CopyPendingIInv ==
    ASSUME IInv, NEW k \in Conns, CopyPending(k)
    PROVE  IInv'
<1>1. PICK gone :
         /\ queue' = Without(queue, Queued \ Kept(gone))
         /\ usedIds' = usedIds \ (Queued \ Kept(gone))
         /\ flowControlQuota' = flowControlQuota - Cardinality(Kept(gone))
         /\ pending' = [pending EXCEPT ![k] =
                           [to |-> pending[k].to,
                            publishes |-> [id \in Kept(gone) |-> queue[id]],
                            releases |-> outgoingQoS2]]
         /\ dropped' = dropped \cup {queue[id] : id \in Queued \ Kept(gone)}
  BY DEF CopyPending
<1> DEFINE kept == Kept(gone)
<1>2. /\ stage' = [stage EXCEPT ![k] = "copied"]
      /\ UNCHANGED <<nextPacketId, flowControlCealing, outgoingQoS2, session, writers,
                     present, receivedRec, network, peer, published, expired, restarts>>
  BY DEF CopyPending
<1>3. queue \in QueueStates /\ DOMAIN queue \in SUBSET Ids /\ queue \in [DOMAIN queue -> Msgs]
  BY QueueStateElim DEF IInv, TypeOK, QosDataType
<1>4. kept \subseteq Queued
  BY DEF Kept
<1>5. Cardinality(kept) \in 0..flowControlQuota
  <2>1. flowControlQuota \in Nat
    BY DEF IInv, TypeOK, QosDataType, QuotaWithinReceiveMaximum
  <2>2. \A id \in Queued : queue[id] \in Int
    BY <1>3 DEF Queued, Msgs
  <2> QED
    BY <1>3, <2>1, <2>2, KeptWithinQuota DEF IInv, MessagesDistinct, Queued
<1> DEFINE copy == [id \in kept |-> queue[id]]
<1>6. copy \in QueueStates
  <2>1. kept \in SUBSET Ids /\ copy \in [kept -> Msgs]
    BY <1>3, <1>4 DEF Queued
  <2> QED
    BY <2>1, QueueStateIntro
<1>7. QosDataType'
  BY <1>1, <1>2, <1>3, <1>5, WithoutType DEF IInv, TypeOK, QosDataType
<1>8. \A j \in Conns : pending'[j] = IF j = k
                                     THEN [to |-> pending[k].to, publishes |-> copy,
                                           releases |-> outgoingQoS2]
                                     ELSE pending[j]
  BY <1>1 DEF IInv, TypeOK, ConnectionsType
<1>9. ConnectionsType'
  <2> HIDE DEF copy
  <2>1. pending' \in [Conns -> Pendings]
    <3>1. pending[k].to \in 0..MaxConns
      BY DEF IInv, TypeOK, ConnectionsType, Pendings
    <3>2. [to |-> pending[k].to, publishes |-> copy, releases |-> outgoingQoS2] \in Pendings
      BY <1>6, <3>1 DEF IInv, TypeOK, QosDataType, Pendings
    <3>3. \A j \in Conns : pending'[j] \in Pendings
      BY <1>8, <3>2 DEF IInv, TypeOK, ConnectionsType
    <3>4. pending' = [j \in Conns |-> pending'[j]]
      BY <1>1 DEF IInv, TypeOK, ConnectionsType
    <3> QED
      BY <3>3, <3>4
  <2> QED
    BY <1>2, <2>1 DEF IInv, TypeOK, ConnectionsType
<1>10. WorldType'
  BY <1>1, <1>2, <1>3 DEF IInv, TypeOK, WorldType, Queued
<1>11. TypeOK'
  BY <1>2, <1>7, <1>9, <1>10, Frames DEF IInv, TypeOK
<1>12. QuotaWithinReceiveMaximum'
  BY <1>1, <1>2, <1>5 DEF IInv, TypeOK, QosDataType, QuotaWithinReceiveMaximum
<1>13. MessagesDistinct'
  BY <1>1, <1>2, ErasureKeepsDistinct DEF IInv, writers
<1>14. CopiesDistinct'
  <2>1. \A i, j \in kept : copy[i] = copy[j] => i = j
    BY <1>4 DEF IInv, MessagesDistinct
  <2>2. DOMAIN copy = kept
    OBVIOUS
  <2> HIDE DEF copy, kept
  <2>3. \A j \in Conns : pending'[j].publishes = IF j = k THEN copy ELSE pending[j].publishes
    BY <1>8
  <2> QED
    BY <2>1, <2>2, <2>3 DEF IInv, CopiesDistinct
<1> QED
  BY <1>2, <1>11, <1>12, <1>13, <1>14, InvariantFrames DEF IInv, writers

(* The publishes and PUBRELs that are sent again are packets.                *)
LEMMA InQueueOrderType ==
    ASSUME NEW q \in QueueStates, \A i, j \in DOMAIN q : q[i] = q[j] => i = j
    PROVE  InQueueOrder(q) \in Seq(Packets)
<1> DEFINE S == DOMAIN q
           n == Cardinality(S)
<1>1. S \in SUBSET Ids /\ q \in [S -> Msgs]
  BY QueueStateElim
<1>2. IsFiniteSet(S) /\ n \in Nat
  BY <1>1, IdsAreFinite
<1>3. \A x \in S : q[x] \in Int
  BY <1>1 DEF Msgs
<1>4. SortedBy(S, q) \in [1..n -> S]
  BY <1>2, <1>3, SortedExists
<1>5. \A i \in 1..n : <<Publish(SortedBy(S, q)[i], q[SortedBy(S, q)[i]])>> \in Seq(Packets)
  BY <1>1, <1>4, PacketTypes
<1>6. \A i \in 1..n : Publish(SortedBy(S, q)[i], q[SortedBy(S, q)[i]]) \in Packets
  <2>1. \A p : <<p>> \in Seq(Packets) => p \in Packets
    OBVIOUS
  <2> QED
    BY <1>5, <2>1, Zenon
<1>7. InQueueOrder(q) \in [1..n -> Packets]
  BY <1>6, Zenon DEF InQueueOrder
<1> QED
  BY <1>2, <1>7

LEMMA ReleasesType ==
    ASSUME NEW ids \in SUBSET Ids
    PROVE  Releases(ids) \in Seq(Packets)
<1> DEFINE n == Cardinality(ids)
           key == [id \in ids |-> id]
<1>1. IsFiniteSet(ids) /\ n \in Nat
  BY IdsAreFinite
<1>2. (\A x \in ids : key[x] \in Int) /\ (\A x, y \in ids : key[x] = key[y] => x = y)
  BY DEF Ids
<1>3. SortedBy(ids, key) \in [1..n -> ids]
  <2> HIDE DEF key
  <2> QED
    BY <1>1, <1>2, SortedExists
<1>4. \A i \in 1..n : <<PubRel(SortedBy(ids, key)[i])>> \in Seq(Packets)
  BY <1>3, PacketTypes
<1>5. \A i \in 1..n : PubRel(SortedBy(ids, key)[i]) \in Packets
  <2>1. \A p : <<p>> \in Seq(Packets) => p \in Packets
    OBVIOUS
  <2> QED
    BY <1>4, <2>1, Zenon
<1>6. Releases(ids) \in [1..n -> Packets]
  BY <1>5, Zenon DEF Releases
<1> QED
  BY <1>1, <1>6

LEMMA WritePendingIInv ==
    ASSUME IInv, NEW k \in Conns, WritePending(k)
    PROVE  IInv'
<1> DEFINE copied == pending[k].publishes
<1>1. PICK denied, skipped :
         /\ denied \in SUBSET MayBeRefused
         /\ Send(pending[k].to,
                 InQueueOrder(Without(copied, skipped)) \o Releases(pending[k].releases))
         /\ dropped' = dropped \cup {m \in denied : \E id \in DOMAIN copied : copied[id] = m}
  BY DEF WritePending
<1>2. /\ pending' = [pending EXCEPT ![k] = NothingPending]
      /\ stage' = [stage EXCEPT ![k] = "live"]
      /\ UNCHANGED <<qosData, session, writers, present, receivedRec, in, peer,
                     published, expired, restarts>>
  BY DEF WritePending
<1>3. copied \in QueueStates /\ pending[k].releases \in SUBSET Ids
  BY DEF IInv, TypeOK, ConnectionsType, Pendings
<1>4. InQueueOrder(Without(copied, skipped)) \in Seq(Packets)
  <2>1. Without(copied, skipped) \in QueueStates
    BY <1>3, WithoutType
  <2>2. \A i, j \in DOMAIN Without(copied, skipped) :
          Without(copied, skipped)[i] = Without(copied, skipped)[j] => i = j
    BY DEF IInv, CopiesDistinct, Without
  <2> QED
    BY <2>1, <2>2, InQueueOrderType
<1>5. NetworkType'
  <2>1. Releases(pending[k].releases) \in Seq(Packets)
    BY <1>3, ReleasesType
  <2>2. InQueueOrder(Without(copied, skipped)) \o Releases(pending[k].releases) \in Seq(Packets)
    BY <1>4, <2>1, ConcatProperties
  <2>3. out' \in Seq(Packets)
    BY <1>1, <2>2, SendType DEF IInv, TypeOK, NetworkType
  <2> QED
    BY <1>2, <2>3 DEF IInv, TypeOK, NetworkType
<1>6. ConnectionsType'
  <2>1. NothingPending \in Pendings
    BY BoundsAssumption, EmptyQueueType DEF NothingPending, Pendings
  <2> QED
    BY <1>2, <2>1 DEF IInv, TypeOK, ConnectionsType
<1>7. WorldType'
  BY <1>1, <1>2, SetsAssumption DEF IInv, TypeOK, WorldType
<1>8. TypeOK'
  BY <1>2, <1>5, <1>6, <1>7, Frames DEF IInv, TypeOK
<1>9. CopiesDistinct'
  <2>1. \A j \in Conns : pending'[j] = IF j = k THEN NothingPending ELSE pending[j]
    BY <1>2 DEF IInv, TypeOK, ConnectionsType
  <2>2. DOMAIN NothingPending.publishes = {}
    BY DEF NothingPending, NoPublishes
  <2> QED
    BY <2>1, <2>2 DEF IInv, CopiesDistinct
<1> QED
  BY <1>2, <1>8, <1>9, InvariantFrames DEF IInv, qosData, writers

LEMMA CloseIInv ==
    ASSUME IInv, NEW k \in Conns, Close(k)
    PROVE  IInv'
<1>1. /\ stage' = [stage EXCEPT ![k] = "dead"]
      /\ in' = [in EXCEPT ![k] = <<>>]
      /\ out' = IF k = peerConn THEN <<>> ELSE out
      /\ UNCHANGED <<qosData, session, writers, present, pending, receivedRec, peer, world>>
  BY DEF Close
<1>2. ConnectionsType'
  BY <1>1 DEF IInv, TypeOK, ConnectionsType
<1>3. NetworkType'
  BY <1>1 DEF IInv, TypeOK, NetworkType
<1>4. TypeOK'
  BY <1>1, <1>2, <1>3, Frames DEF IInv, TypeOK
<1> QED
  BY <1>1, <1>4, InvariantFrames DEF IInv, qosData, writers, world

-----------------------------------------------------------------------------
(* Acknowledgements                                                          *)

(* What a thread takes out of the read buffer names an id.                   *)
LEMMA ReceivedType ==
    ASSUME IInv, NEW k \in Conns, NEW type, Received(k, type)
    PROVE  in' \in [Conns -> Seq(Acks)] /\ Head(in[k]).id \in Ids
<1>1. in[k] \in Seq(Acks) /\ in[k] # <<>> /\ in' = [in EXCEPT ![k] = Tail(in[k])]
  BY DEF IInv, TypeOK, NetworkType, Received
<1>2. Head(in[k]) \in Acks /\ Tail(in[k]) \in Seq(Acks)
  BY <1>1, HeadTailProperties
<1>3. \A a \in Acks : a.id \in Ids
  BY DEF Acks, Ack
<1> QED
  BY <1>1, <1>2, <1>3 DEF IInv, TypeOK, NetworkType

LEMMA IncreaseOneIInv ==
    ASSUME IInv, NEW id \in Ids, IncreaseFlowControlQuota({id}), flowControlCealing' = flowControlCealing
    PROVE  /\ usedIds' \subseteq Ids /\ flowControlQuota' \in Int
           /\ QuotaWithinReceiveMaximum'
<1>1. IncreasedQuota({id}) \in 0..flowControlCealing
  BY IncreasedQuotaBounds DEF IInv, TypeOK, QosDataType
<1> QED
  BY <1>1 DEF IInv, TypeOK, QosDataType, IncreaseFlowControlQuota, QuotaWithinReceiveMaximum

LEMMA ClearQosMessageIInv ==
    ASSUME IInv, NEW id \in Ids, NEW ends, ClearQosMessage(id, ends),
           UNCHANGED <<writers, published>>
    PROVE  QosDataType' /\ QuotaWithinReceiveMaximum' /\ MessagesDistinct'
<1>1. UNCHANGED <<nextPacketId, flowControlCealing, outgoingQoS2>>
  BY DEF ClearQosMessage
<1>2. /\ usedIds' \subseteq Ids /\ flowControlQuota' \in Int
      /\ QuotaWithinReceiveMaximum'
  <2>1. CASE IncreaseFlowControlQuota({id})
    BY <1>1, <2>1, IncreaseOneIInv
  <2>2. CASE UNCHANGED <<usedIds, flowControlQuota>>
    BY <1>1, <2>2 DEF IInv, TypeOK, QosDataType, QuotaWithinReceiveMaximum
  <2> QED
    BY <2>1, <2>2 DEF ClearQosMessage
<1>3. queue' \in QueueStates /\ MessagesDistinct'
  <2>1. CASE queue' = queue
    BY <2>1, InvariantFrames DEF IInv, TypeOK, QosDataType, writers
  <2>2. CASE queue' = Without(queue, {id})
    BY <2>2, WithoutType, ErasureKeepsDistinct DEF IInv, TypeOK, QosDataType, writers
  <2> QED
    BY <2>1, <2>2 DEF ClearQosMessage
<1> QED
  BY <1>1, <1>2, <1>3 DEF IInv, TypeOK, QosDataType

LEMMA AckStepIInv ==
    ASSUME IInv, NEW k \in Conns, AckStep(k)
    PROVE  IInv'
<1>1. ASSUME HandlePubAck(k) \/ HandlePubRecError(k) PROVE IInv'
  <2>1. PICK type : Received(k, type)
    BY <1>1 DEF HandlePubAck, HandlePubRecError
  <2>2. ClearQosMessage(Head(in[k]).id, TRUE)
        /\ UNCHANGED <<session, writers, connections, out, peer, world>>
    BY <1>1 DEF HandlePubAck, HandlePubRecError
  <2>3. in' \in [Conns -> Seq(Acks)] /\ Head(in[k]).id \in Ids
    BY <2>1, ReceivedType
  <2>4. QosDataType' /\ QuotaWithinReceiveMaximum' /\ MessagesDistinct'
    BY <2>2, <2>3, ClearQosMessageIInv DEF world
  <2>5. NetworkType'
    BY <2>2, <2>3 DEF IInv, TypeOK, NetworkType
  <2>6. TypeOK'
    BY <2>2, <2>4, <2>5, Frames DEF IInv, TypeOK
  <2> QED
    BY <2>2, <2>4, <2>6, InvariantFrames DEF IInv, writers, connections
<1>2. ASSUME HandlePubRec(k) PROVE IInv'
  <2>1. /\ Received(k, "PUBREC")
        /\ ClearQosMessage(Head(in[k]).id, FALSE)
        /\ receivedRec' = [receivedRec EXCEPT ![k] = Head(in[k]).id]
        /\ UNCHANGED <<session, writers, stage, present, pending, out, peer, world>>
    BY <1>2 DEF HandlePubRec
  <2>2. in' \in [Conns -> Seq(Acks)] /\ Head(in[k]).id \in Ids
    BY <2>1, ReceivedType
  <2>3. QosDataType' /\ QuotaWithinReceiveMaximum' /\ MessagesDistinct'
    BY <2>1, <2>2, ClearQosMessageIInv DEF world
  <2>4. NetworkType'
    BY <2>1, <2>2 DEF IInv, TypeOK, NetworkType
  <2>5. ConnectionsType'
    BY <2>1, <2>2 DEF IInv, TypeOK, ConnectionsType, Ids
  <2>6. TypeOK'
    BY <2>1, <2>3, <2>4, <2>5, Frames DEF IInv, TypeOK
  <2> QED
    BY <2>1, <2>3, <2>6, InvariantFrames DEF IInv, writers
<1>3. ASSUME StoreOutgoingQoS2(k) PROVE IInv'
  <2>1. /\ receivedRec[k] # 0
        /\ outgoingQoS2' = outgoingQoS2 \cup {receivedRec[k]}
        /\ Send(k, <<PubRel(receivedRec[k])>>)
        /\ receivedRec' = [receivedRec EXCEPT ![k] = 0]
        /\ UNCHANGED <<usedIds, queue, nextPacketId, flowControlQuota, flowControlCealing,
                       session, writers, stage, present, pending, in, peer, world>>
    BY <1>3 DEF StoreOutgoingQoS2
  <2>2. receivedRec[k] \in Ids
    BY <2>1, BoundsAssumption DEF IInv, TypeOK, ConnectionsType, Ids
  <2>3. QosDataType'
    BY <2>1, <2>2 DEF IInv, TypeOK, QosDataType
  <2>4. NetworkType'
    <3>1. <<PubRel(receivedRec[k])>> \in Seq(Packets)
      BY <2>2, PacketTypes
    <3>2. out' \in Seq(Packets)
      BY <2>1, <3>1, SendType DEF IInv, TypeOK, NetworkType
    <3> QED
      BY <2>1, <3>2 DEF IInv, TypeOK, NetworkType
  <2>5. ConnectionsType'
    BY <2>1, BoundsAssumption DEF IInv, TypeOK, ConnectionsType
  <2>6. TypeOK'
    BY <2>1, <2>3, <2>4, <2>5, Frames DEF IInv, TypeOK
  <2> QED
    BY <2>1, <2>6, InvariantFrames DEF IInv, writers, world
<1>4. ASSUME HandlePubComp(k) PROVE IInv'
  <2>1. /\ Received(k, "PUBCOMP")
        /\ UNCHANGED <<queue, nextPacketId, flowControlCealing, session, writers, connections,
                       out, peer, world>>
    BY <1>4 DEF HandlePubComp
  <2>2. in' \in [Conns -> Seq(Acks)] /\ Head(in[k]).id \in Ids
    BY <2>1, ReceivedType
  <2>3. QosDataType' /\ QuotaWithinReceiveMaximum'
    <3>1. CASE Head(in[k]).id \in outgoingQoS2
      <4>1. IncreaseFlowControlQuota({Head(in[k]).id})
            /\ outgoingQoS2' = outgoingQoS2 \ {Head(in[k]).id}
        BY <1>4, <3>1 DEF HandlePubComp
      <4>2. /\ usedIds' \subseteq Ids /\ flowControlQuota' \in Int
            /\ QuotaWithinReceiveMaximum'
        BY <2>1, <2>2, <4>1, IncreaseOneIInv
      <4> QED
        BY <2>1, <4>1, <4>2 DEF IInv, TypeOK, QosDataType
    <3>2. CASE Head(in[k]).id \notin outgoingQoS2
      <4>1. UNCHANGED <<outgoingQoS2, usedIds, flowControlQuota>>
        BY <1>4, <3>2 DEF HandlePubComp
      <4> QED
        BY <2>1, <4>1 DEF IInv, TypeOK, QosDataType, QuotaWithinReceiveMaximum
    <3> QED
      BY <3>1, <3>2
  <2>4. NetworkType'
    BY <2>1, <2>2 DEF IInv, TypeOK, NetworkType
  <2>5. TypeOK'
    BY <2>1, <2>3, <2>4, Frames DEF IInv, TypeOK
  <2> QED
    BY <2>1, <2>3, <2>5, InvariantFrames DEF IInv, writers, connections, world
<1> QED
  BY <1>1, <1>2, <1>3, <1>4 DEF AckStep

-----------------------------------------------------------------------------
(* The device, time and restarts                                             *)

LEMMA DeviceTakesType ==
    ASSUME IInv, NEW type, DeviceTakes(type)
    PROVE  /\ out' \in Seq(Packets)
           /\ type \in {"PUBLISH", "PUBREL"} => Head(out).id \in Ids
           /\ type = "PUBLISH" => Head(out).msg \in Msgs
<1>1. out \in Seq(Packets) /\ out # <<>> /\ out' = Tail(out) /\ Head(out).type = type
  BY DEF IInv, TypeOK, NetworkType, DeviceTakes
<1>2. Head(out) \in Packets /\ Tail(out) \in Seq(Packets)
  BY <1>1, HeadTailProperties
<1>3. \/ \E id \in Ids, m \in Msgs : Head(out) = Publish(id, m)
      \/ \E id \in Ids : Head(out) = PubRel(id)
      \/ Head(out).type \in {"CONNACK", "CONNACK_PRESENT"}
  BY <1>2 DEF Packets, ConnAck
<1>4. ASSUME NEW id \in Ids, NEW m \in Msgs, Head(out) = Publish(id, m)
      PROVE  Head(out).id \in Ids /\ Head(out).msg \in Msgs
  BY <1>4 DEF Publish
<1>5. ASSUME NEW id \in Ids, Head(out) = PubRel(id)
      PROVE  Head(out).id \in Ids /\ Head(out).type = "PUBREL"
  BY <1>5 DEF PubRel
<1> QED
  BY <1>1, <1>2, <1>3, <1>4, <1>5

LEMMA AnswerType ==
    ASSUME IInv, NEW id \in Ids, NEW type \in {"PUBACK", "PUBREC", "PUBREC_ERROR", "PUBCOMP"},
           Answer(type, id)
    PROVE  in' \in [Conns -> Seq(Acks)]
<1>1. Ack(type, id) \in Acks
  BY DEF Acks
<1>2. \A s \in Seq(Acks) : Append(s, Ack(type, id)) \in Seq(Acks)
  BY <1>1, AppendProperties
<1>3. in \in [Conns -> Seq(Acks)]
  BY DEF IInv, TypeOK, NetworkType
<1> QED
  BY <1>2, <1>3 DEF Answer

LEMMA DeviceStepIInv ==
    ASSUME IInv, DeviceStep
    PROVE  IInv'
<1>1. UNCHANGED <<qosData, session, writers, connections, published, expired, restarts>>
  BY DEF DeviceStep, DeviceConnected, DeviceReceivesQos1, DeviceReceivesQos2, DeviceRefuses,
     DeviceReleases, world
<1>2. NetworkType' /\ PeerType' /\ WorldType'
  <2> USE DEF IInv, TypeOK, NetworkType, PeerType
  <2>1. CASE DeviceConnected
    <3>1. \E type : DeviceTakes(type)
      BY <2>1 DEF DeviceConnected
    <3>2. out' \in Seq(Packets)
      BY <3>1, DeviceTakesType
    <3> QED
      BY <2>1, <3>2, Frames DEF DeviceConnected
  <2>2. CASE DeviceReceivesQos1
    <3>1. DeviceTakes("PUBLISH") /\ Deliver(Head(out).msg) /\ Answer("PUBACK", Head(out).id)
          /\ UNCHANGED <<peerConn, peerReceived, world>>
      BY <2>2 DEF DeviceReceivesQos1
    <3>2. out' \in Seq(Packets) /\ Head(out).id \in Ids /\ Head(out).msg \in Msgs
      BY <3>1, DeviceTakesType
    <3>3. in' \in [Conns -> Seq(Acks)]
      BY <3>1, <3>2, AnswerType
    <3>4. delivered' \in [Msgs -> Nat]
      BY <3>1, <3>2 DEF Deliver
    <3> QED
      BY <3>1, <3>2, <3>3, <3>4, Frames
  <2>3. CASE DeviceReceivesQos2
    <3>1. DeviceTakes("PUBLISH") /\ Answer("PUBREC", Head(out).id)
          /\ (Deliver(Head(out).msg) \/ UNCHANGED delivered)
          /\ peerReceived' = peerReceived \cup {Head(out).id}
          /\ UNCHANGED <<peerConn, world>>
      BY <2>3 DEF DeviceReceivesQos2
    <3>2. out' \in Seq(Packets) /\ Head(out).id \in Ids /\ Head(out).msg \in Msgs
      BY <3>1, DeviceTakesType
    <3>3. in' \in [Conns -> Seq(Acks)]
      BY <3>1, <3>2, AnswerType
    <3>4. delivered' \in [Msgs -> Nat]
      BY <3>1, <3>2 DEF Deliver
    <3> QED
      BY <3>1, <3>2, <3>3, <3>4, Frames
  <2>4. CASE DeviceRefuses
    <3>1. DeviceTakes("PUBLISH") /\ Answer("PUBREC_ERROR", Head(out).id)
          /\ dropped' = dropped \cup {Head(out).msg}
          /\ UNCHANGED <<peer, published, expired, restarts>>
      BY <2>4 DEF DeviceRefuses
    <3>2. out' \in Seq(Packets) /\ Head(out).id \in Ids /\ Head(out).msg \in Msgs
      BY <3>1, DeviceTakesType
    <3>3. in' \in [Conns -> Seq(Acks)]
      BY <3>1, <3>2, AnswerType
    <3> QED
      BY <3>1, <3>2, <3>3, Frames DEF WorldType
  <2>5. CASE DeviceReleases
    <3>1. DeviceTakes("PUBREL") /\ Answer("PUBCOMP", Head(out).id)
          /\ peerReceived' = peerReceived \ {Head(out).id}
          /\ UNCHANGED <<peerConn, delivered, world>>
      BY <2>5 DEF DeviceReleases
    <3>2. out' \in Seq(Packets) /\ Head(out).id \in Ids
      BY <3>1, DeviceTakesType
    <3>3. in' \in [Conns -> Seq(Acks)]
      BY <3>1, <3>2, AnswerType
    <3> QED
      BY <3>1, <3>2, <3>3, Frames
  <2> QED
    BY <2>1, <2>2, <2>3, <2>4, <2>5 DEF DeviceStep
<1>3. TypeOK'
  BY <1>1, <1>2, Frames DEF IInv, TypeOK
<1> QED
  BY <1>1, <1>3, InvariantFrames DEF IInv, qosData, writers, connections

LEMMA ExpireIInv ==
    ASSUME IInv, NEW m \in Msgs, Expire(m)
    PROVE  IInv'
<1>1. UNCHANGED <<qosData, session, writers, connections, network, peer,
                  published, dropped, restarts>> /\ expired' = expired \cup {m}
  BY DEF Expire
<1>2. WorldType'
  BY <1>1 DEF IInv, TypeOK, WorldType
<1>3. TypeOK'
  BY <1>1, <1>2, Frames DEF IInv, TypeOK
<1> QED
  BY <1>1, <1>3, InvariantFrames DEF IInv, qosData, writers, connections

LEMMA RestartIInv ==
    ASSUME IInv, Restart
    PROVE  IInv'
<1>1. /\ restarts < MaxRestarts /\ restarts' = restarts + 1
      /\ usedIds' = {} /\ flowControlQuota' = MaxId /\ flowControlCealing' = MaxId
      /\ client' = 0 /\ restored' = TRUE
      /\ stage' = [k \in Conns |-> IF stage[k] = "unused" THEN "unused" ELSE "dead"]
      /\ out' = <<>> /\ in' = [k \in Conns |-> <<>>]
      /\ UNCHANGED <<queue, nextPacketId, outgoingQoS2, destroyOnDisconnect, writers,
                     present, pending, receivedRec, peer, published, dropped, expired>>
  BY DEF Restart
<1>2. QosDataType' /\ QuotaWithinReceiveMaximum'
  BY <1>1, BoundsAssumption DEF IInv, TypeOK, QosDataType, QuotaWithinReceiveMaximum
<1>3. 0 \in 0..MaxConns
  BY BoundsAssumption
<1>4. SessionType'
  BY <1>1, <1>3, Zenon DEF IInv, TypeOK, SessionType
<1>5. ConnectionsType'
  BY <1>1 DEF IInv, TypeOK, ConnectionsType
<1>6. NetworkType'
  BY <1>1 DEF NetworkType
<1>7. WorldType'
  BY <1>1, BoundsAssumption DEF IInv, TypeOK, WorldType
<1>8. TypeOK'
  BY <1>1, <1>2, <1>4, <1>5, <1>6, <1>7, Frames DEF IInv, TypeOK
<1> QED
  BY <1>1, <1>2, <1>8, InvariantFrames DEF IInv, writers

-----------------------------------------------------------------------------
LEMMA IInvInductive == Spec => []IInv
<1>1. IInv /\ [Next]_vars => IInv'
  <2> SUFFICES ASSUME IInv, [Next]_vars PROVE IInv'
    OBVIOUS
  <2>1. CASE UNCHANGED vars
    <3>1. TypeOK'
      BY <2>1, Frames DEF IInv, TypeOK, vars
    <3> QED
      BY <2>1, <3>1, InvariantFrames DEF IInv, vars, qosData, writers, connections, world
  <2>2. ASSUME NEW t \in Publishers, WritePacketStep(t) PROVE IInv'
    BY <2>2, BeginWriteIInv, DropForQuotaIInv, TakeIdIInv, WriteToClientIInv DEF WritePacketStep
  <2>3. ASSUME NEW k \in Conns, Assign(k) \/ ConnectStep(k) \/ AckStep(k) \/ Close(k) PROVE IInv'
    BY <2>3, AssignIInv, SetSessionPropertiesIInv, SendConnackIInv, PickClientIInv,
       CopyPendingIInv, WritePendingIInv, AckStepIInv, CloseIInv DEF ConnectStep
  <2>4. ASSUME NEW m \in Msgs, Expire(m) PROVE IInv'
    BY <2>4, ExpireIInv
  <2> QED
    BY <2>1, <2>2, <2>3, <2>4, DeviceStepIInv, RestartIInv DEF Next, Finished
<1> QED
  BY InitIInv, <1>1, PTL DEF Spec

(* Every variable keeps its type, for every number of ids, messages,         *)
(* connections, restarts and publishing threads.                             *)
THEOREM TypeCorrect == Spec => []TypeOK
<1>1. IInv => TypeOK
  BY DEF IInv
<1> QED
  BY IInvInductive, <1>1, PTL

(* The send quota of a session stays between 0 and the Receive Maximum of    *)
(* its client, however the handlers of its threads interleave, over          *)
(* take-overs, resends and restarts (session.cpp flowControlQuota).          *)
THEOREM QuotaSafe == Spec => []QuotaWithinReceiveMaximum
<1>1. IInv => QuotaWithinReceiveMaximum
  BY DEF IInv
<1> QED
  BY IInvInductive, <1>1, PTL
=============================================================================
