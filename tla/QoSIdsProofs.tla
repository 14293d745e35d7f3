---------------------------- MODULE QoSIdsProofs ----------------------------
(* Proofs about the packet ids of QoSSession, for every number of ids,       *)
(* messages, connections and publishing threads. In this order:              *)
(*   - connections follow one another (Turns), and with one thread what is   *)
(*     on its way to the device and back is of the connection it has;        *)
(*   - an unfinished publish keeps its id (IdsSound), so that the next one    *)
(*     queued gets another;                                                   *)
(*   - what the quota does not count is not there (QuotaAccounted), so a      *)
(*     publish is dropped only while another one is unfinished;               *)
(*   - the device gets a QoS 2 message at most once;                          *)
(*   - a QoS 1 message that leaves the queue was delivered, has expired or    *)
(*     was refused;                                                           *)
(*   - messages are first delivered in the order of their publication.        *)
EXTENDS QoSSessionProofs

-----------------------------------------------------------------------------
(* What is on the way                                                        *)

On(s) == {s[i] : i \in 1..Len(s)}

IdsOn(s) == {p.id : p \in On(s)}

\* No id twice; a CONNACK has the id 0.
OnceEach(s) == \A i, j \in 1..Len(s) : s[i].id = s[j].id /\ s[i].id # 0 => i = j

-----------------------------------------------------------------------------
(* One connection after the other                                            *)

Opened(k) == stage[k] \notin {"unused", "dead"}

\* Between setSessionProperties and the end of sendAllPendingQosData.
Greeting(k) == stage[k] \in {"registered", "acknowledged", "picked", "copied"}

ConnsInTurn ==
    /\ \A i, j \in Conns : i < j /\ stage[j] # "unused" => stage[i] = "dead"
    /\ \A k \in Conns : Opened(k) => k = client /\ k = peerConn
    /\ peerConn \in Conns => stage[peerConn] # "unused"

\* A session that is to be destroyed is not picked up again.
DestroyedForGood ==
    /\ \A k \in Conns : stage[k] # "unused" => client # 0
    /\ destroyOnDisconnect => client # 0 /\ \A k \in Conns : stage[k] # "assigned"

HandlersInTurn ==
    /\ \A t, u \in Publishers : pc[t] # "idle" /\ pc[u] # "idle" => t = u
    /\ \A t \in Publishers, k \in Conns :
          pc[t] # "idle" => stage[k] \in {"unused", "live", "dead"} /\ receivedRec[k] = 0
    /\ \A k \in Conns : receivedRec[k] # 0 => stage[k] = "live"
    /\ \A t \in Publishers :
          pc[t] # "idle" /\ heldClient[t] = 0 =>
             ~destroyOnDisconnect /\ \A k \in Conns : stage[k] # "live"

NetworkInTurn ==
    /\ \A k \in Conns : in[k] # <<>> => stage[k] = "live"
    /\ IdsOn(out) \subseteq {0} \/ (peerConn \in Conns /\ stage[peerConn] = "live")

-----------------------------------------------------------------------------
(* One packet for one id                                                     *)

EachIdOnce ==
    /\ OnceEach(out)
    /\ \A k \in Conns : OnceEach(in[k]) /\ IdsOn(in[k]) \cap IdsOn(out) = {}
    /\ \A k \in Conns :
          receivedRec[k] # 0 => receivedRec[k] \notin IdsOn(out) \cup IdsOn(in[k])
    /\ \A t \in Publishers, k \in Conns :
          pc[t] = "write" => packetId[t] \notin IdsOn(out) \cup IdsOn(in[k])

CarriedIdsAreUsed ==
    /\ \A p \in On(out) : p.id # 0 => p.id \in usedIds
    /\ \A p \in On(out) : p.type = "PUBLISH" => p.id \notin outgoingQoS2
    /\ \A k \in Conns : \A a \in On(in[k]) :
          a.id \in usedIds /\ (a.type # "PUBCOMP" => a.id \notin outgoingQoS2)
    /\ \A k \in Conns : receivedRec[k] # 0 =>
          /\ receivedRec[k] \in usedIds \ outgoingQoS2
          /\ ~destroyOnDisconnect => receivedRec[k] \notin Queued
    /\ \A t \in Publishers : pc[t] = "write" => packetId[t] \in usedIds \ outgoingQoS2

QueueCounts == ~destroyOnDisconnect \/ \E k \in Conns : Greeting(k)

UnfinishedUsed ==
    /\ outgoingQoS2 \subseteq usedIds
    /\ QueueCounts => Queued \subseteq usedIds \ outgoingQoS2
    /\ \A k \in Conns : stage[k] = "copied" =>
          /\ DOMAIN pending[k].publishes \subseteq usedIds \ outgoingQoS2
          /\ pending[k].releases \subseteq outgoingQoS2

QuotaAccounted ==
    /\ flowControlQuota + Cardinality(usedIds) >= flowControlCealing
    /\ \A k \in Conns :
          stage[k] \in {"registered", "acknowledged", "picked"} =>
             flowControlQuota = flowControlCealing

-----------------------------------------------------------------------------
(* QoS 2                                                                     *)

Undelivered == \A m \in Msgs : delivered[m] = 0

\* A CONNACK without a session is the first packet of the first connection.
NewSession ==
    /\ \A k \in Conns : stage[k] \in {"assigned", "registered"} =>
          out = <<>> /\ (present[k] \/ Undelivered)
    /\ \A i \in 1..Len(out) : out[i].type = "CONNACK" => i = 1 /\ Undelivered
    /\ client = 0 => Undelivered

\* What is on the way to the device is what the session stores for its id.
PublishMatches ==
    /\ \A p \in On(out) : p.type = "PUBLISH" =>
          /\ p.msg <= published
          /\ ~destroyOnDisconnect => p.id \in Queued /\ queue[p.id] = p.msg
    /\ \A p, q \in On(out) :
          p.type = "PUBLISH" /\ q.type = "PUBLISH" /\ p.msg = q.msg => p.id = q.id
    /\ \A p \in On(out) : p.type = "PUBREL" => p.id \in outgoingQoS2
    /\ \A t \in Publishers : pc[t] # "idle" =>
          \A p \in On(out) : p.type = "PUBLISH" => p.msg # msg[t]
    /\ \A t \in Publishers : pc[t] = "write" /\ ~destroyOnDisconnect =>
          packetId[t] \in Queued /\ queue[packetId[t]] = msg[t]
    /\ \A k \in Conns : stage[k] = "copied" =>
          \A id \in DOMAIN pending[k].publishes :
              id \in Queued /\ queue[id] = pending[k].publishes[id]

\* The device has the id of a message it delivered for as long as the session
\* may send the message again.
DeliveredIsKnown ==
    \A m \in Qos2 : delivered[m] > 0 =>
       /\ m <= published
       /\ \A t \in Publishers : pc[t] # "idle" => msg[t] # m
       /\ QueueCounts => \A id \in Queued : queue[id] = m => id \in peerReceived
       /\ \A p \in On(out) : p.type = "PUBLISH" /\ p.msg = m => p.id \in peerReceived


-----------------------------------------------------------------------------
(* Sequences                                                                 *)

LEMMA OnTail ==
    ASSUME NEW S, NEW s \in Seq(S), s # <<>>
    PROVE  On(Tail(s)) \subseteq On(s) /\ Head(s) \in On(s)
<1>1. Len(s) \in Nat /\ Len(s) > 0 /\ Len(Tail(s)) = Len(s) - 1
  OBVIOUS
<1>2. \A i \in 1..Len(Tail(s)) : i + 1 \in 1..Len(s) /\ Tail(s)[i] = s[i + 1]
  BY <1>1
<1>3. 1 \in 1..Len(s) /\ Head(s) = s[1]
  BY <1>1
<1> QED
  BY <1>2, <1>3 DEF On

LEMMA OnAppend ==
    ASSUME NEW S, NEW s \in Seq(S), NEW e \in S
    PROVE  On(Append(s, e)) = On(s) \cup {e}
<1>1. Len(s) \in Nat /\ Len(Append(s, e)) = Len(s) + 1
  OBVIOUS
<1>2. \A i \in 1..Len(s) : Append(s, e)[i] = s[i]
  OBVIOUS
<1>3. Append(s, e)[Len(s) + 1] = e
  OBVIOUS
<1> QED
  BY <1>1, <1>2, <1>3 DEF On

LEMMA OnConcat ==
    ASSUME NEW S, NEW s \in Seq(S), NEW u \in Seq(S)
    PROVE  On(s \o u) = On(s) \cup On(u)
<1>1. Len(s) \in Nat /\ Len(u) \in Nat /\ Len(s \o u) = Len(s) + Len(u)
  OBVIOUS
<1>2. \A i \in 1..Len(s) : i \in 1..Len(s \o u) /\ (s \o u)[i] = s[i]
  OBVIOUS
<1>3. \A i \in 1..Len(u) : i + Len(s) \in 1..Len(s \o u) /\ (s \o u)[i + Len(s)] = u[i]
  OBVIOUS
<1>4. \A i \in 1..Len(s \o u) :
        i \in 1..Len(s) \/ (i - Len(s) \in 1..Len(u) /\ (s \o u)[i] = u[i - Len(s)])
  BY <1>1
<1>5. On(s \o u) \subseteq On(s) \cup On(u)
  BY <1>2, <1>4 DEF On
<1>6. On(s) \subseteq On(s \o u)
  BY <1>2, Zenon DEF On
<1>7. On(u) \subseteq On(s \o u)
  BY <1>3, Zenon DEF On
<1> QED
  BY <1>5, <1>6, <1>7

LEMMA OnNothing == On(<<>>) = {} /\ IdsOn(<<>>) = {} /\ OnceEach(<<>>)
  BY DEF On, IdsOn, OnceEach

LEMMA OnOne == ASSUME NEW e PROVE On(<<e>>) = {e} /\ IdsOn(<<e>>) = {e.id} /\ OnceEach(<<e>>)
<1>1. On(<<e>>) = {e}
  BY DEF On
<1> QED
  BY <1>1 DEF IdsOn, OnceEach

(* Without its head a sequence has each id once, and the head's no more.     *)
LEMMA OnceTail ==
    ASSUME NEW S, NEW s \in Seq(S), s # <<>>, OnceEach(s)
    PROVE  /\ OnceEach(Tail(s))
           /\ IdsOn(Tail(s)) \subseteq IdsOn(s)
           /\ Head(s).id # 0 => Head(s).id \notin IdsOn(Tail(s))
<1>1. Len(s) \in Nat /\ Len(s) > 0 /\ Len(Tail(s)) = Len(s) - 1
  OBVIOUS
<1>2. \A i \in 1..Len(Tail(s)) : i + 1 \in 1..Len(s) /\ Tail(s)[i] = s[i + 1]
  BY <1>1
<1>3. 1 \in 1..Len(s) /\ Head(s) = s[1]
  BY <1>1
<1>4. OnceEach(Tail(s))
  <2> SUFFICES ASSUME NEW i \in 1..Len(Tail(s)), NEW j \in 1..Len(Tail(s)),
                      Tail(s)[i].id = Tail(s)[j].id, Tail(s)[i].id # 0
               PROVE  i = j
    BY DEF OnceEach
  <2>1. i + 1 = j + 1
    BY <1>2 DEF OnceEach
  <2> QED
    BY <2>1
<1>5. IdsOn(Tail(s)) \subseteq IdsOn(s)
  BY OnTail DEF IdsOn
<1>6. ASSUME Head(s).id # 0, Head(s).id \in IdsOn(Tail(s)) PROVE FALSE
  <2>1. PICK i \in 1..Len(Tail(s)) : Tail(s)[i].id = Head(s).id
    BY <1>6 DEF IdsOn, On
  <2>2. i + 1 \in 1..Len(s) /\ s[i + 1].id = s[1].id /\ s[1].id # 0
    BY <1>2, <1>3, <1>6, <2>1
  <2>3. i + 1 = 1
    BY <1>3, <2>2 DEF OnceEach
  <2> QED
    BY <2>3
<1> QED
  BY <1>4, <1>5, <1>6

LEMMA OnceConcat ==
    ASSUME NEW S, NEW s \in Seq(S), NEW u \in Seq(S), OnceEach(s), OnceEach(u),
           IdsOn(s) \cap IdsOn(u) \subseteq {0}
    PROVE  OnceEach(s \o u) /\ IdsOn(s \o u) = IdsOn(s) \cup IdsOn(u)
<1>1. Len(s) \in Nat /\ Len(u) \in Nat /\ Len(s \o u) = Len(s) + Len(u)
  OBVIOUS
<1>2. \A i \in 1..Len(s \o u) :
        \/ i \in 1..Len(s) /\ (s \o u)[i] = s[i]
        \/ i > Len(s) /\ i - Len(s) \in 1..Len(u) /\ (s \o u)[i] = u[i - Len(s)]
  BY <1>1
<1>3. (\A i \in 1..Len(s) : s[i].id \in IdsOn(s)) /\ (\A i \in 1..Len(u) : u[i].id \in IdsOn(u))
  BY DEF IdsOn, On
<1>4. OnceEach(s \o u)
  <2> SUFFICES ASSUME NEW i \in 1..Len(s \o u), NEW j \in 1..Len(s \o u),
                      (s \o u)[i].id = (s \o u)[j].id, (s \o u)[i].id # 0
               PROVE  i = j
    BY DEF OnceEach
  <2>1. CASE i \in 1..Len(s) /\ (s \o u)[i] = s[i] /\ j \in 1..Len(s) /\ (s \o u)[j] = s[j]
    BY <2>1 DEF OnceEach
  <2>2. CASE i - Len(s) \in 1..Len(u) /\ (s \o u)[i] = u[i - Len(s)]
             /\ j - Len(s) \in 1..Len(u) /\ (s \o u)[j] = u[j - Len(s)]
    <3>1. i - Len(s) = j - Len(s)
      BY <2>2 DEF OnceEach
    <3> QED
      BY <1>1, <3>1
  <2>3. CASE i \in 1..Len(s) /\ (s \o u)[i] = s[i]
             /\ j - Len(s) \in 1..Len(u) /\ (s \o u)[j] = u[j - Len(s)]
    <3>1. s[i].id \in IdsOn(s) \cap IdsOn(u)
      BY <1>3, <2>3
    <3> QED
      BY <2>3, <3>1
  <2>4. CASE j \in 1..Len(s) /\ (s \o u)[j] = s[j]
             /\ i - Len(s) \in 1..Len(u) /\ (s \o u)[i] = u[i - Len(s)]
    <3>1. s[j].id \in IdsOn(s) \cap IdsOn(u)
      BY <1>3, <2>4
    <3> QED
      BY <2>4, <3>1
  <2> QED
    BY <1>2, <2>1, <2>2, <2>3, <2>4
<1>5. IdsOn(s \o u) = IdsOn(s) \cup IdsOn(u)
  BY OnConcat DEF IdsOn
<1> QED
  BY <1>4, <1>5

LEMMA OnceAppend ==
    ASSUME NEW S, NEW s \in Seq(S), NEW e \in S, OnceEach(s), e.id \in IdsOn(s) => e.id = 0
    PROVE  OnceEach(Append(s, e)) /\ IdsOn(Append(s, e)) = IdsOn(s) \cup {e.id}
<1>1. Append(s, e) = s \o <<e>> /\ <<e>> \in Seq(S)
  OBVIOUS
<1>2. OnceEach(<<e>>) /\ IdsOn(<<e>>) = {e.id}
  BY OnOne
<1>3. IdsOn(s) \cap IdsOn(<<e>>) \subseteq {0}
  BY <1>2
<1>4. OnceEach(s \o <<e>>) /\ IdsOn(s \o <<e>>) = IdsOn(s) \cup IdsOn(<<e>>)
  <2> DEFINE one == <<e>>
  <2>1. one \in Seq(S) /\ OnceEach(one) /\ IdsOn(s) \cap IdsOn(one) \subseteq {0}
    BY <1>1, <1>2, <1>3
  <2> HIDE DEF one
  <2>2. OnceEach(s \o one) /\ IdsOn(s \o one) = IdsOn(s) \cup IdsOn(one)
    BY <2>1, OnceConcat
  <2> QED
    BY <2>2 DEF one
<1> QED
  BY <1>1, <1>2, <1>4, Zenon

-----------------------------------------------------------------------------
(* One connection after the other                                            *)

StageNames == {"unused", "assigned", "registered", "acknowledged", "picked", "copied",
               "live", "dead"}

LEMMA InitOrder == Init => ConnsInTurn /\ DestroyedForGood
  BY DEF Init, ConnsInTurn, DestroyedForGood, Opened, Conns

(* A connection goes on with its connect sequence.                           *)
LEMMA OpenedGoesOn ==
    ASSUME stage \in [Conns -> StageNames], ConnsInTurn, DestroyedForGood,
           NEW k \in Conns, Opened(k), NEW s \in StageNames,
           s \notin {"unused", "assigned"}, stage' = [stage EXCEPT ![k] = s],
           UNCHANGED <<client, peerConn, destroyOnDisconnect>>
    PROVE  ConnsInTurn' /\ DestroyedForGood'
<1>1. \A j \in Conns : stage'[j] = IF j = k THEN s ELSE stage[j]
  OBVIOUS
<1>2. ConnsInTurn'
  <2>1. \A i, j \in Conns : i < j /\ stage'[j] # "unused" => stage'[i] = "dead"
    BY <1>1 DEF ConnsInTurn, Opened
  <2>2. \A j \in Conns : Opened(j)' => j = client' /\ j = peerConn'
    BY <1>1 DEF ConnsInTurn, Opened
  <2> QED
    BY <2>1, <2>2 DEF ConnsInTurn
<1>3. DestroyedForGood'
  BY <1>1 DEF DestroyedForGood, Opened
<1> QED
  BY <1>2, <1>3

LEMMA OrderStep ==
    ASSUME ~Takeover, MaxRestarts = 0, IInv, ConnsInTurn, DestroyedForGood, [Next]_vars
    PROVE  ConnsInTurn' /\ DestroyedForGood'
<1>0. stage \in [Conns -> StageNames]
  BY DEF IInv, TypeOK, ConnectionsType, StageNames
<1>1. CASE UNCHANGED <<stage, client, peerConn, destroyOnDisconnect>>
  BY <1>1 DEF ConnsInTurn, DestroyedForGood, Opened
<1>2. ASSUME NEW k \in Conns, Assign(k) PROVE ConnsInTurn' /\ DestroyedForGood'
  <2>1. /\ client' = k /\ peerConn' = k /\ destroyOnDisconnect' = destroyOnDisconnect
        /\ stage' = [stage EXCEPT ![k] = "assigned"]
        /\ stage[k] = "unused" /\ \A j \in Conns : j < k => stage[j] = "dead"
        /\ client # 0 => ~destroyOnDisconnect
    BY <1>2 DEF Assign
  <2>2. \A j \in Conns : stage'[j] = IF j = k THEN "assigned" ELSE stage[j]
    BY <1>0, <2>1
  <2>3. \A j \in Conns : j > k => stage[j] = "unused"
    BY <2>1 DEF ConnsInTurn
  <2>4. k # 0 /\ Conns \subseteq Int
    BY DEF Conns
  <2>5. ConnsInTurn'
    BY <2>1, <2>2, <2>3, <2>4 DEF ConnsInTurn, Opened
  <2>6. ~destroyOnDisconnect
    BY <2>1 DEF DestroyedForGood
  <2>7. DestroyedForGood'
    BY <2>1, <2>2, <2>4, <2>6 DEF DestroyedForGood
  <2> QED
    BY <2>5, <2>7
<1>3. ASSUME NEW k \in Conns, SetSessionProperties(k) PROVE ConnsInTurn' /\ DestroyedForGood'
  <2>1. /\ stage[k] = "assigned" /\ stage' = [stage EXCEPT ![k] = "registered"]
        /\ UNCHANGED <<client, peerConn>>
    BY <1>3 DEF SetSessionProperties, peer
  <2>2. \A j \in Conns : stage'[j] = IF j = k THEN "registered" ELSE stage[j]
    BY <1>0, <2>1
  <2>3. \A j \in Conns : stage[j] = "assigned" => j = k
    BY <2>1 DEF ConnsInTurn, Opened
  <2>4. ConnsInTurn'
    BY <2>1, <2>2 DEF ConnsInTurn, Opened
  <2>5. DestroyedForGood'
    BY <2>1, <2>2, <2>3 DEF DestroyedForGood
  <2> QED
    BY <2>4, <2>5
<1>4. ASSUME NEW k \in Conns,
             SendConnack(k) \/ PickClient(k) \/ CopyPending(k) \/ WritePending(k) \/ Close(k)
      PROVE  ConnsInTurn' /\ DestroyedForGood'
  <2>1. Opened(k) /\ UNCHANGED <<client, peerConn, destroyOnDisconnect>>
    BY <1>4 DEF SendConnack, PickClient, CopyPending, WritePending, Close, Opened, session, peer
  <2>2. \E s \in StageNames \ {"unused", "assigned"} : stage' = [stage EXCEPT ![k] = s]
    BY <1>4 DEF SendConnack, PickClient, CopyPending, WritePending, Close, StageNames
  <2> QED
    BY <1>0, <2>1, <2>2, OpenedGoesOn
<1>5. ~Restart
  BY DEF Restart, IInv, TypeOK, WorldType
<1>6. ASSUME NEW t \in Publishers, WritePacketStep(t)
      PROVE  UNCHANGED <<stage, client, peerConn, destroyOnDisconnect>>
  BY <1>6 DEF WritePacketStep, BeginWrite, DropForQuota, TakeId, WriteToClient,
     session, connections, peer
<1>7. ASSUME NEW k \in Conns, AckStep(k)
      PROVE  UNCHANGED <<stage, client, peerConn, destroyOnDisconnect>>
  BY <1>7 DEF AckStep, HandlePubAck, HandlePubRec, HandlePubRecError, StoreOutgoingQoS2,
     HandlePubComp, session, connections, peer
<1>8. ASSUME DeviceStep
      PROVE  UNCHANGED <<stage, client, peerConn, destroyOnDisconnect>>
  BY <1>8 DEF DeviceStep, DeviceConnected, DeviceReceivesQos1, DeviceReceivesQos2,
     DeviceRefuses, DeviceReleases, session, connections, peer
<1>9. ASSUME NEW m \in Msgs, Expire(m)
      PROVE  UNCHANGED <<stage, client, peerConn, destroyOnDisconnect>>
  BY <1>9 DEF Expire, session, connections, peer
<1>10. ASSUME Finished \/ UNCHANGED vars
       PROVE  UNCHANGED <<stage, client, peerConn, destroyOnDisconnect>>
  BY <1>10 DEF Finished, vars, session, connections, peer
<1> QED
  BY <1>1, <1>2, <1>3, <1>4, <1>5, <1>6, <1>7, <1>8, <1>9, <1>10 DEF Next, ConnectStep

LEMMA OrderHolds ==
    ASSUME ~Takeover, MaxRestarts = 0
    PROVE  Spec => [](ConnsInTurn /\ DestroyedForGood)
<1>1. IInv /\ ConnsInTurn /\ DestroyedForGood /\ [Next]_vars => (ConnsInTurn /\ DestroyedForGood)'
  BY OrderStep
<1> QED
  BY InitOrder, IInvInductive, <1>1, PTL DEF Spec

-----------------------------------------------------------------------------
(* One handler after the other                                               *)

InTurn == SingleThread /\ ~Takeover /\ MaxRestarts = 0

LEMMA NobodyBusy ==
    ASSUME InTurn, IInv, ThreadFree
    PROVE  /\ \A t \in Publishers : pc[t] = "idle"
           /\ \A k \in Conns : stage[k] \in {"unused", "live", "dead"} /\ receivedRec[k] = 0
  BY DEF InTurn, ThreadFree, Busy

LEMMA InitHandlers == Init => HandlersInTurn
  BY DEF Init, HandlersInTurn

(* A connect sequence goes on, or a connection breaks.                       *)
LEMMA HandlersGreeting ==
    ASSUME IInv, ConnsInTurn, HandlersInTurn,
           NEW k \in Conns, \A t \in Publishers : pc[t] = "idle", receivedRec[k] = 0,
           NEW s \in StageNames, stage' = [stage EXCEPT ![k] = s],
           UNCHANGED <<pc, heldClient, receivedRec>>
    PROVE  HandlersInTurn'
<1>1. stage \in [Conns -> StageNames]
  BY DEF IInv, TypeOK, ConnectionsType, StageNames
<1>2. \A j \in Conns : stage'[j] = IF j = k THEN s ELSE stage[j]
  BY <1>1
<1> QED
  BY <1>2 DEF HandlersInTurn

LEMMA HandlersStep ==
    ASSUME InTurn, IInv, ConnsInTurn, DestroyedForGood, HandlersInTurn, [Next]_vars
    PROVE  HandlersInTurn'
<1>0. /\ stage \in [Conns -> StageNames] /\ receivedRec \in [Conns -> 0..MaxId]
      /\ pc \in [Publishers -> {"idle", "lock", "write"}]
      /\ heldClient \in [Publishers -> 0..MaxConns]
  BY DEF IInv, TypeOK, ConnectionsType, WritersType, StageNames
<1>1. CASE UNCHANGED <<stage, receivedRec, pc, heldClient, destroyOnDisconnect>>
  BY <1>1 DEF HandlersInTurn
<1>2. ASSUME NEW t \in Publishers, BeginWrite(t) PROVE HandlersInTurn'
  <2>1. /\ pc' = [pc EXCEPT ![t] = "lock"]
        /\ heldClient' = [heldClient EXCEPT ![t] = SharedClient]
        /\ SessionExists /\ ThreadFree
        /\ UNCHANGED <<stage, receivedRec, destroyOnDisconnect>>
    BY <1>2 DEF BeginWrite, session, connections
  <2>2. /\ \A u \in Publishers : pc[u] = "idle"
        /\ \A k \in Conns : stage[k] \in {"unused", "live", "dead"} /\ receivedRec[k] = 0
    BY <2>1, NobodyBusy
  <2>3. SharedClient = 0 => ~destroyOnDisconnect /\ \A k \in Conns : stage[k] # "live"
    <3>1. 0 \notin Conns
      BY DEF Conns
    <3>2. SharedClient = 0 => client = 0 \/ stage[client] = "dead"
      BY DEF SharedClient
    <3>3. SharedClient = 0 => \A k \in Conns : stage[k] # "live"
      BY <3>1, <3>2 DEF ConnsInTurn, Opened
    <3>4. SharedClient = 0 => ~destroyOnDisconnect
      BY <2>1, <3>2 DEF SessionExists, DestroyedForGood
    <3> QED
      BY <3>3, <3>4
  <2>4. \A u \in Publishers : /\ pc'[u] = IF u = t THEN "lock" ELSE "idle"
                              /\ u = t => heldClient'[u] = SharedClient
    BY <1>0, <2>1, <2>2
  <2> QED
    BY <2>1, <2>2, <2>3, <2>4 DEF HandlersInTurn
<1>3. ASSUME NEW t \in Publishers, DropForQuota(t) \/ WriteToClient(t) PROVE HandlersInTurn'
  <2>1. /\ pc' = [pc EXCEPT ![t] = "idle"] /\ heldClient' = [heldClient EXCEPT ![t] = 0]
        /\ UNCHANGED <<stage, receivedRec, destroyOnDisconnect>>
    BY <1>3 DEF DropForQuota, WriteToClient, FinishWrite, session, connections
  <2>2. \A u \in Publishers : /\ pc'[u] = IF u = t THEN "idle" ELSE pc[u]
                              /\ u # t => heldClient'[u] = heldClient[u]
    BY <1>0, <2>1
  <2> QED
    BY <2>1, <2>2 DEF HandlersInTurn
<1>4. ASSUME NEW t \in Publishers, TakeId(t) PROVE HandlersInTurn'
  <2>1. /\ pc[t] = "lock" /\ pc' = [pc EXCEPT ![t] = "write"]
        /\ UNCHANGED <<stage, receivedRec, heldClient, destroyOnDisconnect>>
    BY <1>4 DEF TakeId, session, connections
  <2>2. \A u \in Publishers : pc'[u] = IF u = t THEN "write" ELSE pc[u]
    BY <1>0, <2>1
  <2> QED
    BY <2>1, <2>2 DEF HandlersInTurn
<1>5. ASSUME NEW k \in Conns, Assign(k) \/ Close(k) PROVE HandlersInTurn'
  <2>1. /\ ThreadFree
        /\ \E s \in StageNames : stage' = [stage EXCEPT ![k] = s]
        /\ UNCHANGED <<pc, heldClient, receivedRec>>
    BY <1>5 DEF Assign, Close, writers, StageNames
  <2>2. (\A t \in Publishers : pc[t] = "idle") /\ receivedRec[k] = 0
    BY <2>1, NobodyBusy
  <2> QED
    BY <2>1, <2>2, HandlersGreeting
<1>6. ASSUME NEW k \in Conns, ConnectStep(k) PROVE HandlersInTurn'
  <2>1. /\ stage[k] \in {"assigned", "registered", "acknowledged", "picked", "copied"}
        /\ \E s \in StageNames : stage' = [stage EXCEPT ![k] = s]
        /\ UNCHANGED <<pc, heldClient, receivedRec>>
    BY <1>6 DEF ConnectStep, SetSessionProperties, SendConnack, PickClient, CopyPending,
       WritePending, writers, StageNames
  <2>2. (\A t \in Publishers : pc[t] = "idle") /\ receivedRec[k] = 0
    BY <2>1 DEF HandlersInTurn
  <2> QED
    BY <2>1, <2>2, HandlersGreeting
<1>7. ASSUME NEW k \in Conns, HandlePubRec(k) PROVE HandlersInTurn'
  <2>1. /\ stage[k] = "live" /\ ThreadFree
        /\ receivedRec' = [receivedRec EXCEPT ![k] = Head(in[k]).id]
        /\ UNCHANGED <<stage, pc, heldClient, destroyOnDisconnect>>
    BY <1>7 DEF HandlePubRec, Received, session, writers
  <2>2. \A t \in Publishers : pc[t] = "idle"
    BY <2>1, NobodyBusy
  <2>3. \A j \in Conns : j # k => receivedRec'[j] = receivedRec[j]
    BY <1>0, <2>1
  <2> QED
    BY <2>1, <2>2, <2>3 DEF HandlersInTurn
<1>8. ASSUME NEW k \in Conns, StoreOutgoingQoS2(k) PROVE HandlersInTurn'
  <2>1. /\ receivedRec' = [receivedRec EXCEPT ![k] = 0]
        /\ UNCHANGED <<stage, pc, heldClient, destroyOnDisconnect>>
    BY <1>8 DEF StoreOutgoingQoS2, session, writers
  <2>2. \A j \in Conns : receivedRec'[j] = IF j = k THEN 0 ELSE receivedRec[j]
    BY <1>0, <2>1
  <2> QED
    BY <2>1, <2>2 DEF HandlersInTurn
<1>9. ASSUME NEW k \in Conns, HandlePubAck(k) \/ HandlePubRecError(k) \/ HandlePubComp(k)
      PROVE  UNCHANGED <<stage, receivedRec, pc, heldClient, destroyOnDisconnect>>
  BY <1>9 DEF HandlePubAck, HandlePubRecError, HandlePubComp, session, writers, connections
<1>10. ASSUME DeviceStep
       PROVE  UNCHANGED <<stage, receivedRec, pc, heldClient, destroyOnDisconnect>>
  BY <1>10 DEF DeviceStep, DeviceConnected, DeviceReceivesQos1, DeviceReceivesQos2,
     DeviceRefuses, DeviceReleases, session, writers, connections
<1>11. ASSUME NEW m \in Msgs, Expire(m)
       PROVE  UNCHANGED <<stage, receivedRec, pc, heldClient, destroyOnDisconnect>>
  BY <1>11 DEF Expire, session, writers, connections
<1>12. ASSUME Finished \/ UNCHANGED vars
       PROVE  UNCHANGED <<stage, receivedRec, pc, heldClient, destroyOnDisconnect>>
  BY <1>12 DEF Finished, vars, session, writers, connections
<1>13. ~Restart
  BY DEF Restart, InTurn, IInv, TypeOK, WorldType
<1>14. ASSUME NEW t \in Publishers, WritePacketStep(t) PROVE HandlersInTurn'
  BY <1>2, <1>3, <1>4, <1>14 DEF WritePacketStep
<1>15. ASSUME NEW k \in Conns, AckStep(k) PROVE HandlersInTurn'
  BY <1>1, <1>7, <1>8, <1>9, <1>15 DEF AckStep
<1> QED
  BY <1>1, <1>5, <1>6, <1>10, <1>11, <1>12, <1>13, <1>14, <1>15 DEF Next

(* What the ids rest on: types, and one handler and one connection at a time. *)
Turns == IInv /\ ConnsInTurn /\ DestroyedForGood /\ HandlersInTurn

LEMMA TurnsHold == ASSUME InTurn PROVE Spec => []Turns
<1>1. IInv /\ ConnsInTurn /\ DestroyedForGood /\ HandlersInTurn /\ [Next]_vars => HandlersInTurn'
  BY HandlersStep
<1>2. Spec => [](ConnsInTurn /\ DestroyedForGood)
  BY OrderHolds DEF InTurn
<1> QED
  BY InitHandlers, IInvInductive, <1>1, <1>2, PTL DEF Spec, Turns

-----------------------------------------------------------------------------
(* Packet ids: the parts of a step                                           *)

IdsSound == NetworkInTurn /\ EachIdOnce /\ CarriedIdsAreUsed /\ UnfinishedUsed

LEMMA PacketIds ==
    \A p \in Packets : \/ p.type \in {"PUBLISH", "PUBREL"} /\ p.id \in Ids
                       \/ p.type \in {"CONNACK", "CONNACK_PRESENT"} /\ p.id = 0
<1> SUFFICES ASSUME NEW p \in Packets
             PROVE  \/ p.type \in {"PUBLISH", "PUBREL"} /\ p.id \in Ids
                    \/ p.type \in {"CONNACK", "CONNACK_PRESENT"} /\ p.id = 0
  OBVIOUS
<1>1. \/ \E id \in Ids, m \in Msgs : p = Publish(id, m)
      \/ \E id \in Ids : p = PubRel(id)
      \/ p.type \in {"CONNACK", "CONNACK_PRESENT"} /\ p.id = 0
  BY DEF Packets, ConnAck
<1>2. ASSUME NEW id \in Ids, NEW m \in Msgs, p = Publish(id, m)
      PROVE  p.type = "PUBLISH" /\ p.id = id
  BY <1>2 DEF Publish
<1>3. ASSUME NEW id \in Ids, p = PubRel(id)
      PROVE  p.type = "PUBREL" /\ p.id = id
  BY <1>3 DEF PubRel
<1> QED
  BY <1>1, <1>2, <1>3

LEMMA AckIds == \A a \in Acks : a.id \in Ids /\ a.id # 0
  BY DEF Acks, Ack, Ids

LEMMA OnType == ASSUME NEW S, NEW s \in Seq(S) PROVE On(s) \subseteq S
  BY DEF On

LEMMA OnceZero == ASSUME NEW s, IdsOn(s) \subseteq {0} PROVE OnceEach(s)
  BY DEF OnceEach, IdsOn, On

(* While nothing but a CONNACK is on the way, no packet id is.               *)
Calm ==
    /\ IdsOn(out) \subseteq {0}
    /\ \A k \in Conns : in[k] = <<>> /\ receivedRec[k] = 0
    /\ \A t \in Publishers : pc[t] # "write"

LEMMA CalmIds ==
    ASSUME IInv, Calm
    PROVE  NetworkInTurn /\ EachIdOnce /\ CarriedIdsAreUsed
<1>1. \A k \in Conns : On(in[k]) = {} /\ IdsOn(in[k]) = {} /\ OnceEach(in[k])
  BY OnNothing DEF Calm
<1>2. \A p \in On(out) : p \in Packets /\ p.id = 0 /\ p.type # "PUBLISH"
  <2>1. \A p \in On(out) : p \in Packets
    BY OnType DEF IInv, TypeOK, NetworkType
  <2>2. \A p \in On(out) : p.id = 0
    BY DEF Calm, IdsOn
  <2>3. 0 \notin Ids
    BY DEF Ids
  <2> QED
    BY <2>1, <2>2, <2>3, PacketIds
<1>3. OnceEach(out)
  BY OnceZero DEF Calm
<1>4. NetworkInTurn
  BY DEF Calm, NetworkInTurn
<1>5. EachIdOnce
  BY <1>1, <1>3 DEF Calm, EachIdOnce
<1>6. CarriedIdsAreUsed
  BY <1>1, <1>2 DEF Calm, CarriedIdsAreUsed
<1> QED
  BY <1>4, <1>5, <1>6

LEMMA CalmAfter == IInv' /\ Calm' => (NetworkInTurn /\ EachIdOnce /\ CarriedIdsAreUsed)'
<1>1. IInv /\ Calm => NetworkInTurn /\ EachIdOnce /\ CarriedIdsAreUsed
  BY CalmIds
<1> QED
  BY <1>1, PTL

(* So it is while no connection has come to the end of its connect sequence. *)
LEMMA CalmWithoutLive ==
    ASSUME Turns, NetworkInTurn, \A k \in Conns : stage[k] # "live"
    PROVE  /\ IdsOn(out) \subseteq {0}
           /\ \A k \in Conns : in[k] = <<>> /\ receivedRec[k] = 0
  BY DEF NetworkInTurn, Turns, HandlersInTurn

LEMMA CalmAtGreeting ==
    ASSUME Turns, NetworkInTurn, NEW k \in Conns,
           stage[k] \in {"assigned", "registered", "acknowledged", "picked", "copied"}
    PROVE  /\ Calm
           /\ \A t \in Publishers : pc[t] = "idle"
           /\ \A j \in Conns : j # k => stage[j] \in {"unused", "dead"}
           /\ peerConn = k
<1>1. \A j \in Conns : j # k => stage[j] \in {"unused", "dead"}
  BY DEF Turns, ConnsInTurn, Opened
<1>2. \A t \in Publishers : pc[t] = "idle"
  BY DEF Turns, HandlersInTurn
<1>3. \A j \in Conns : stage[j] # "live"
  BY <1>1
<1> QED
  BY <1>1, <1>2, <1>3, CalmWithoutLive DEF Calm, Turns, ConnsInTurn, Opened

LEMMA UnfinishedFrame ==
    ASSUME UnfinishedUsed, UNCHANGED <<usedIds, outgoingQoS2, queue>>,
           QueueCounts' => QueueCounts,
           \A j \in Conns : stage'[j] = "copied" =>
              stage[j] = "copied" /\ pending'[j] = pending[j]
    PROVE  UnfinishedUsed'
  BY DEF UnfinishedUsed, Queued

LEMMA SameIds ==
    ASSUME IdsSound,
           UNCHANGED <<usedIds, outgoingQoS2, queue, destroyOnDisconnect, stage, pending,
                       receivedRec, out, in, peerConn, packetId>>,
           \A t \in Publishers : pc'[t] = "write" => pc[t] = "write"
    PROVE  IdsSound'
<1>1. NetworkInTurn'
  BY DEF IdsSound, NetworkInTurn
<1>2. EachIdOnce'
  BY DEF IdsSound, EachIdOnce
<1>3. CarriedIdsAreUsed'
  BY DEF IdsSound, CarriedIdsAreUsed, Queued
<1>4. UnfinishedUsed'
  BY DEF IdsSound, UnfinishedUsed, QueueCounts, Queued, Greeting
<1> QED
  BY <1>1, <1>2, <1>3, <1>4 DEF IdsSound

LEMMA InitIds == Init => IdsSound
<1> SUFFICES ASSUME Init PROVE IdsSound
  OBVIOUS
<1>1. Calm
  BY OnNothing DEF Init, Calm
<1>2. UnfinishedUsed
  BY DEF Init, UnfinishedUsed, Queued, NoPublishes
<1> QED
  BY <1>1, <1>2, InitIInv, CalmIds DEF IdsSound

-----------------------------------------------------------------------------
(* Packet ids: connections                                                   *)

LEMMA StageOfOthers ==
    ASSUME Turns, NEW k \in Conns, NEW s, stage' = [stage EXCEPT ![k] = s]
    PROVE  stage'[k] = s /\ \A j \in Conns : j # k => stage'[j] = stage[j]
  BY DEF Turns, IInv, TypeOK, ConnectionsType

LEMMA AssignIds ==
    ASSUME InTurn, Turns, Turns', IdsSound, NEW k \in Conns, Assign(k)
    PROVE  IdsSound'
<1>1. /\ stage[k] = "unused" /\ \A j \in Conns : j < k => stage[j] = "dead"
      /\ ThreadFree
      /\ stage' = [stage EXCEPT ![k] = "assigned"] /\ out' = <<>>
      /\ UNCHANGED <<usedIds, outgoingQoS2, queue, destroyOnDisconnect, in, pc, receivedRec,
                     pending>>
  BY DEF Assign, InTurn, qosData, writers
<1>2. stage'[k] = "assigned" /\ \A j \in Conns : j # k => stage'[j] = stage[j]
  BY <1>1, StageOfOthers
<1>3. \A j \in Conns : stage[j] # "live"
  BY <1>1 DEF Turns, ConnsInTurn, Conns
<1>4. (\A j \in Conns : in[j] = <<>>) /\ (\A j \in Conns : receivedRec[j] = 0)
      /\ \A t \in Publishers : pc[t] = "idle"
  BY <1>1, <1>3, CalmWithoutLive, NobodyBusy DEF IdsSound, Turns
<1>5. Calm'
  BY <1>1, <1>4, OnNothing DEF Calm
<1>6. UnfinishedUsed'
  <2>1. QueueCounts' => QueueCounts
    BY <1>1, <1>2 DEF QueueCounts, Greeting
  <2> QED
    BY <1>1, <1>2, <2>1, UnfinishedFrame DEF IdsSound
<1> QED
  BY <1>5, <1>6, CalmAfter DEF IdsSound, Turns

LEMMA CloseIds ==
    ASSUME InTurn, Turns, Turns', IdsSound, NEW k \in Conns, Close(k)
    PROVE  IdsSound'
<1>1. /\ stage[k] = "live" /\ ThreadFree
      /\ stage' = [stage EXCEPT ![k] = "dead"]
      /\ in' = [in EXCEPT ![k] = <<>>]
      /\ out' = IF k = peerConn THEN <<>> ELSE out
      /\ UNCHANGED <<usedIds, outgoingQoS2, queue, destroyOnDisconnect, pc, receivedRec, pending>>
  BY DEF Close, qosData, session, writers
<1>2. stage'[k] = "dead" /\ \A j \in Conns : j # k => stage'[j] = stage[j]
  BY <1>1, StageOfOthers
<1>3. k = peerConn /\ \A j \in Conns : j # k => stage[j] # "live"
  BY <1>1 DEF Turns, ConnsInTurn, Opened
<1>4. (\A j \in Conns : receivedRec[j] = 0) /\ \A t \in Publishers : pc[t] = "idle"
  BY <1>1, NobodyBusy DEF Turns
<1>5. in \in [Conns -> Seq(Acks)]
  BY DEF Turns, IInv, TypeOK, NetworkType
<1>6. \A j \in Conns : in'[j] = <<>>
  BY <1>1, <1>3, <1>5 DEF IdsSound, NetworkInTurn
<1>7. Calm'
  BY <1>1, <1>3, <1>4, <1>6, OnNothing DEF Calm
<1>8. UnfinishedUsed'
  <2>1. QueueCounts' => QueueCounts
    BY <1>1, <1>2 DEF QueueCounts, Greeting
  <2> QED
    BY <1>1, <1>2, <2>1, UnfinishedFrame DEF IdsSound
<1> QED
  BY <1>7, <1>8, CalmAfter DEF IdsSound, Turns

LEMMA SetSessionPropertiesIds ==
    ASSUME InTurn, Turns, Turns', IdsSound, NEW k \in Conns, SetSessionProperties(k)
    PROVE  IdsSound'
<1>1. /\ stage[k] = "assigned" /\ stage' = [stage EXCEPT ![k] = "registered"]
      /\ UNCHANGED <<usedIds, outgoingQoS2, queue, in, out, pc, receivedRec, pending>>
  BY DEF SetSessionProperties, writers, network
<1>2. stage'[k] = "registered" /\ \A j \in Conns : j # k => stage'[j] = stage[j]
  BY <1>1, StageOfOthers
<1>3. Calm
  BY <1>1, CalmAtGreeting DEF IdsSound
<1>4. Calm'
  BY <1>1, <1>3 DEF Calm
<1>5. UnfinishedUsed'
  <2>1. QueueCounts
    BY <1>1 DEF QueueCounts, Turns, DestroyedForGood
  <2> QED
    BY <1>1, <1>2, <2>1, UnfinishedFrame DEF IdsSound
<1> QED
  BY <1>4, <1>5, CalmAfter DEF IdsSound, Turns

LEMMA SendConnackIds ==
    ASSUME InTurn, Turns, Turns', IdsSound, NEW k \in Conns, SendConnack(k)
    PROVE  IdsSound'
<1>1. /\ stage[k] = "registered" /\ stage' = [stage EXCEPT ![k] = "acknowledged"]
      /\ Send(k, <<ConnAck(present[k])>>)
      /\ UNCHANGED <<usedIds, outgoingQoS2, queue, destroyOnDisconnect, in, pc, receivedRec,
                     pending>>
  BY DEF SendConnack, qosData, session, writers
<1>2. stage'[k] = "acknowledged" /\ \A j \in Conns : j # k => stage'[j] = stage[j]
  BY <1>1, StageOfOthers
<1>3. Calm
  BY <1>1, CalmAtGreeting DEF IdsSound
<1>4. IdsOn(out') \subseteq {0}
  <2> DEFINE hello == <<ConnAck(present[k])>>
  <2>1. present[k] \in BOOLEAN
    BY Zenon DEF Turns, IInv, TypeOK, ConnectionsType
  <2>2. hello \in Seq(Packets)
    BY <2>1, PacketTypes, Zenon
  <2>3. IdsOn(hello) = {0}
    <3>1. ConnAck(present[k]).id = 0
      BY DEF ConnAck
    <3> QED
      BY <3>1, OnOne
  <2>4. out \in Seq(Packets)
    BY DEF Turns, IInv, TypeOK, NetworkType
  <2>5. out' = out \o hello \/ out' = out
    BY <1>1 DEF Send
  <2> HIDE DEF hello
  <2>6. IdsOn(out \o hello) = IdsOn(out) \cup IdsOn(hello)
    BY <2>2, <2>4, OnConcat DEF IdsOn
  <2> QED
    BY <1>3, <2>3, <2>5, <2>6 DEF Calm
<1>5. Calm'
  BY <1>1, <1>3, <1>4 DEF Calm
<1>6. UnfinishedUsed'
  <2>1. QueueCounts
    BY <1>1 DEF QueueCounts, Greeting
  <2> QED
    BY <1>1, <1>2, <2>1, UnfinishedFrame DEF IdsSound
<1> QED
  BY <1>5, <1>6, CalmAfter DEF IdsSound, Turns

LEMMA PickClientIds ==
    ASSUME InTurn, Turns, Turns', IdsSound, NEW k \in Conns, PickClient(k)
    PROVE  IdsSound'
<1>1. /\ stage[k] = "acknowledged"
      /\ \E s \in {"live", "picked"} : stage' = [stage EXCEPT ![k] = s]
      /\ UNCHANGED <<usedIds, outgoingQoS2, queue, destroyOnDisconnect, in, out, pc, receivedRec>>
  BY DEF PickClient, qosData, session, writers, network
<1>2. stage'[k] \in {"live", "picked"} /\ \A j \in Conns : j # k => stage'[j] = stage[j]
  BY <1>1, StageOfOthers
<1>3. Calm /\ \A j \in Conns : j # k => stage[j] \in {"unused", "dead"}
  BY <1>1, CalmAtGreeting DEF IdsSound
<1>4. Calm'
  BY <1>1, <1>3 DEF Calm
<1>5. UnfinishedUsed'
  <2>1. QueueCounts
    BY <1>1 DEF QueueCounts, Greeting
  <2>2. \A j \in Conns : stage'[j] # "copied"
    BY <1>2, <1>3
  <2> QED
    BY <1>1, <2>1, <2>2, UnfinishedFrame DEF IdsSound
<1> QED
  BY <1>4, <1>5, CalmAfter DEF IdsSound, Turns

LEMMA CopyPendingIds ==
    ASSUME InTurn, Turns, Turns', IdsSound, NEW k \in Conns, CopyPending(k)
    PROVE  IdsSound'
<1>1. PICK gone :
         /\ queue' = Without(queue, Queued \ Kept(gone))
         /\ usedIds' = usedIds \ (Queued \ Kept(gone))
         /\ pending' = [pending EXCEPT ![k] =
                           [to |-> pending[k].to,
                            publishes |-> [id \in Kept(gone) |-> queue[id]],
                            releases |-> outgoingQoS2]]
  BY DEF CopyPending
<1>2. /\ stage[k] = "picked" /\ stage' = [stage EXCEPT ![k] = "copied"]
      /\ UNCHANGED <<outgoingQoS2, destroyOnDisconnect, in, out, pc, receivedRec>>
  BY DEF CopyPending, session, writers, network
<1> DEFINE kept == Kept(gone)
<1>3. kept \subseteq Queued
  BY DEF Kept
<1>4. Queued \subseteq usedIds \ outgoingQoS2 /\ outgoingQoS2 \subseteq usedIds
  <2>1. QueueCounts
    BY <1>2 DEF QueueCounts, Greeting
  <2> QED
    BY <2>1 DEF IdsSound, UnfinishedUsed
<1>5. Calm /\ \A j \in Conns : j # k => stage[j] \in {"unused", "dead"}
  BY <1>2, CalmAtGreeting DEF IdsSound
<1>6. Calm'
  BY <1>2, <1>5 DEF Calm
<1>7. stage'[k] = "copied" /\ \A j \in Conns : j # k => stage'[j] = stage[j]
  BY <1>2, StageOfOthers
<1>8. /\ DOMAIN pending'[k].publishes = kept
      /\ pending'[k].releases = outgoingQoS2
  BY <1>1 DEF Turns, IInv, TypeOK, ConnectionsType
<1>9. Queued' = kept
  BY <1>1, <1>3 DEF Queued, Without
<1>10. UnfinishedUsed'
  <2>1. outgoingQoS2' \subseteq usedIds' /\ kept \subseteq usedIds' \ outgoingQoS2'
    BY <1>1, <1>2, <1>3, <1>4
  <2>2. \A j \in Conns : stage'[j] = "copied" => j = k
    BY <1>5, <1>7
  <2> HIDE DEF kept
  <2> QED
    BY <1>2, <1>8, <1>9, <2>1, <2>2 DEF UnfinishedUsed
<1> QED
  BY <1>6, <1>10, CalmAfter DEF IdsSound, Turns

(* The publishes of the queue are sent again once each, the PUBRELs too.     *)
LEMMA InQueueOrderOnce ==
    ASSUME NEW q \in QueueStates, \A i, j \in DOMAIN q : q[i] = q[j] => i = j
    PROVE  /\ OnceEach(InQueueOrder(q))
           /\ \A p \in On(InQueueOrder(q)) :
                 p.type = "PUBLISH" /\ p.id \in DOMAIN q /\ p.msg = q[p.id]
<1> DEFINE S == DOMAIN q
           n == Cardinality(S)
           s == SortedBy(S, q)
<1>1. S \in SUBSET Ids /\ q \in [S -> Msgs]
  BY QueueStateElim
<1>2. IsFiniteSet(S) /\ n \in Nat
  BY <1>1, IdsAreFinite
<1>3. \A x \in S : q[x] \in Int
  BY <1>1 DEF Msgs
<1>4. s \in [1..n -> S] /\ \A i, j \in 1..n : i < j => q[s[i]] < q[s[j]]
  BY <1>2, <1>3, SortedExists
<1>5. Len(InQueueOrder(q)) = n
      /\ \A i \in 1..n : InQueueOrder(q)[i] = Publish(s[i], q[s[i]])
  BY <1>2 DEF InQueueOrder
<1> HIDE DEF S, n, s
<1>6. \A i \in 1..n : InQueueOrder(q)[i].id = s[i]
  BY <1>5 DEF Publish
<1>7. OnceEach(InQueueOrder(q))
  <2> SUFFICES ASSUME NEW i \in 1..n, NEW j \in 1..n, s[i] = s[j] PROVE i = j
    BY <1>5, <1>6 DEF OnceEach
  <2>1. ~ (i < j) /\ ~ (j < i)
    <3>1. q[s[i]] \in Int /\ q[s[i]] = q[s[j]]
      BY <1>3, <1>4
    <3> QED
      BY <1>4, <3>1
  <2> QED
    BY <1>2, <2>1
<1>8. \A i \in 1..n : /\ InQueueOrder(q)[i].type = "PUBLISH"
                      /\ InQueueOrder(q)[i].msg = q[InQueueOrder(q)[i].id]
                      /\ InQueueOrder(q)[i].id \in S
  BY <1>4, <1>5 DEF Publish
<1> QED
  BY <1>5, <1>7, <1>8 DEF On, S

LEMMA ReleasesOnce ==
    ASSUME NEW ids \in SUBSET Ids
    PROVE  /\ OnceEach(Releases(ids))
           /\ \A p \in On(Releases(ids)) : p.type = "PUBREL" /\ p.id \in ids
<1> DEFINE n == Cardinality(ids)
           key == [id \in ids |-> id]
           s == SortedBy(ids, key)
<1>1. IsFiniteSet(ids) /\ n \in Nat
  BY IdsAreFinite
<1>2. (\A x \in ids : key[x] \in Int) /\ (\A x, y \in ids : key[x] = key[y] => x = y)
  BY DEF Ids
<1>3. \A x \in ids : key[x] = x
  OBVIOUS
<1>4. s \in [1..n -> ids] /\ \A i, j \in 1..n : i < j => key[s[i]] < key[s[j]]
  <2> HIDE DEF key
  <2> QED
    BY <1>1, <1>2, SortedExists
<1>5. Len(Releases(ids)) = n /\ \A i \in 1..n : Releases(ids)[i] = PubRel(s[i])
  BY <1>1 DEF Releases
<1> HIDE DEF n, key, s
<1>6. \A i \in 1..n : Releases(ids)[i].id = s[i] /\ Releases(ids)[i].type = "PUBREL"
  BY <1>5 DEF PubRel
<1>7. OnceEach(Releases(ids))
  <2> SUFFICES ASSUME NEW i \in 1..n, NEW j \in 1..n, s[i] = s[j] PROVE i = j
    BY <1>5, <1>6 DEF OnceEach
  <2>1. ~ (i < j) /\ ~ (j < i)
    <3>1. key[s[i]] \in Int /\ key[s[i]] = key[s[j]]
      BY <1>2, <1>4
    <3> QED
      BY <1>4, <3>1
  <2> QED
    BY <1>1, <2>1
<1> QED
  BY <1>4, <1>5, <1>6, <1>7 DEF On

LEMMA WritePendingIds ==
    ASSUME InTurn, Turns, Turns', IdsSound, NEW k \in Conns, WritePending(k)
    PROVE  IdsSound'
<1> DEFINE copied == pending[k].publishes
           released == pending[k].releases
<1>1. PICK skipped : Send(pending[k].to, InQueueOrder(Without(copied, skipped)) \o Releases(released))
  BY DEF WritePending
<1>2. /\ stage[k] = "copied" /\ stage' = [stage EXCEPT ![k] = "live"]
      /\ UNCHANGED <<usedIds, outgoingQoS2, queue, destroyOnDisconnect, in, pc, receivedRec, peerConn>>
  BY DEF WritePending, qosData, session, writers, peer
<1> DEFINE again == InQueueOrder(Without(copied, skipped))
           pubRels == Releases(released)
<1>3. stage'[k] = "live" /\ \A j \in Conns : j # k => stage'[j] = stage[j]
  BY <1>2, StageOfOthers
<1>4. /\ Calm /\ peerConn = k
      /\ (\A t \in Publishers : pc[t] = "idle")
      /\ (\A j \in Conns : j # k => stage[j] \in {"unused", "dead"})
  BY <1>2, CalmAtGreeting DEF IdsSound
<1>5. DOMAIN copied \subseteq usedIds \ outgoingQoS2 /\ released \subseteq outgoingQoS2
      /\ outgoingQoS2 \subseteq usedIds
  BY <1>2 DEF IdsSound, UnfinishedUsed
<1>6. copied \in QueueStates /\ released \in SUBSET Ids /\ out \in Seq(Packets)
  BY DEF Turns, IInv, TypeOK, ConnectionsType, NetworkType, Pendings
<1>7. /\ Without(copied, skipped) \in QueueStates
      /\ DOMAIN Without(copied, skipped) \subseteq DOMAIN copied
      /\ \A i, j \in DOMAIN Without(copied, skipped) :
           Without(copied, skipped)[i] = Without(copied, skipped)[j] => i = j
  <2>1. Without(copied, skipped) \in QueueStates
    BY <1>6, WithoutType
  <2>2. \A i, j \in DOMAIN Without(copied, skipped) :
           Without(copied, skipped)[i] = Without(copied, skipped)[j] => i = j
    BY DEF Turns, IInv, CopiesDistinct, Without
  <2>3. DOMAIN Without(copied, skipped) \subseteq DOMAIN copied
    BY DEF Without
  <2> QED
    BY <2>1, <2>2, <2>3
<1>8. /\ again \in Seq(Packets) /\ OnceEach(again)
      /\ \A p \in On(again) : p.type = "PUBLISH" /\ p.id \in usedIds \ outgoingQoS2
  BY <1>5, <1>7, InQueueOrderType, InQueueOrderOnce
<1>9. /\ pubRels \in Seq(Packets) /\ OnceEach(pubRels)
      /\ \A p \in On(pubRels) : p.type = "PUBREL" /\ p.id \in outgoingQoS2
  BY <1>5, <1>6, ReleasesType, ReleasesOnce
<1>10. out' = out \/ out' = out \o (again \o pubRels)
  BY <1>1 DEF Send
<1> HIDE DEF copied, released, again, pubRels
<1> DEFINE resent == again \o pubRels
<1>11. /\ resent \in Seq(Packets) /\ OnceEach(resent)
       /\ On(resent) = On(again) \cup On(pubRels)
       /\ 0 \notin IdsOn(resent)
  <2>1. IdsOn(again) \cap IdsOn(pubRels) \subseteq {0}
    BY <1>8, <1>9 DEF IdsOn
  <2>2. OnceEach(resent)
    BY <1>8, <1>9, <2>1, OnceConcat
  <2>3. resent \in Seq(Packets)
    BY <1>8, <1>9, ConcatProperties
  <2>4. On(resent) = On(again) \cup On(pubRels)
    BY <1>8, <1>9, OnConcat
  <2>5. \A p \in On(resent) : p.id # 0
    <3>1. usedIds \subseteq Ids
      BY DEF Turns, IInv, TypeOK, QosDataType
    <3>2. 0 \notin usedIds
      BY <3>1 DEF Ids
    <3> QED
      BY <1>5, <1>8, <1>9, <2>4, <3>2
  <2> QED
    BY <2>2, <2>3, <2>4, <2>5 DEF IdsOn
<1> HIDE DEF resent
<1>12. /\ OnceEach(out')
       /\ \A p \in On(out') : \/ p \in On(out)
                              \/ p \in On(again)
                              \/ p \in On(pubRels)
  <2>1. CASE out' = out
    BY <1>4, <2>1, OnceZero DEF Calm
  <2>2. CASE out' = out \o resent
    <3>1. OnceEach(out) /\ IdsOn(out) \cap IdsOn(resent) \subseteq {0}
      BY <1>4, OnceZero DEF Calm
    <3>2. OnceEach(out \o resent)
      BY <1>6, <1>11, <3>1, OnceConcat
    <3>3. On(out \o resent) = On(out) \cup On(resent)
      BY <1>6, <1>11, OnConcat
    <3> QED
      BY <1>11, <2>2, <3>2, <3>3
  <2> QED
    BY <1>10, <2>1, <2>2 DEF resent
<1>13. \A p \in On(out') :
         /\ p.id # 0 => p.id \in usedIds
         /\ p.type = "PUBLISH" => p.id \notin outgoingQoS2
  <2>1. CarriedIdsAreUsed
    BY DEF IdsSound
  <2> QED
    BY <1>5, <1>8, <1>9, <1>12, <2>1 DEF CarriedIdsAreUsed
<1>14. \A j \in Conns : in'[j] = <<>> /\ receivedRec'[j] = 0
  BY <1>2, <1>4 DEF Calm
<1>15. \A j \in Conns : On(in'[j]) = {} /\ IdsOn(in'[j]) = {} /\ OnceEach(in'[j])
  BY <1>14, OnNothing
<1>16. NetworkInTurn'
  BY <1>2, <1>3, <1>4, <1>14 DEF NetworkInTurn
<1>17. EachIdOnce'
  BY <1>2, <1>4, <1>12, <1>14, <1>15 DEF EachIdOnce
<1>18. CarriedIdsAreUsed'
  BY <1>2, <1>4, <1>13, <1>14, <1>15 DEF CarriedIdsAreUsed
<1>19. UnfinishedUsed'
  <2>1. QueueCounts
    BY <1>2 DEF QueueCounts, Greeting
  <2>2. \A j \in Conns : stage'[j] # "copied"
    BY <1>3, <1>4
  <2> QED
    BY <1>2, <2>1, <2>2, UnfinishedFrame DEF IdsSound
<1> QED
  BY <1>16, <1>17, <1>18, <1>19 DEF IdsSound

-----------------------------------------------------------------------------
(* Packet ids: Session::writePacket                                          *)

(* Cleared publishes give their ids back while no connection is open, so     *)
(* that no packet with such an id is on the way.                             *)
LEMMA ClearedIds ==
    ASSUME Turns, IdsSound, NEW t \in Publishers, pc[t] = "lock", NEW cleared \in Clearable(t)
    PROVE  /\ \/ cleared = {}
              \/ Calm
           /\ cleared \subseteq Queued
           /\ outgoingQoS2 \subseteq usedIds \ cleared
<1>1. cleared \subseteq Queued
  BY DEF Clearable, ExpiredInQueue
<1>2. CASE cleared = {}
  BY <1>1, <1>2 DEF IdsSound, UnfinishedUsed
<1>3. CASE cleared # {}
  <2>1. heldClient[t] = 0
    BY <1>3 DEF Clearable
  <2>2. ~destroyOnDisconnect /\ \A k \in Conns : stage[k] # "live"
    BY <2>1 DEF Turns, HandlersInTurn
  <2>3. \A u \in Publishers : pc[u] # "write"
    BY DEF Turns, HandlersInTurn
  <2>4. Calm
    BY <2>2, <2>3, CalmWithoutLive DEF IdsSound, Calm
  <2>5. Queued \subseteq usedIds \ outgoingQoS2 /\ outgoingQoS2 \subseteq usedIds
    BY <2>2 DEF IdsSound, UnfinishedUsed, QueueCounts
  <2> QED
    BY <1>1, <2>4, <2>5
<1> QED
  BY <1>2, <1>3

LEMMA DropForQuotaIds ==
    ASSUME InTurn, Turns, Turns', IdsSound, NEW t \in Publishers, DropForQuota(t)
    PROVE  IdsSound'
<1>1. PICK cleared \in Clearable(t) :
         usedIds' = usedIds \ cleared /\ queue' = Without(queue, cleared)
  BY DEF DropForQuota, IncreaseFlowControlQuota
<1>2. /\ pc[t] = "lock" /\ pc' = [pc EXCEPT ![t] = "idle"]
      /\ packetId' = [packetId EXCEPT ![t] = 0]
      /\ UNCHANGED <<outgoingQoS2, destroyOnDisconnect, stage, pending, receivedRec, out, in,
                     peerConn>>
  BY DEF DropForQuota, FinishWrite, session, connections, network, peer
<1>3. \A u \in Publishers : pc'[u] = IF u = t THEN "idle" ELSE pc[u]
  BY <1>2 DEF Turns, IInv, TypeOK, WritersType
<1>4. \A u \in Publishers : pc'[u] # "write"
  BY <1>2, <1>3 DEF Turns, HandlersInTurn
<1>5. /\ cleared = {} \/ Calm
      /\ cleared \subseteq Queued
      /\ outgoingQoS2 \subseteq usedIds \ cleared
  BY <1>2, ClearedIds
<1>6. Queued' = Queued \ cleared
  BY <1>1 DEF Queued, Without
<1>7. UnfinishedUsed'
  <2>1. QueueCounts' => QueueCounts
    BY <1>2 DEF QueueCounts, Greeting
  <2>2. \A k \in Conns : stage[k] # "copied"
    BY <1>2 DEF Turns, HandlersInTurn
  <2> QED
    BY <1>1, <1>2, <1>5, <1>6, <2>1, <2>2 DEF IdsSound, UnfinishedUsed
<1>8. CASE cleared = {}
  <2>1. NetworkInTurn'
    BY <1>2 DEF IdsSound, NetworkInTurn
  <2>2. EachIdOnce'
    BY <1>2, <1>4 DEF IdsSound, EachIdOnce
  <2>3. CarriedIdsAreUsed'
    BY <1>1, <1>2, <1>4, <1>6, <1>8 DEF IdsSound, CarriedIdsAreUsed
  <2> QED
    BY <1>7, <2>1, <2>2, <2>3 DEF IdsSound
<1>9. CASE Calm
  <2>1. Calm'
    BY <1>2, <1>4, <1>9 DEF Calm
  <2> QED
    BY <1>7, <2>1, CalmAfter DEF IdsSound, Turns
<1> QED
  BY <1>5, <1>8, <1>9

LEMMA TakeIdIds ==
    ASSUME InTurn, Turns, Turns', IdsSound, NEW t \in Publishers, TakeId(t)
    PROVE  IdsSound'
<1>1. PICK cleared \in Clearable(t) :
         /\ IdAvailable(usedIds \ cleared, IncreasedQuota(cleared))
         /\ usedIds' = (usedIds \ cleared) \cup {FirstFree(usedIds \ cleared)}
         /\ packetId' = [packetId EXCEPT ![t] = FirstFree(usedIds \ cleared)]
         /\ queue' = IF destroyOnDisconnect THEN Without(queue, cleared)
                     ELSE [i \in DOMAIN Without(queue, cleared) \cup {FirstFree(usedIds \ cleared)} |->
                             IF i = FirstFree(usedIds \ cleared) THEN msg[t]
                             ELSE Without(queue, cleared)[i]]
  BY DEF TakeId
<1>2. /\ pc[t] = "lock" /\ pc' = [pc EXCEPT ![t] = "write"]
      /\ UNCHANGED <<outgoingQoS2, destroyOnDisconnect, stage, pending, receivedRec, out, in,
                     peerConn>>
  BY DEF TakeId, session, connections, network, peer
<1> DEFINE id == FirstFree(usedIds \ cleared)
<1>3. \A u \in Publishers : pc'[u] = "write" => u = t
  BY <1>2 DEF Turns, HandlersInTurn, IInv, TypeOK, WritersType
<1>4. /\ cleared = {} \/ Calm
      /\ cleared \subseteq Queued
      /\ outgoingQoS2 \subseteq usedIds \ cleared
  BY <1>2, ClearedIds
<1>5. id \in Ids \ (usedIds \ cleared) /\ id # 0
  <2>1. nextPacketId \in 0..MaxId
    BY DEF Turns, IInv, TypeOK, QosDataType
  <2>2. id \in Ids \ (usedIds \ cleared)
    BY <1>1, <2>1, FirstFreeIsFree DEF IdAvailable
  <2> QED
    BY <2>2 DEF Ids
<1>6. packetId'[t] = id
  BY <1>1 DEF Turns, IInv, TypeOK, WritersType
<1>7. usedIds' = (usedIds \ cleared) \cup {id} /\ id \notin outgoingQoS2
  BY <1>1, <1>4, <1>5
<1>8. Queued' = IF destroyOnDisconnect THEN Queued \ cleared ELSE (Queued \ cleared) \cup {id}
  BY <1>1 DEF Queued, Without
<1> HIDE DEF id
<1>9. UnfinishedUsed'
  <2>1. QueueCounts' => QueueCounts
    BY <1>2 DEF QueueCounts, Greeting
  <2>2. \A k \in Conns : stage[k] # "copied"
    BY <1>2 DEF Turns, HandlersInTurn
  <2> QED
    BY <1>2, <1>4, <1>7, <1>8, <2>1, <2>2 DEF IdsSound, UnfinishedUsed
<1>10. \A k \in Conns : receivedRec[k] = 0
  BY <1>2 DEF Turns, HandlersInTurn
<1>11. NetworkInTurn'
  BY <1>2 DEF IdsSound, NetworkInTurn
<1>12. id \notin IdsOn(out) /\ \A k \in Conns : id \notin IdsOn(in[k])
  <2>1. CASE cleared = {}
    <3>1. id \notin usedIds
      BY <1>5, <2>1
    <3> QED
      BY <1>5, <3>1 DEF IdsSound, CarriedIdsAreUsed, IdsOn
  <2>2. CASE Calm
    BY <1>5, <2>2, OnNothing DEF Calm
  <2> QED
    BY <1>4, <2>1, <2>2
<1>13. EachIdOnce'
  BY <1>2, <1>3, <1>6, <1>12 DEF IdsSound, EachIdOnce
<1>14. CarriedIdsAreUsed'
  <2>1. /\ \A p \in On(out) : p.id # 0 => p.id \in usedIds \ cleared
        /\ \A k \in Conns : \A a \in On(in[k]) : a.id \in usedIds \ cleared
    <3>1. CASE cleared = {}
      BY <3>1 DEF IdsSound, CarriedIdsAreUsed
    <3>2. CASE Calm
      BY <3>2, OnNothing DEF Calm, IdsOn
    <3> QED
      BY <1>4, <3>1, <3>2
  <2> QED
    BY <1>2, <1>3, <1>6, <1>7, <1>10, <2>1 DEF IdsSound, CarriedIdsAreUsed
<1> QED
  BY <1>9, <1>11, <1>13, <1>14 DEF IdsSound

LEMMA WriteToClientIds ==
    ASSUME InTurn, Turns, Turns', IdsSound, NEW t \in Publishers, WriteToClient(t)
    PROVE  IdsSound'
<1>1. /\ pc[t] = "write" /\ pc' = [pc EXCEPT ![t] = "idle"]
      /\ UNCHANGED <<usedIds, outgoingQoS2, queue, destroyOnDisconnect, stage, pending,
                     receivedRec, in, peerConn>>
  BY DEF WriteToClient, FinishWrite, qosData, session, connections, peer
<1>2. \A u \in Publishers : pc'[u] # "write"
  BY <1>1 DEF Turns, HandlersInTurn, IInv, TypeOK, WritersType
<1>3. UnfinishedUsed'
  BY <1>1, UnfinishedFrame DEF IdsSound, QueueCounts, Greeting
<1>4. CASE out' = out
  <2>1. NetworkInTurn'
    BY <1>1, <1>4 DEF IdsSound, NetworkInTurn
  <2>2. EachIdOnce'
    BY <1>1, <1>2, <1>4 DEF IdsSound, EachIdOnce
  <2>3. CarriedIdsAreUsed'
    BY <1>1, <1>2, <1>4 DEF IdsSound, CarriedIdsAreUsed, Queued
  <2> QED
    BY <1>3, <2>1, <2>2, <2>3 DEF IdsSound
<1>5. CASE out' # out
  <2> DEFINE p == Publish(packetId[t], msg[t])
  <2>1. /\ out' = out \o <<p>> /\ heldClient[t] = peerConn /\ peerConn # 0
        /\ stage[peerConn] # "dead"
    BY <1>5 DEF WriteToClient, Send
  <2>2. packetId[t] \in Ids /\ msg[t] \in Msgs
    BY <1>1, BoundsAssumption
       DEF Turns, IInv, TypeOK, WorldType, WritersHaveIds, MessagesDistinct, Msgs
  <2>3. /\ <<p>> \in Seq(Packets) /\ p.id = packetId[t] /\ out \in Seq(Packets)
        /\ IdsOn(<<p>>) = {packetId[t]} /\ On(<<p>>) = {p} /\ OnceEach(<<p>>)
    <3>1. <<p>> \in Seq(Packets)
      BY <2>2, PacketTypes
    <3>2. p.id = packetId[t]
      BY DEF Publish
    <3> HIDE DEF p
    <3> QED
      BY <3>1, <3>2, OnOne DEF Turns, IInv, TypeOK, NetworkType
  <2> HIDE DEF p
  <2> DEFINE one == <<p>>
  <2>4. packetId[t] \in usedIds \ outgoingQoS2
    BY <1>1 DEF IdsSound, CarriedIdsAreUsed
  <2>5. peerConn \in Conns /\ stage[peerConn] = "live"
    <3>1. peerConn \in Conns
      BY <2>1 DEF Turns, IInv, TypeOK, PeerType, Conns
    <3>2. stage[peerConn] \in {"unused", "live", "dead"}
      BY <1>1, <3>1 DEF Turns, HandlersInTurn
    <3>3. stage[peerConn] # "unused"
      BY <3>1 DEF Turns, ConnsInTurn
    <3> QED
      BY <2>1, <3>1, <3>2, <3>3
  <2>6. packetId[t] \notin IdsOn(out) /\ \A k \in Conns : packetId[t] \notin IdsOn(in[k])
    BY <1>1, <2>5 DEF IdsSound, EachIdOnce
  <2>7. OnceEach(out') /\ IdsOn(out') = IdsOn(out) \cup {packetId[t]} /\ On(out') = On(out) \cup {p}
    <3>1. OnceEach(out)
      BY DEF IdsSound, EachIdOnce
    <3>2. one \in Seq(Packets) /\ OnceEach(one) /\ IdsOn(one) = {packetId[t]} /\ On(one) = {p}
      BY <2>3
    <3>3. out' = out \o one
      BY <2>1
    <3> HIDE DEF one
    <3>4. IdsOn(out) \cap IdsOn(one) \subseteq {0}
      BY <2>6, <3>2
    <3> QED
      BY <2>3, <3>1, <3>2, <3>3, <3>4, OnceConcat, OnConcat
  <2>8. NetworkInTurn'
    BY <1>1, <2>5 DEF IdsSound, NetworkInTurn
  <2>9. EachIdOnce'
    <3>1. \A k \in Conns : receivedRec[k] = 0
      BY <1>1 DEF Turns, HandlersInTurn
    <3> QED
      BY <1>1, <1>2, <2>6, <2>7, <3>1 DEF IdsSound, EachIdOnce
  <2>10. CarriedIdsAreUsed'
    BY <1>1, <1>2, <2>3, <2>4, <2>7 DEF IdsSound, CarriedIdsAreUsed, Queued
  <2> QED
    BY <1>3, <2>8, <2>9, <2>10 DEF IdsSound
<1> QED
  BY <1>4, <1>5

-----------------------------------------------------------------------------
(* Packet ids: acknowledgements                                              *)

(* The acknowledgement that is taken was the only packet with its id.        *)
LEMMA AckTaken ==
    ASSUME InTurn, Turns, IdsSound, NEW k \in Conns, NEW type, Received(k, type),
           NEW id, id = Head(in[k]).id
    PROVE  /\ id \in Ids /\ id # 0 /\ stage[k] = "live" /\ k = peerConn
           /\ \A t \in Publishers : pc[t] = "idle"
           /\ \A j \in Conns : receivedRec[j] = 0
           /\ \A j \in Conns : /\ OnceEach(in'[j])
                               /\ On(in'[j]) \subseteq On(in[j])
                               /\ IdsOn(in'[j]) \subseteq IdsOn(in[j]) \ {id}
                               /\ j # k => in'[j] = <<>>
           /\ id \in usedIds
           /\ type # "PUBCOMP" => id \notin outgoingQoS2
           /\ id \notin IdsOn(out)
<1>1. /\ stage[k] = "live" /\ ThreadFree /\ in[k] # <<>> /\ Head(in[k]).type = type
      /\ in' = [in EXCEPT ![k] = Tail(in[k])]
  BY DEF Received
<1>2. in \in [Conns -> Seq(Acks)] /\ in[k] \in Seq(Acks)
  BY DEF Turns, IInv, TypeOK, NetworkType
<1>3. in'[k] = Tail(in[k]) /\ \A j \in Conns : j # k => in'[j] = in[j]
  BY <1>1, <1>2
<1>4. k = peerConn /\ \A j \in Conns : j # k => stage[j] # "live"
  BY <1>1 DEF Turns, ConnsInTurn, Opened
<1>5. \A j \in Conns : j # k => in[j] = <<>> /\ in'[j] = <<>>
  BY <1>3, <1>4 DEF IdsSound, NetworkInTurn
<1>6. Head(in[k]) \in On(in[k]) /\ On(Tail(in[k])) \subseteq On(in[k])
  BY <1>1, <1>2, OnTail
<1>7. id \in Ids /\ id # 0
  <2>1. On(in[k]) \subseteq Acks
    BY <1>2, OnType
  <2> QED
    BY <1>6, <2>1, AckIds
<1>8. OnceEach(Tail(in[k])) /\ IdsOn(Tail(in[k])) \subseteq IdsOn(in[k]) \ {id}
  <2>1. OnceEach(in[k])
    BY DEF IdsSound, EachIdOnce
  <2> QED
    BY <1>1, <1>2, <1>7, <2>1, OnceTail
<1>9. \A j \in Conns : /\ OnceEach(in'[j])
                       /\ On(in'[j]) \subseteq On(in[j])
                       /\ IdsOn(in'[j]) \subseteq IdsOn(in[j]) \ {id}
                       /\ j # k => in'[j] = <<>>
  <2> SUFFICES ASSUME NEW j \in Conns
               PROVE  /\ OnceEach(in'[j])
                      /\ On(in'[j]) \subseteq On(in[j])
                      /\ IdsOn(in'[j]) \subseteq IdsOn(in[j]) \ {id}
                      /\ j # k => in'[j] = <<>>
    OBVIOUS
  <2>1. CASE j = k
    BY <1>3, <1>6, <1>8, <2>1
  <2>2. CASE j # k
    BY <1>5, <2>2, OnNothing
  <2> QED
    BY <2>1, <2>2
<1>10. id \in usedIds /\ (type # "PUBCOMP" => id \notin outgoingQoS2)
  BY <1>1, <1>6 DEF IdsSound, CarriedIdsAreUsed
<1>11. id \in IdsOn(in[k])
  BY <1>6 DEF IdsOn
<1>12. id \notin IdsOn(out)
  BY <1>11 DEF IdsSound, EachIdOnce
<1> QED
  BY <1>1, <1>4, <1>7, <1>9, <1>10, <1>12, NobodyBusy DEF Turns

(* Its id may be given back, or move from the queue to outgoingQoS2.         *)
LEMMA AckKeepsIds ==
    ASSUME InTurn, Turns, IdsSound, NEW k \in Conns, NEW type, Received(k, type),
           NEW id, id = Head(in[k]).id,
           usedIds \ {id} \subseteq usedIds',
           outgoingQoS2' \subseteq outgoingQoS2,
           UNCHANGED <<destroyOnDisconnect, stage, pc, pending, out, peerConn>>,
           \A j \in Conns : receivedRec'[j] # 0 =>
              /\ j = k /\ receivedRec'[j] = id /\ usedIds' = usedIds
              /\ type # "PUBCOMP" /\ (~destroyOnDisconnect => id \notin Queued')
    PROVE  NetworkInTurn' /\ EachIdOnce' /\ CarriedIdsAreUsed'
<1>1. /\ id \in Ids /\ id # 0 /\ stage[k] = "live" /\ k = peerConn
      /\ \A t \in Publishers : pc[t] = "idle"
      /\ \A j \in Conns : /\ OnceEach(in'[j])
                          /\ On(in'[j]) \subseteq On(in[j])
                          /\ IdsOn(in'[j]) \subseteq IdsOn(in[j]) \ {id}
                          /\ j # k => in'[j] = <<>>
      /\ id \in usedIds
      /\ type # "PUBCOMP" => id \notin outgoingQoS2
      /\ id \notin IdsOn(out)
  BY AckTaken
<1>2. NetworkInTurn'
  BY <1>1 DEF NetworkInTurn
<1>3. EachIdOnce'
  BY <1>1 DEF IdsSound, EachIdOnce
<1>4. \A p \in On(out) : p.id # id
  BY <1>1 DEF IdsOn
<1>5. \A j \in Conns : \A a \in On(in'[j]) : a \in On(in[j]) /\ a.id # id
  BY <1>1 DEF IdsOn
<1>6. CarriedIdsAreUsed'
  BY <1>1, <1>4, <1>5 DEF IdsSound, CarriedIdsAreUsed
<1> QED
  BY <1>2, <1>3, <1>6

LEMMA NoneGreets ==
    ASSUME Turns, NEW k \in Conns, stage[k] = "live"
    PROVE  \A j \in Conns : ~Greeting(j)
  BY DEF Turns, ConnsInTurn, Opened, Greeting

LEMMA HandleFinalAckIds ==
    ASSUME InTurn, Turns, Turns', IdsSound, NEW k \in Conns,
           HandlePubAck(k) \/ HandlePubRecError(k)
    PROVE  IdsSound'
<1> DEFINE id == Head(in[k]).id
<1>1. PICK type \in {"PUBACK", "PUBREC_ERROR"} : Received(k, type)
  BY DEF HandlePubAck, HandlePubRecError
<1>2. /\ ClearQosMessage(id, TRUE)
      /\ UNCHANGED <<destroyOnDisconnect, stage, pc, pending, out, peerConn, receivedRec>>
  BY DEF HandlePubAck, HandlePubRecError, session, writers, connections, peer
<1>3. /\ stage[k] = "live" /\ (\A j \in Conns : receivedRec[j] = 0)
      /\ id \in usedIds /\ id \notin outgoingQoS2
  BY <1>1, AckTaken
<1>4. /\ outgoingQoS2' = outgoingQoS2
      /\ queue' = IF destroyOnDisconnect THEN queue ELSE Without(queue, {id})
      /\ IF destroyOnDisconnect \/ id \in Queued THEN usedIds' = usedIds \ {id}
                                                 ELSE usedIds' = usedIds
  BY <1>2 DEF ClearQosMessage, IncreaseFlowControlQuota
<1> HIDE DEF id
<1>5. usedIds \ {id} \subseteq usedIds' /\ \A j \in Conns : receivedRec'[j] = 0
  BY <1>2, <1>3, <1>4
<1>6. NetworkInTurn' /\ EachIdOnce' /\ CarriedIdsAreUsed'
  BY <1>1, <1>2, <1>4, <1>5, AckKeepsIds DEF id
<1>7. UnfinishedUsed'
  <2>1. \A j \in Conns : ~Greeting(j) /\ stage'[j] # "copied"
    BY <1>2, <1>3, NoneGreets DEF Greeting
  <2>2. QueueCounts' => ~destroyOnDisconnect
    BY <1>2, <2>1 DEF QueueCounts, Greeting
  <2>3. ~destroyOnDisconnect => Queued' = Queued \ {id}
    BY <1>4 DEF Queued, Without
  <2>4. outgoingQoS2' \subseteq usedIds'
    BY <1>3, <1>4 DEF IdsSound, UnfinishedUsed
  <2>5. ~destroyOnDisconnect => Queued' \subseteq usedIds' \ outgoingQoS2'
    BY <1>4, <2>3 DEF IdsSound, UnfinishedUsed, QueueCounts
  <2> QED
    BY <2>1, <2>2, <2>4, <2>5 DEF UnfinishedUsed
<1> QED
  BY <1>6, <1>7 DEF IdsSound

LEMMA HandlePubRecIds ==
    ASSUME InTurn, Turns, Turns', IdsSound, NEW k \in Conns, HandlePubRec(k)
    PROVE  IdsSound'
<1> DEFINE id == Head(in[k]).id
<1>1. /\ Received(k, "PUBREC") /\ ClearQosMessage(id, FALSE)
      /\ receivedRec' = [receivedRec EXCEPT ![k] = id]
      /\ UNCHANGED <<destroyOnDisconnect, stage, pc, pending, out, peerConn>>
  BY DEF HandlePubRec, session, writers, peer
<1>2. /\ stage[k] = "live" /\ (\A j \in Conns : receivedRec[j] = 0)
      /\ id \in usedIds /\ id \notin outgoingQoS2
  BY <1>1, AckTaken
<1>3. /\ outgoingQoS2' = outgoingQoS2 /\ usedIds' = usedIds
      /\ queue' = IF destroyOnDisconnect THEN queue ELSE Without(queue, {id})
  BY <1>1 DEF ClearQosMessage
<1> HIDE DEF id
<1>4. \A j \in Conns : receivedRec'[j] = IF j = k THEN id ELSE 0
  BY <1>1, <1>2 DEF Turns, IInv, TypeOK, ConnectionsType
<1>5. ~destroyOnDisconnect => Queued' = Queued \ {id}
  BY <1>3 DEF Queued, Without
<1>6. NetworkInTurn' /\ EachIdOnce' /\ CarriedIdsAreUsed'
  BY <1>1, <1>3, <1>4, <1>5, AckKeepsIds DEF id
<1>7. UnfinishedUsed'
  <2>1. \A j \in Conns : ~Greeting(j) /\ stage'[j] # "copied"
    BY <1>1, <1>2, NoneGreets DEF Greeting
  <2>2. QueueCounts' => ~destroyOnDisconnect
    BY <1>1, <2>1 DEF QueueCounts, Greeting
  <2>3. ~destroyOnDisconnect => Queued' \subseteq usedIds' \ outgoingQoS2'
    BY <1>3, <1>5 DEF IdsSound, UnfinishedUsed, QueueCounts
  <2> QED
    BY <1>3, <2>1, <2>2, <2>3 DEF IdsSound, UnfinishedUsed
<1> QED
  BY <1>6, <1>7 DEF IdsSound

LEMMA StoreOutgoingIds ==
    ASSUME InTurn, Turns, Turns', IdsSound, NEW k \in Conns, StoreOutgoingQoS2(k)
    PROVE  IdsSound'
<1> DEFINE id == receivedRec[k]
           p == PubRel(id)
           one == <<p>>
<1>1. /\ id # 0 /\ outgoingQoS2' = outgoingQoS2 \cup {id} /\ Send(k, one)
      /\ receivedRec' = [receivedRec EXCEPT ![k] = 0]
      /\ UNCHANGED <<usedIds, queue, destroyOnDisconnect, stage, pc, pending, in, peerConn>>
  BY DEF StoreOutgoingQoS2, session, writers, peer
<1>2. id \in Ids /\ out \in Seq(Packets) /\ receivedRec \in [Conns -> 0..MaxId]
  BY <1>1, BoundsAssumption DEF Turns, IInv, TypeOK, ConnectionsType, NetworkType, Ids
<1>3. /\ stage[k] = "live" /\ k = peerConn
      /\ (\A j \in Conns : j # k => stage[j] # "live" /\ receivedRec[j] = 0)
      /\ (\A t \in Publishers : pc[t] = "idle")
  <2>1. stage[k] = "live"
    BY <1>1 DEF Turns, HandlersInTurn
  <2>2. k = peerConn /\ \A j \in Conns : j # k => stage[j] # "live"
    BY <2>1 DEF Turns, ConnsInTurn, Opened
  <2>3. (\A j \in Conns : j # k => receivedRec[j] = 0) /\ \A t \in Publishers : pc[t] = "idle"
    BY <1>1, <2>2 DEF Turns, HandlersInTurn
  <2> QED
    BY <2>1, <2>2, <2>3
<1>4. /\ id \in usedIds \ outgoingQoS2 /\ id \notin IdsOn(out)
      /\ (\A j \in Conns : id \notin IdsOn(in[j]))
      /\ (~destroyOnDisconnect => id \notin Queued)
  <2>1. \A j \in Conns : j # k => in[j] = <<>>
    BY <1>3 DEF IdsSound, NetworkInTurn
  <2>2. \A j \in Conns : j # k => IdsOn(in[j]) = {}
    BY <2>1, OnNothing
  <2> QED
    BY <1>1, <2>2 DEF IdsSound, EachIdOnce, CarriedIdsAreUsed
<1>5. \A j \in Conns : receivedRec'[j] = 0
  BY <1>1, <1>2, <1>3
<1>6. p.id = id /\ p.type = "PUBREL" /\ one \in Seq(Packets)
  BY <1>2, PacketTypes DEF PubRel
<1>7. out' = out \o one
  BY <1>1, <1>3 DEF Send
<1>8. IdsOn(one) = {id} /\ On(one) = {p} /\ OnceEach(one)
  BY <1>6, OnOne
<1> HIDE DEF p, one, id
<1>9. OnceEach(out') /\ IdsOn(out') = IdsOn(out) \cup {id} /\ On(out') = On(out) \cup {p}
  <2>1. OnceEach(out) /\ IdsOn(out) \cap IdsOn(one) \subseteq {0}
    BY <1>4, <1>8 DEF IdsSound, EachIdOnce
  <2> QED
    BY <1>2, <1>6, <1>7, <1>8, <2>1, OnceConcat, OnConcat
<1>10. NetworkInTurn'
  BY <1>1, <1>3 DEF IdsSound, NetworkInTurn, Conns
<1>11. EachIdOnce'
  BY <1>1, <1>3, <1>4, <1>5, <1>9 DEF IdsSound, EachIdOnce
<1>12. CarriedIdsAreUsed'
  <2>1. \A q \in On(out) : q.id # id
    BY <1>4 DEF IdsOn
  <2>2. \A j \in Conns : \A a \in On(in[j]) : a.id # id
    BY <1>4 DEF IdsOn
  <2> QED
    BY <1>1, <1>3, <1>4, <1>5, <1>6, <1>9, <2>1, <2>2 DEF IdsSound, CarriedIdsAreUsed
<1>13. UnfinishedUsed'
  <2>1. \A j \in Conns : ~Greeting(j) /\ stage'[j] # "copied"
    BY <1>1, <1>3, NoneGreets DEF Greeting
  <2>2. QueueCounts' => ~destroyOnDisconnect
    BY <1>1, <2>1 DEF QueueCounts, Greeting
  <2>3. ~destroyOnDisconnect => Queued \subseteq usedIds \ outgoingQoS2
    BY DEF IdsSound, UnfinishedUsed, QueueCounts
  <2> QED
    BY <1>1, <1>4, <2>1, <2>2, <2>3 DEF IdsSound, UnfinishedUsed, Queued
<1> QED
  BY <1>10, <1>11, <1>12, <1>13 DEF IdsSound

LEMMA HandlePubCompIds ==
    ASSUME InTurn, Turns, Turns', IdsSound, NEW k \in Conns, HandlePubComp(k)
    PROVE  IdsSound'
<1> DEFINE id == Head(in[k]).id
<1>1. /\ Received(k, "PUBCOMP")
      /\ UNCHANGED <<queue, destroyOnDisconnect, stage, pc, pending, out, peerConn, receivedRec>>
  BY DEF HandlePubComp, session, writers, connections, peer
<1>2. \/ id \in outgoingQoS2 /\ outgoingQoS2' = outgoingQoS2 \ {id} /\ usedIds' = usedIds \ {id}
      \/ outgoingQoS2' = outgoingQoS2 /\ usedIds' = usedIds
  BY DEF HandlePubComp, IncreaseFlowControlQuota
<1>3. stage[k] = "live" /\ \A j \in Conns : receivedRec[j] = 0
  BY <1>1, AckTaken
<1> HIDE DEF id
<1>4. usedIds \ {id} \subseteq usedIds' /\ outgoingQoS2' \subseteq outgoingQoS2
      /\ \A j \in Conns : receivedRec'[j] = 0
  BY <1>1, <1>2, <1>3
<1>5. NetworkInTurn' /\ EachIdOnce' /\ CarriedIdsAreUsed'
  BY <1>1, <1>4, AckKeepsIds DEF id
<1>6. UnfinishedUsed'
  <2>1. \A j \in Conns : ~Greeting(j) /\ stage'[j] # "copied"
    BY <1>1, <1>3, NoneGreets DEF Greeting
  <2>2. QueueCounts' => ~destroyOnDisconnect
    BY <1>1, <2>1 DEF QueueCounts, Greeting
  <2>3. ~destroyOnDisconnect => Queued \subseteq usedIds \ outgoingQoS2
    BY DEF IdsSound, UnfinishedUsed, QueueCounts
  <2>4. outgoingQoS2 \subseteq usedIds
    BY DEF IdsSound, UnfinishedUsed
  <2> QED
    BY <1>1, <1>2, <2>1, <2>2, <2>3, <2>4 DEF UnfinishedUsed, Queued
<1> QED
  BY <1>5, <1>6 DEF IdsSound

-----------------------------------------------------------------------------
(* Packet ids: the device                                                    *)

LEMMA DeviceConnectedIds ==
    ASSUME InTurn, Turns, Turns', IdsSound, DeviceConnected
    PROVE  IdsSound'
<1>1. /\ out # <<>> /\ out' = Tail(out)
      /\ UNCHANGED <<usedIds, outgoingQoS2, queue, destroyOnDisconnect, stage, pending,
                     receivedRec, in, peerConn, packetId, pc>>
  BY DEF DeviceConnected, DeviceTakes, qosData, session, writers, connections
<1>2. out \in Seq(Packets) /\ OnceEach(out)
  BY DEF Turns, IInv, TypeOK, NetworkType, IdsSound, EachIdOnce
<1>3. OnceEach(out') /\ IdsOn(out') \subseteq IdsOn(out) /\ On(out') \subseteq On(out)
  BY <1>1, <1>2, OnceTail, OnTail
<1>4. NetworkInTurn'
  BY <1>1, <1>3 DEF IdsSound, NetworkInTurn
<1>5. EachIdOnce'
  BY <1>1, <1>3 DEF IdsSound, EachIdOnce
<1>6. CarriedIdsAreUsed'
  BY <1>1, <1>3 DEF IdsSound, CarriedIdsAreUsed, Queued
<1>7. UnfinishedUsed'
  BY <1>1, UnfinishedFrame DEF IdsSound, QueueCounts, Greeting
<1> QED
  BY <1>4, <1>5, <1>6, <1>7 DEF IdsSound

(* Each packet is answered once: its id moves from one direction to the other. *)
LEMMA AnswerIds ==
    ASSUME InTurn, Turns, Turns', IdsSound,
           NEW asked \in {"PUBLISH", "PUBREL"}, DeviceTakes(asked),
           NEW answer \in {"PUBACK", "PUBREC", "PUBREC_ERROR", "PUBCOMP"},
           asked = "PUBREL" => answer = "PUBCOMP",
           Answer(answer, Head(out).id),
           UNCHANGED <<usedIds, outgoingQoS2, queue, destroyOnDisconnect, stage, pending,
                       receivedRec, peerConn, packetId, pc>>
    PROVE  IdsSound'
<1> DEFINE id == Head(out).id
           a == Ack(answer, id)
<1>1. out # <<>> /\ out' = Tail(out) /\ Head(out).type = asked
      /\ in' = [in EXCEPT ![peerConn] = Append(in[peerConn], a)]
  BY DEF DeviceTakes, Answer
<1>2. out \in Seq(Packets) /\ in \in [Conns -> Seq(Acks)]
  BY DEF Turns, IInv, TypeOK, NetworkType
<1>3. Head(out) \in On(out) /\ On(out') \subseteq On(out) /\ On(out) \subseteq Packets
  BY <1>1, <1>2, OnTail, OnType
<1>4. id \in Ids /\ id # 0
  <2>1. id \in Ids
    BY <1>1, <1>3, PacketIds
  <2> QED
    BY <2>1 DEF Ids
<1>5. a \in Acks /\ a.id = id /\ a.type = answer
  BY <1>4 DEF Acks, Ack
<1>6. /\ OnceEach(out') /\ IdsOn(out') \subseteq IdsOn(out) \ {id}
  <2>1. OnceEach(out)
    BY DEF IdsSound, EachIdOnce
  <2> QED
    BY <1>1, <1>2, <1>4, <2>1, OnceTail
<1>7. id \in IdsOn(out)
  BY <1>3 DEF IdsOn
<1>8. peerConn \in Conns /\ stage[peerConn] = "live"
  BY <1>4, <1>7 DEF IdsSound, NetworkInTurn
<1>9. id \in usedIds /\ (asked = "PUBLISH" => id \notin outgoingQoS2)
  BY <1>1, <1>3, <1>4 DEF IdsSound, CarriedIdsAreUsed
<1> HIDE DEF a, id
<1>10. /\ On(in'[peerConn]) = On(in[peerConn]) \cup {a}
       /\ IdsOn(in'[peerConn]) = IdsOn(in[peerConn]) \cup {id}
       /\ OnceEach(in'[peerConn])
  <2>1. in'[peerConn] = Append(in[peerConn], a) /\ in[peerConn] \in Seq(Acks)
    BY <1>1, <1>2, <1>8
  <2>2. OnceEach(in[peerConn]) /\ id \notin IdsOn(in[peerConn])
    BY <1>7, <1>8 DEF IdsSound, EachIdOnce
  <2> QED
    BY <1>5, <2>1, <2>2, OnAppend, OnceAppend
<1>11. \A j \in Conns : j # peerConn => in'[j] = in[j]
  BY <1>1, <1>2
<1>12. NetworkInTurn'
  <2>1. \A j \in Conns : in'[j] # <<>> => stage[j] = "live"
    BY <1>8, <1>11 DEF IdsSound, NetworkInTurn
  <2> QED
    BY <1>8, <2>1 DEF NetworkInTurn
<1>13. \A j \in Conns : /\ IdsOn(in'[j]) \subseteq IdsOn(in[j]) \cup {id}
                        /\ On(in'[j]) \subseteq On(in[j]) \cup {a}
                        /\ OnceEach(in'[j])
  <2> SUFFICES ASSUME NEW j \in Conns
               PROVE  /\ IdsOn(in'[j]) \subseteq IdsOn(in[j]) \cup {id}
                      /\ On(in'[j]) \subseteq On(in[j]) \cup {a}
                      /\ OnceEach(in'[j])
    OBVIOUS
  <2>1. CASE j = peerConn
    BY <1>10, <2>1
  <2>2. CASE j # peerConn
    BY <1>11, <2>2 DEF IdsSound, EachIdOnce
  <2> QED
    BY <2>1, <2>2
<1>14. EachIdOnce'
  <2>1. \A j \in Conns : OnceEach(in'[j]) /\ IdsOn(in'[j]) \cap IdsOn(out') = {}
    BY <1>6, <1>13 DEF IdsSound, EachIdOnce
  <2>2. \A j \in Conns :
          receivedRec[j] # 0 => receivedRec[j] \notin IdsOn(out') \cup IdsOn(in'[j])
    BY <1>6, <1>7, <1>13 DEF IdsSound, EachIdOnce
  <2>3. \A t \in Publishers, j \in Conns :
          pc[t] = "write" => packetId[t] \notin IdsOn(out') \cup IdsOn(in'[j])
    BY <1>6, <1>7, <1>13 DEF IdsSound, EachIdOnce
  <2> QED
    BY <1>6, <2>1, <2>2, <2>3 DEF EachIdOnce
<1>15. CarriedIdsAreUsed'
  <2>1. CarriedIdsAreUsed
    BY DEF IdsSound
  <2>2. \A p \in On(out') : p \in On(out)
    BY <1>3
  <2>3. \A j \in Conns : \A b \in On(in'[j]) :
          b.id \in usedIds /\ (b.type # "PUBCOMP" => b.id \notin outgoingQoS2)
    BY <1>5, <1>9, <1>13, <2>1 DEF CarriedIdsAreUsed
  <2> QED
    BY <2>1, <2>2, <2>3 DEF CarriedIdsAreUsed, Queued
<1>16. UnfinishedUsed'
  BY UnfinishedFrame DEF IdsSound, QueueCounts, Greeting
<1> QED
  BY <1>12, <1>14, <1>15, <1>16 DEF IdsSound

LEMMA DeviceIds ==
    ASSUME InTurn, Turns, Turns', IdsSound, DeviceStep
    PROVE  IdsSound'
<1>1. UNCHANGED <<usedIds, outgoingQoS2, queue, destroyOnDisconnect, stage, pending,
                  receivedRec, packetId, pc>>
  BY DEF DeviceStep, DeviceConnected, DeviceReceivesQos1, DeviceReceivesQos2, DeviceRefuses,
     DeviceReleases, qosData, session, writers, connections
<1>2. CASE DeviceReceivesQos1
  <2>1. DeviceTakes("PUBLISH") /\ Answer("PUBACK", Head(out).id) /\ peerConn' = peerConn
    BY <1>2 DEF DeviceReceivesQos1
  <2> QED
    BY <1>1, <2>1, AnswerIds
<1>3. CASE DeviceReceivesQos2
  <2>1. DeviceTakes("PUBLISH") /\ Answer("PUBREC", Head(out).id) /\ peerConn' = peerConn
    BY <1>3 DEF DeviceReceivesQos2
  <2> QED
    BY <1>1, <2>1, AnswerIds
<1>4. CASE DeviceRefuses
  <2>1. DeviceTakes("PUBLISH") /\ Answer("PUBREC_ERROR", Head(out).id) /\ peerConn' = peerConn
    BY <1>4 DEF DeviceRefuses, peer
  <2> QED
    BY <1>1, <2>1, AnswerIds
<1>5. CASE DeviceReleases
  <2>1. DeviceTakes("PUBREL") /\ Answer("PUBCOMP", Head(out).id) /\ peerConn' = peerConn
    BY <1>5 DEF DeviceReleases
  <2> QED
    BY <1>1, <2>1, AnswerIds
<1> QED
  BY <1>2, <1>3, <1>4, <1>5, DeviceConnectedIds DEF DeviceStep

LEMMA IdsStep ==
    ASSUME InTurn, Turns, Turns', IdsSound, [Next]_vars
    PROVE  IdsSound'
<1>1. ASSUME NEW t \in Publishers, WritePacketStep(t) PROVE IdsSound'
  <2>1. CASE BeginWrite(t)
    <3>1. UNCHANGED <<usedIds, outgoingQoS2, queue, destroyOnDisconnect, stage, pending,
                      receivedRec, out, in, peerConn, packetId>>
          /\ pc' = [pc EXCEPT ![t] = "lock"]
      BY <2>1 DEF BeginWrite, qosData, session, connections, network, peer
    <3>2. \A u \in Publishers : pc'[u] = "write" => pc[u] = "write"
      BY <3>1 DEF Turns, IInv, TypeOK, WritersType
    <3> QED
      BY <3>1, <3>2, SameIds
  <2> QED
    BY <1>1, <2>1, DropForQuotaIds, TakeIdIds, WriteToClientIds DEF WritePacketStep
<1>2. ASSUME NEW k \in Conns, Assign(k) \/ ConnectStep(k) \/ AckStep(k) \/ Close(k)
      PROVE  IdsSound'
  BY <1>2, AssignIds, SetSessionPropertiesIds, SendConnackIds, PickClientIds, CopyPendingIds,
     WritePendingIds, HandleFinalAckIds, HandlePubRecIds, StoreOutgoingIds, HandlePubCompIds,
     CloseIds DEF ConnectStep, AckStep
<1>3. ASSUME NEW m \in Msgs, Expire(m) PROVE IdsSound'
  <2>1. UNCHANGED <<usedIds, outgoingQoS2, queue, destroyOnDisconnect, stage, pending,
                    receivedRec, out, in, peerConn, packetId, pc>>
    BY <1>3 DEF Expire, qosData, session, writers, connections, network, peer
  <2> QED
    BY <2>1, SameIds
<1>4. CASE Finished \/ UNCHANGED vars
  <2>1. UNCHANGED <<usedIds, outgoingQoS2, queue, destroyOnDisconnect, stage, pending,
                    receivedRec, out, in, peerConn, packetId, pc>>
    BY <1>4 DEF Finished, vars, qosData, session, writers, connections, network, peer
  <2> QED
    BY <2>1, SameIds
<1>5. ~Restart
  BY DEF Restart, InTurn, Turns, IInv, TypeOK, WorldType
<1> QED
  BY <1>1, <1>2, <1>3, <1>4, <1>5, DeviceIds DEF Next

LEMMA IdsHold == ASSUME InTurn PROVE Spec => [](Turns /\ IdsSound)
<1>1. Turns /\ Turns' /\ IdsSound /\ [Next]_vars => IdsSound'
  BY IdsStep
<1> QED
  BY InitIds, TurnsHold, <1>1, PTL DEF Spec

(* With one worker thread, and a client that closes a connection before it   *)
(* opens the next, no message gets the packet id of one that is unfinished:  *)
(* the id of every queued publish and of every QoS 2 handshake that waits    *)
(* for its PUBCOMP is marked as used (session.cpp:105, 113, 157), for every  *)
(* number of ids, messages and reconnects.                                   *)
THEOREM UnfinishedIdsStayUsed ==
    ASSUME SingleThread, ~Takeover, MaxRestarts = 0
    PROVE  Spec => [](UnfinishedIdsAreUsed /\ QueuedIdsAreUsed)
<1>1. Turns /\ IdsSound => UnfinishedIdsAreUsed /\ QueuedIdsAreUsed
  BY DEF IdsSound, UnfinishedUsed, QueueCounts, UnfinishedIdsAreUsed, QueuedIdsAreUsed
<1>2. InTurn
  BY DEF InTurn
<1> QED
  BY <1>1, <1>2, IdsHold, PTL

-----------------------------------------------------------------------------
(* QoS 1 with any number of threads                                          *)

\* No QoS 2 handshake ever starts.
Qos1Only ==
    /\ outgoingQoS2 = {}
    /\ \A k \in Conns : receivedRec[k] = 0
    /\ \A k \in Conns : \A a \in On(in[k]) : a.type # "PUBREC"

\* A session that is to be destroyed stays so.
Settled == destroyOnDisconnect => \A k \in Conns : stage[k] # "assigned"

LEMMA SettledHolds ==
    ASSUME MaxRestarts = 0, CleanConns = {} \/ ~Takeover
    PROVE  Spec => []Settled
<1>1. CASE ~Takeover
  <2>1. Spec => [](ConnsInTurn /\ DestroyedForGood)
    BY <1>1, OrderHolds
  <2>2. ConnsInTurn /\ DestroyedForGood => Settled
    BY DEF DestroyedForGood, Settled
  <2> QED
    BY <2>1, <2>2, PTL
<1>2. CASE CleanConns = {}
  <2>1. Init => ~destroyOnDisconnect
    BY DEF Init
  <2>2. ~destroyOnDisconnect /\ [Next]_vars => ~destroyOnDisconnect'
    <3> SUFFICES ASSUME ~destroyOnDisconnect, [Next]_vars PROVE ~destroyOnDisconnect'
      OBVIOUS
    <3>1. ASSUME NEW k \in Conns, SetSessionProperties(k) PROVE ~destroyOnDisconnect'
      BY <1>2, <3>1 DEF SetSessionProperties
    <3>2. ASSUME NEW k \in Conns, Assign(k) \/ AckStep(k) \/ Close(k) PROVE ~destroyOnDisconnect'
      BY <3>2 DEF Assign, AckStep, HandlePubAck, HandlePubRec, HandlePubRecError,
         StoreOutgoingQoS2, HandlePubComp, Close, session
    <3>3. ASSUME NEW k \in Conns, ConnectStep(k) PROVE ~destroyOnDisconnect'
      BY <3>1, <3>3 DEF ConnectStep, SendConnack, PickClient, CopyPending, WritePending, session
    <3>4. ASSUME NEW t \in Publishers, WritePacketStep(t) PROVE ~destroyOnDisconnect'
      BY <3>4 DEF WritePacketStep, BeginWrite, DropForQuota, TakeId, WriteToClient, session
    <3>5. ASSUME DeviceStep \/ (\E m \in Msgs : Expire(m)) \/ Restart \/ Finished \/ UNCHANGED vars
          PROVE  ~destroyOnDisconnect'
      BY <3>5 DEF DeviceStep, DeviceConnected, DeviceReceivesQos1, DeviceReceivesQos2,
         DeviceRefuses, DeviceReleases, Expire, Restart, Finished, vars, session
    <3> QED
      BY <3>2, <3>3, <3>4, <3>5 DEF Next
  <2>3. ~destroyOnDisconnect => Settled
    BY DEF Settled
  <2> QED
    BY <2>1, <2>2, <2>3, PTL DEF Spec
<1> QED
  BY <1>1, <1>2

LEMMA Qos1OnlyStep ==
    ASSUME Qos2 = {}, MaxRestarts = 0, IInv, Qos1Only, [Next]_vars
    PROVE  Qos1Only'
<1>0. in \in [Conns -> Seq(Acks)] /\ out \in Seq(Packets) /\ receivedRec \in [Conns -> 0..MaxId]
  BY DEF IInv, TypeOK, NetworkType, ConnectionsType
<1>1. CASE UNCHANGED <<outgoingQoS2, receivedRec, in>>
  BY <1>1 DEF Qos1Only
<1>2. ASSUME NEW k \in Conns, NEW type, Received(k, type)
      PROVE  \A j \in Conns : On(in'[j]) \subseteq On(in[j])
  <2>1. in[k] # <<>> /\ in' = [in EXCEPT ![k] = Tail(in[k])] /\ in[k] \in Seq(Acks)
    BY <1>0, <1>2 DEF Received
  <2>2. On(Tail(in[k])) \subseteq On(in[k])
    BY <2>1, OnTail
  <2> QED
    BY <1>0, <2>1, <2>2
<1>3. ASSUME NEW k \in Conns, HandlePubAck(k) \/ HandlePubRecError(k) PROVE Qos1Only'
  <2>1. \E type : Received(k, type)
    BY <1>3 DEF HandlePubAck, HandlePubRecError
  <2>2. UNCHANGED <<outgoingQoS2, receivedRec>>
    BY <1>3 DEF HandlePubAck, HandlePubRecError, ClearQosMessage, connections
  <2> QED
    BY <1>2, <2>1, <2>2 DEF Qos1Only
<1>4. ASSUME NEW k \in Conns, HandlePubRec(k) PROVE FALSE
  <2>1. in[k] # <<>> /\ Head(in[k]).type = "PUBREC" /\ in[k] \in Seq(Acks)
    BY <1>0, <1>4 DEF HandlePubRec, Received
  <2>2. Head(in[k]) \in On(in[k])
    BY <2>1, OnTail
  <2> QED
    BY <2>1, <2>2 DEF Qos1Only
<1>5. ASSUME NEW k \in Conns, StoreOutgoingQoS2(k) PROVE FALSE
  BY <1>5 DEF StoreOutgoingQoS2, Qos1Only
<1>6. ASSUME NEW k \in Conns, HandlePubComp(k) PROVE Qos1Only'
  <2>1. Received(k, "PUBCOMP") /\ receivedRec' = receivedRec /\ outgoingQoS2' = outgoingQoS2
    BY <1>6 DEF HandlePubComp, connections, Qos1Only
  <2> QED
    BY <1>2, <2>1 DEF Qos1Only
<1>7. ASSUME NEW k \in Conns, Close(k) PROVE Qos1Only'
  <2>1. in' = [in EXCEPT ![k] = <<>>] /\ UNCHANGED <<outgoingQoS2, receivedRec>>
    BY <1>7 DEF Close, qosData
  <2>2. \A j \in Conns : On(in'[j]) \subseteq On(in[j])
    BY <1>0, <2>1, OnNothing
  <2> QED
    BY <2>1, <2>2 DEF Qos1Only
<1>8. CASE DeviceStep
  <2>1. UNCHANGED <<outgoingQoS2, receivedRec>>
    BY <1>8 DEF DeviceStep, DeviceConnected, DeviceReceivesQos1, DeviceReceivesQos2,
       DeviceRefuses, DeviceReleases, qosData, connections
  <2>2. ASSUME NEW a \in Acks, a.type # "PUBREC", in' = [in EXCEPT ![peerConn] = Append(@, a)]
        PROVE  Qos1Only'
    <3>1. \A j \in Conns : On(in'[j]) \subseteq On(in[j]) \cup {a}
      <4> SUFFICES ASSUME NEW j \in Conns PROVE On(in'[j]) \subseteq On(in[j]) \cup {a}
        OBVIOUS
      <4>1. in[j] \in Seq(Acks) /\ (in'[j] = in[j] \/ in'[j] = Append(in[j], a))
        BY <1>0, <2>2
      <4>2. On(Append(in[j], a)) = On(in[j]) \cup {a}
        BY <4>1, OnAppend
      <4> QED
        BY <4>1, <4>2
    <3> QED
      BY <2>1, <2>2, <3>1 DEF Qos1Only
  <2>3. ~DeviceReceivesQos2 /\ ~DeviceRefuses
    BY DEF DeviceReceivesQos2, DeviceRefuses
  <2>4. CASE DeviceConnected
    BY <2>1, <2>4 DEF DeviceConnected, Qos1Only
  <2>5. CASE DeviceReceivesQos1
    <3>1. DeviceTakes("PUBLISH") /\ Answer("PUBACK", Head(out).id)
      BY <2>5 DEF DeviceReceivesQos1
    <3>2. Head(out).id \in Ids
      BY <3>1, DeviceTakesType
    <3>3. Ack("PUBACK", Head(out).id) \in Acks /\ Ack("PUBACK", Head(out).id).type # "PUBREC"
      BY <3>2 DEF Acks, Ack
    <3> QED
      BY <2>2, <3>1, <3>3 DEF Answer
  <2>6. CASE DeviceReleases
    <3>1. DeviceTakes("PUBREL") /\ Answer("PUBCOMP", Head(out).id)
      BY <2>6 DEF DeviceReleases
    <3>2. Head(out).id \in Ids
      BY <3>1, DeviceTakesType
    <3>3. Ack("PUBCOMP", Head(out).id) \in Acks /\ Ack("PUBCOMP", Head(out).id).type # "PUBREC"
      BY <3>2 DEF Acks, Ack
    <3> QED
      BY <2>2, <3>1, <3>3 DEF Answer
  <2> QED
    BY <1>8, <2>3, <2>4, <2>5, <2>6 DEF DeviceStep
<1>9. ~Restart
  BY DEF Restart, IInv, TypeOK, WorldType
<1>10. ASSUME NEW t \in Publishers, WritePacketStep(t)
       PROVE  UNCHANGED <<outgoingQoS2, receivedRec, in>>
  BY <1>10 DEF WritePacketStep, BeginWrite, DropForQuota, TakeId, WriteToClient,
     qosData, connections, network
<1>11. ASSUME NEW k \in Conns, Assign(k) \/ ConnectStep(k)
       PROVE  UNCHANGED <<outgoingQoS2, receivedRec, in>>
  BY <1>11 DEF Assign, ConnectStep, SetSessionProperties, SendConnack, PickClient, CopyPending,
     WritePending, qosData, connections, network
<1>12. ASSUME NEW m \in Msgs, Expire(m)
       PROVE  UNCHANGED <<outgoingQoS2, receivedRec, in>>
  BY <1>12 DEF Expire, qosData, connections, network
<1>13. ASSUME Finished \/ UNCHANGED vars
       PROVE  UNCHANGED <<outgoingQoS2, receivedRec, in>>
  BY <1>13 DEF Finished, vars, qosData, connections, network
<1> QED
  BY <1>1, <1>3, <1>4, <1>5, <1>6, <1>7, <1>8, <1>9, <1>10, <1>11, <1>12, <1>13
     DEF Next, AckStep

(* A publish and its id leave the queue and the used ids together.           *)
LEMMA QueuedUsedStep ==
    ASSUME MaxRestarts = 0, IInv, Settled, Qos1Only, QueuedIdsAreUsed, [Next]_vars
    PROVE  QueuedIdsAreUsed'
<1>1. CASE UNCHANGED <<usedIds, queue, destroyOnDisconnect>>
  BY <1>1 DEF QueuedIdsAreUsed, Queued
<1>2. ASSUME NEW t \in Publishers, DropForQuota(t) PROVE QueuedIdsAreUsed'
  <2>1. PICK cleared : usedIds' = usedIds \ cleared /\ queue' = Without(queue, cleared)
    BY <1>2 DEF DropForQuota, IncreaseFlowControlQuota
  <2>2. destroyOnDisconnect' = destroyOnDisconnect
    BY <1>2 DEF DropForQuota, session
  <2> QED
    BY <2>1, <2>2 DEF QueuedIdsAreUsed, Queued, Without
<1>3. ASSUME NEW t \in Publishers, TakeId(t) PROVE QueuedIdsAreUsed'
  <2>1. PICK cleared :
           /\ usedIds' = (usedIds \ cleared) \cup {FirstFree(usedIds \ cleared)}
           /\ queue' = IF destroyOnDisconnect THEN Without(queue, cleared)
                       ELSE [i \in DOMAIN Without(queue, cleared) \cup {FirstFree(usedIds \ cleared)} |->
                               IF i = FirstFree(usedIds \ cleared) THEN msg[t]
                               ELSE Without(queue, cleared)[i]]
    BY <1>3 DEF TakeId
  <2>2. destroyOnDisconnect' = destroyOnDisconnect
    BY <1>3 DEF TakeId, session
  <2>3. ~destroyOnDisconnect =>
           Queued' = (Queued \ cleared) \cup {FirstFree(usedIds \ cleared)}
    BY <2>1 DEF Queued, Without
  <2> QED
    BY <2>1, <2>2, <2>3 DEF QueuedIdsAreUsed
<1>4. ASSUME NEW k \in Conns, SetSessionProperties(k) PROVE QueuedIdsAreUsed'
  <2>1. stage[k] = "assigned" /\ UNCHANGED <<usedIds, queue>>
    BY <1>4 DEF SetSessionProperties
  <2>2. ~destroyOnDisconnect
    BY <2>1 DEF Settled
  <2> QED
    BY <2>1, <2>2 DEF QueuedIdsAreUsed, Queued
<1>5. ASSUME NEW k \in Conns, CopyPending(k) PROVE QueuedIdsAreUsed'
  <2>1. PICK gone : /\ queue' = Without(queue, Queued \ Kept(gone))
                    /\ usedIds' = usedIds \ (Queued \ Kept(gone))
    BY <1>5 DEF CopyPending
  <2>2. destroyOnDisconnect' = destroyOnDisconnect
    BY <1>5 DEF CopyPending, session
  <2>3. Queued' = Queued \ (Queued \ Kept(gone))
    BY <2>1 DEF Queued, Without
  <2> QED
    BY <2>1, <2>2, <2>3 DEF QueuedIdsAreUsed
<1>6. ASSUME NEW k \in Conns, AckStep(k) PROVE QueuedIdsAreUsed'
  <2>1. destroyOnDisconnect' = destroyOnDisconnect
    BY <1>6 DEF AckStep, HandlePubAck, HandlePubRec, HandlePubRecError, StoreOutgoingQoS2,
       HandlePubComp, session
  <2>2. ASSUME NEW id, NEW ends, ClearQosMessage(id, ends) PROVE QueuedIdsAreUsed'
    <3>1. ~destroyOnDisconnect => queue' = Without(queue, {id})
      BY <2>2 DEF ClearQosMessage
    <3>2. ~destroyOnDisconnect => Queued' = Queued \ {id}
      BY <3>1 DEF Queued, Without
    <3>3. usedIds \ {id} \subseteq usedIds'
      BY <2>2 DEF ClearQosMessage, IncreaseFlowControlQuota
    <3> QED
      BY <2>1, <3>2, <3>3 DEF QueuedIdsAreUsed
  <2>3. CASE HandlePubAck(k) \/ HandlePubRec(k) \/ HandlePubRecError(k)
    BY <2>2, <2>3 DEF HandlePubAck, HandlePubRec, HandlePubRecError
  <2>4. CASE StoreOutgoingQoS2(k)
    BY <2>1, <2>4 DEF StoreOutgoingQoS2, QueuedIdsAreUsed, Queued
  <2>5. CASE HandlePubComp(k)
    BY <2>1, <2>5 DEF HandlePubComp, Qos1Only, QueuedIdsAreUsed, Queued
  <2> QED
    BY <1>6, <2>3, <2>4, <2>5 DEF AckStep
<1>7. ~Restart
  BY DEF Restart, IInv, TypeOK, WorldType
<1>8. ASSUME NEW t \in Publishers, BeginWrite(t) \/ WriteToClient(t)
      PROVE  UNCHANGED <<usedIds, queue, destroyOnDisconnect>>
  BY <1>8 DEF BeginWrite, WriteToClient, qosData, session
<1>9. ASSUME NEW k \in Conns,
             Assign(k) \/ SendConnack(k) \/ PickClient(k) \/ WritePending(k) \/ Close(k)
      PROVE  UNCHANGED <<usedIds, queue, destroyOnDisconnect>>
  BY <1>9 DEF Assign, SendConnack, PickClient, WritePending, Close, qosData, session
<1>10. ASSUME DeviceStep \/ (\E m \in Msgs : Expire(m)) \/ Finished \/ UNCHANGED vars
       PROVE  UNCHANGED <<usedIds, queue, destroyOnDisconnect>>
  BY <1>10 DEF DeviceStep, DeviceConnected, DeviceReceivesQos1, DeviceReceivesQos2,
     DeviceRefuses, DeviceReleases, Expire, Finished, vars, qosData, session
<1> QED
  BY <1>1, <1>2, <1>3, <1>4, <1>5, <1>6, <1>7, <1>8, <1>9, <1>10
     DEF Next, WritePacketStep, ConnectStep

(* A new QoS 1 publish never gets the id of a queued one (session.cpp:113,   *)
(* qospacketqueue.cpp:190), however the handlers of any number of threads,   *)
(* take-overs, resends and late acknowledgements interleave, as long as the  *)
(* broker does not restart and a connection that ends the session does not   *)
(* race another one for it.                                                  *)
THEOREM QueuedIdsStayUsed ==
    ASSUME Qos2 = {}, MaxRestarts = 0, CleanConns = {} \/ ~Takeover
    PROVE  Spec => []QueuedIdsAreUsed
<1>1. Init => Qos1Only /\ QueuedIdsAreUsed
  <2> SUFFICES ASSUME Init PROVE Qos1Only /\ QueuedIdsAreUsed
    OBVIOUS
  <2>1. \A k \in Conns : On(in[k]) = {}
    BY OnNothing DEF Init
  <2> QED
    BY <2>1 DEF Init, Qos1Only, QueuedIdsAreUsed, Queued, NoPublishes
<1>2. IInv /\ Qos1Only /\ [Next]_vars => Qos1Only'
  BY Qos1OnlyStep
<1>3. IInv /\ Settled /\ Qos1Only /\ QueuedIdsAreUsed /\ [Next]_vars => QueuedIdsAreUsed'
  BY QueuedUsedStep
<1>4. Spec => []Settled
  BY SettledHolds
<1> QED
  BY <1>1, <1>2, <1>3, <1>4, IInvInductive, PTL DEF Spec

-----------------------------------------------------------------------------
(* The send quota and the ids in use                                         *)

(* Freeing ids and getting quota back for them keeps the account, at the     *)
(* ceiling too.                                                              *)
LEMMA IncreaseKeepsAccount ==
    ASSUME IInv, NEW ids \in SUBSET Ids,
           flowControlQuota + Cardinality(usedIds) >= flowControlCealing
    PROVE  IncreasedQuota(ids) + Cardinality(usedIds \ ids) >= flowControlCealing
<1>1. /\ usedIds \in SUBSET Ids /\ flowControlQuota \in Int /\ flowControlCealing \in Int
  BY BoundsAssumption DEF IInv, TypeOK, QosDataType
<1>2. /\ Cardinality(ids) \in Nat /\ Cardinality(usedIds) \in Nat
      /\ Cardinality(usedIds \ ids) \in Nat
  BY <1>1, IdsAreFinite
<1>3. Cardinality(usedIds) <= Cardinality(usedIds \ ids) + Cardinality(ids)
  <2>1. IsFiniteSet(usedIds) /\ IsFiniteSet(ids)
    BY <1>1, IdsAreFinite
  <2>2. IsFiniteSet(usedIds \cap ids) /\ usedIds \cap ids \in SUBSET ids
    BY <2>1, FS_Intersection
  <2>3. Cardinality(usedIds \ ids) = Cardinality(usedIds) - Cardinality(usedIds \cap ids)
    BY <2>1, FS_Difference
  <2>4. Cardinality(usedIds \cap ids) <= Cardinality(ids)
    BY <2>1, <2>2, FS_Subset
  <2>5. Cardinality(usedIds \cap ids) \in Nat
    BY <2>2, FS_CardinalityType
  <2> QED
    BY <1>2, <2>3, <2>4, <2>5
<1> QED
  BY <1>1, <1>2, <1>3 DEF IncreasedQuota

Account == flowControlQuota + Cardinality(usedIds) >= flowControlCealing

QuotaIsFresh ==
    \A k \in Conns : stage[k] \in {"registered", "acknowledged", "picked"} =>
        flowControlQuota = flowControlCealing

LEMMA AccountParts == QuotaAccounted <=> Account /\ QuotaIsFresh
  BY DEF QuotaAccounted, Account, QuotaIsFresh

LEMMA ConnectStepAccount ==
    ASSUME Turns, IdsSound, QuotaAccounted, NEW k \in Conns, ConnectStep(k)
    PROVE  QuotaAccounted'
<1>0. /\ usedIds \in SUBSET Ids /\ flowControlQuota \in Int /\ flowControlCealing \in 1..MaxId
      /\ Cardinality(usedIds) \in Nat
  BY IdsAreFinite DEF Turns, IInv, TypeOK, QosDataType
<1>1. CASE SetSessionProperties(k)
  <2>1. flowControlQuota' = flowControlCealing' /\ usedIds' = usedIds
        /\ flowControlQuota' \in Int
    BY <1>1, ReceiveMaximaAssumption DEF SetSessionProperties
  <2> QED
    BY <1>0, <2>1 DEF QuotaAccounted
<1>2. CASE SendConnack(k) \/ PickClient(k)
  <2>1. /\ UNCHANGED <<usedIds, flowControlQuota, flowControlCealing>>
        /\ stage[k] \in {"registered", "acknowledged"}
    BY <1>2 DEF SendConnack, PickClient, qosData
  <2> QED
    BY <2>1 DEF QuotaAccounted
<1>3. CASE CopyPending(k)
  <2>1. PICK gone :
           /\ usedIds' = usedIds \ (Queued \ Kept(gone))
           /\ flowControlQuota' = flowControlQuota - Cardinality(Kept(gone))
    BY <1>3 DEF CopyPending
  <2>2. /\ stage[k] = "picked" /\ stage' = [stage EXCEPT ![k] = "copied"]
        /\ flowControlCealing' = flowControlCealing
    BY <1>3 DEF CopyPending
  <2>3. flowControlQuota = flowControlCealing
    BY <2>2 DEF QuotaAccounted
  <2>4. Kept(gone) \subseteq Queued /\ Queued \subseteq usedIds
    <3>1. QueueCounts
      BY <2>2 DEF QueueCounts, Greeting
    <3> QED
      BY <3>1 DEF IdsSound, UnfinishedUsed, Kept
  <2>5. Kept(gone) \in SUBSET usedIds' /\ usedIds' \in SUBSET Ids
    BY <1>0, <2>1, <2>4
  <2>6. Cardinality(Kept(gone)) <= Cardinality(usedIds') /\ Cardinality(Kept(gone)) \in Nat
        /\ Cardinality(usedIds') \in Nat
    <3>1. IsFiniteSet(usedIds') /\ Cardinality(usedIds') \in Nat
      BY <2>5, IdsAreFinite
    <3> QED
      BY <2>5, <3>1, FS_Subset, FS_CardinalityType
  <2>7. Account'
    BY <1>0, <2>1, <2>2, <2>3, <2>6 DEF Account
  <2>8. QuotaIsFresh'
    <3>1. \A j \in Conns : j # k => stage[j] \in {"unused", "dead"}
      BY <2>2, CalmAtGreeting DEF IdsSound
    <3>2. stage'[k] = "copied" /\ \A j \in Conns : j # k => stage'[j] = stage[j]
      BY <2>2, StageOfOthers DEF Turns
    <3> QED
      BY <3>1, <3>2 DEF QuotaIsFresh
  <2> QED
    BY <2>7, <2>8 DEF QuotaAccounted, Account, QuotaIsFresh
<1>4. CASE WritePending(k)
  <2>1. UNCHANGED <<usedIds, flowControlQuota, flowControlCealing>>
        /\ stage' = [stage EXCEPT ![k] = "live"]
    BY <1>4 DEF WritePending, qosData
  <2>2. \A j \in Conns : stage'[j] # "live" => stage'[j] = stage[j]
    BY <2>1 DEF Turns, IInv, TypeOK, ConnectionsType
  <2> QED
    BY <2>1, <2>2 DEF QuotaAccounted
<1> QED
  BY <1>1, <1>2, <1>3, <1>4 DEF ConnectStep

(* Nothing but the connect sequence resets the quota: where the ids and the  *)
(* quota keep their account and no connection is between setSessionProperties *)
(* and the copies, the quota is as fresh after the step as before.           *)
LEMMA NobodyFresh ==
    ASSUME Turns, \A k \in Conns : stage'[k] = stage[k],
           \/ \E t \in Publishers : pc[t] # "idle"
           \/ \E k \in Conns : stage[k] = "live"
    PROVE  QuotaIsFresh'
<1>1. \A k \in Conns : stage[k] \notin {"registered", "acknowledged", "picked"}
  <2>1. CASE \E t \in Publishers : pc[t] # "idle"
    BY <2>1 DEF Turns, HandlersInTurn
  <2>2. CASE \E k \in Conns : stage[k] = "live"
    BY <2>2 DEF Turns, ConnsInTurn, Opened
  <2> QED
    BY <2>1, <2>2
<1> QED
  BY <1>1 DEF QuotaIsFresh

LEMMA WriteStepAccount ==
    ASSUME Turns, QuotaAccounted, NEW t \in Publishers, WritePacketStep(t)
    PROVE  QuotaAccounted'
<1>0. /\ usedIds \in SUBSET Ids /\ flowControlQuota \in Int /\ flowControlCealing \in 1..MaxId
      /\ IsFiniteSet(usedIds) /\ Cardinality(usedIds) \in Nat /\ nextPacketId \in 0..MaxId
  BY IdsAreFinite DEF Turns, IInv, TypeOK, QosDataType
<1>1. CASE BeginWrite(t) \/ WriteToClient(t)
  <2>1. UNCHANGED <<usedIds, flowControlQuota, flowControlCealing, stage>>
    BY <1>1 DEF BeginWrite, WriteToClient, qosData, connections
  <2> QED
    BY <2>1 DEF QuotaAccounted
<1>2. ASSUME NEW cleared \in Clearable(t) PROVE cleared \in SUBSET Ids
  <2>1. cleared \subseteq Queued
    BY DEF Clearable, ExpiredInQueue
  <2>2. Queued \in SUBSET Ids
    BY QueueStateElim DEF Turns, IInv, TypeOK, QosDataType, Queued
  <2> QED
    BY <2>1, <2>2
<1>3. CASE DropForQuota(t)
  <2>1. PICK cleared \in Clearable(t) :
           usedIds' = usedIds \ cleared /\ flowControlQuota' = IncreasedQuota(cleared)
    BY <1>3 DEF DropForQuota, IncreaseFlowControlQuota
  <2>2. UNCHANGED <<flowControlCealing, stage>> /\ pc[t] = "lock"
    BY <1>3 DEF DropForQuota, connections
  <2>3. Account'
    BY <1>2, <2>1, <2>2, IncreaseKeepsAccount DEF Turns, QuotaAccounted, Account
  <2>4. QuotaIsFresh'
    BY <2>2, NobodyFresh
  <2> QED
    BY <2>3, <2>4 DEF QuotaAccounted, Account, QuotaIsFresh
<1>4. CASE TakeId(t)
  <2>1. PICK cleared \in Clearable(t) :
           /\ IdAvailable(usedIds \ cleared, IncreasedQuota(cleared))
           /\ usedIds' = (usedIds \ cleared) \cup {FirstFree(usedIds \ cleared)}
           /\ flowControlQuota' = IncreasedQuota(cleared) - 1
    BY <1>4 DEF TakeId
  <2>2. UNCHANGED <<flowControlCealing, stage>> /\ pc[t] = "lock"
    BY <1>4 DEF TakeId, connections
  <2>3. IncreasedQuota(cleared) + Cardinality(usedIds \ cleared) >= flowControlCealing
    BY <1>2, IncreaseKeepsAccount DEF Turns, QuotaAccounted
  <2>4. FirstFree(usedIds \ cleared) \notin usedIds \ cleared
    BY <1>0, <2>1, FirstFreeIsFree DEF IdAvailable
  <2>5. IsFiniteSet(usedIds \ cleared) /\ Cardinality(usedIds \ cleared) \in Nat
    BY <1>0, FS_Difference, FS_CardinalityType
  <2>6. Cardinality(usedIds') = Cardinality(usedIds \ cleared) + 1
    BY <2>1, <2>4, <2>5, FS_AddElement
  <2>7. IncreasedQuota(cleared) \in Int
    <3>1. Cardinality(cleared) \in Nat
      BY <1>2, IdsAreFinite
    <3> QED
      BY <1>0, <3>1 DEF IncreasedQuota
  <2>8. Account'
    BY <1>0, <2>1, <2>2, <2>3, <2>5, <2>6, <2>7 DEF Account
  <2>9. QuotaIsFresh'
    BY <2>2, NobodyFresh
  <2> QED
    BY <2>8, <2>9 DEF QuotaAccounted, Account, QuotaIsFresh
<1> QED
  BY <1>1, <1>3, <1>4 DEF WritePacketStep

LEMMA AckStepAccount ==
    ASSUME Turns, QuotaAccounted, NEW k \in Conns, AckStep(k)
    PROVE  QuotaAccounted'
<1>1. CASE UNCHANGED <<usedIds, flowControlQuota, flowControlCealing, stage>>
  BY <1>1 DEF QuotaAccounted
<1>2. CASE ~ UNCHANGED <<usedIds, flowControlQuota, flowControlCealing, stage>>
  <2>1. \E type : Received(k, type)
    BY <1>2 DEF AckStep, HandlePubAck, HandlePubRec, HandlePubRecError, HandlePubComp,
       StoreOutgoingQoS2
  <2>2. /\ stage[k] = "live" /\ stage' = stage /\ flowControlCealing' = flowControlCealing
        /\ IncreaseFlowControlQuota({Head(in[k]).id})
    BY <1>2, <2>1 DEF Received, AckStep, HandlePubAck, HandlePubRec, HandlePubRecError,
       HandlePubComp, StoreOutgoingQoS2, ClearQosMessage, connections
  <2>3. {Head(in[k]).id} \in SUBSET Ids
    BY <2>1, ReceivedType DEF Turns
  <2>4. Account'
    BY <2>2, <2>3, IncreaseKeepsAccount
       DEF Turns, QuotaAccounted, Account, IncreaseFlowControlQuota
  <2>5. QuotaIsFresh'
    BY <2>2, NobodyFresh
  <2> QED
    BY <2>4, <2>5 DEF QuotaAccounted, Account, QuotaIsFresh
<1> QED
  BY <1>1, <1>2

LEMMA AccountStep ==
    ASSUME InTurn, Turns, IdsSound, QuotaAccounted, [Next]_vars
    PROVE  QuotaAccounted'
<1>1. ASSUME NEW k \in Conns, Assign(k) \/ Close(k) PROVE QuotaAccounted'
  <2>1. /\ UNCHANGED <<usedIds, flowControlQuota, flowControlCealing>>
        /\ \E s \in {"assigned", "dead"} : stage' = [stage EXCEPT ![k] = s]
    BY <1>1 DEF Assign, Close, qosData
  <2>2. \A j \in Conns : stage'[j] \in {"registered", "acknowledged", "picked"}
                            => stage[j] = stage'[j]
    BY <2>1 DEF Turns, IInv, TypeOK, ConnectionsType
  <2> QED
    BY <2>1, <2>2 DEF QuotaAccounted
<1>2. ASSUME DeviceStep \/ (\E m \in Msgs : Expire(m)) \/ Finished \/ UNCHANGED vars
      PROVE  QuotaAccounted'
  <2>1. UNCHANGED <<usedIds, flowControlQuota, flowControlCealing, stage>>
    BY <1>2 DEF DeviceStep, DeviceConnected, DeviceReceivesQos1, DeviceReceivesQos2,
       DeviceRefuses, DeviceReleases, Expire, Finished, vars, qosData, connections
  <2> QED
    BY <2>1 DEF QuotaAccounted
<1>3. ~Restart
  BY DEF Restart, InTurn, Turns, IInv, TypeOK, WorldType
<1> QED
  BY <1>1, <1>2, <1>3, WriteStepAccount, ConnectStepAccount, AckStepAccount DEF Next

LEMMA AccountHolds == ASSUME InTurn PROVE Spec => []QuotaAccounted
<1>1. Init => QuotaAccounted
  <2> SUFFICES ASSUME Init PROVE QuotaAccounted
    OBVIOUS
  <2>1. Cardinality({}) = 0
    BY FS_EmptySet
  <2> QED
    BY <2>1, BoundsAssumption DEF Init, QuotaAccounted
<1>2. InTurn /\ Turns /\ IdsSound /\ QuotaAccounted /\ [Next]_vars => QuotaAccounted'
  BY AccountStep
<1>3. Turns /\ IdsSound /\ QuotaAccounted /\ [Next]_vars => QuotaAccounted'
  BY <1>2
<1> QED
  BY <1>1, <1>3, IdsHold, PTL DEF Spec

(* The search for an id comes back to where it started only when some id is  *)
(* in use: the id it started from is the last one it looks at.               *)
LEMMA SearchFindsAnother ==
    ASSUME nextPacketId \in 0..MaxId, MaxId # 1
    PROVE  FirstFree({}) # nextPacketId
<1>1. MaxId \in Nat /\ MaxId >= 2
  BY BoundsAssumption
<1>2. \E id \in Ids \ {} : \A other \in Ids \ {} : Distance(id) <= Distance(other)
  <2> DEFINE distances == {Distance(id) : id \in Ids}
  <2>1. distances \subseteq Nat /\ distances # {}
    BY <1>1, DistanceType DEF Ids
  <2>2. PICK x \in distances : \A y \in distances : x <= y
    BY <2>1, HasMinimum
  <2> QED
    BY <2>2
<1>3. \A other \in Ids : Distance(FirstFree({})) <= Distance(other)
  BY <1>2 DEF FirstFree
<1>4. \A n \in Nat : n >= 2 => (0 - 1) % (n + 1) = n
  OBVIOUS
<1>5. \A n \in Nat : n >= 2 => (0 - n) % (n + 1) = 1 /\ 0 % (n + 1) = 0
  OBVIOUS
<1> SUFFICES ASSUME FirstFree({}) = nextPacketId PROVE FALSE
  OBVIOUS
<1>6. Distance(nextPacketId) = MaxId
  <2>1. nextPacketId - nextPacketId - 1 = 0 - 1
    OBVIOUS
  <2> QED
    BY <1>1, <1>4, <2>1 DEF Distance
<1>7. CASE nextPacketId = MaxId
  <2>1. 1 - nextPacketId - 1 = 0 - MaxId
    BY <1>1, <1>7
  <2>2. 1 \in Ids /\ Distance(1) = 1
    BY <1>1, <1>5, <2>1 DEF Distance, Ids
  <2> QED
    BY <1>1, <1>3, <1>6, <2>2
<1>8. CASE nextPacketId # MaxId
  <2>1. (nextPacketId + 1) - nextPacketId - 1 = 0 /\ nextPacketId + 1 \in Ids
    BY <1>1, <1>8 DEF Ids
  <2>2. Distance(nextPacketId + 1) = 0
    BY <1>1, <1>5, <2>1 DEF Distance
  <2> QED
    BY <1>1, <1>3, <1>6, <2>1, <2>2
<1> QED
  BY <1>7, <1>8

LEMMA DropNeedsUnfinished ==
    ASSUME MaxId # 1, Turns, IdsSound, QuotaAccounted, NEW t \in Publishers, DropForQuota(t)
    PROVE  usedIds # {} \/ destroyOnDisconnect
<1> SUFFICES ASSUME usedIds = {}, ~destroyOnDisconnect PROVE FALSE
  OBVIOUS
<1>1. PICK cleared \in Clearable(t) :
         RoomInQueue(Queued \ cleared) => NoIdAvailable(usedIds \ cleared, IncreasedQuota(cleared))
  BY DEF DropForQuota
<1>2. Queued = {}
  BY DEF IdsSound, UnfinishedUsed, QueueCounts
<1>3. RoomInQueue(Queued \ cleared)
  BY <1>2 DEF RoomInQueue
<1>4. cleared = {}
  BY <1>2 DEF Clearable, ExpiredInQueue
<1>5. Cardinality({}) = 0
  BY FS_EmptySet
<1>6. /\ flowControlQuota \in Int /\ flowControlCealing \in 1..MaxId /\ nextPacketId \in 0..MaxId
  BY DEF Turns, IInv, TypeOK, QosDataType
<1>7. flowControlQuota >= flowControlCealing
  BY <1>5, <1>6 DEF QuotaAccounted
<1>8. IncreasedQuota(cleared) # 0
  BY <1>4, <1>5, <1>6, <1>7, BoundsAssumption DEF IncreasedQuota
<1>9. FirstFree({}) # nextPacketId
  BY <1>6, SearchFindsAnother
<1>10. usedIds \ cleared = {}
  OBVIOUS
<1> QED
  BY <1>1, <1>3, <1>8, <1>9, <1>10, Zenon DEF NoIdAvailable

(* With one worker thread a publish is refused only while another message of *)
(* the session is unfinished (session.cpp:123-147, 307-334): an unused quota *)
(* is never lost over any number of acknowledgements, resends and            *)
(* reconnects, and the search for an id finds one when all are free.         *)
THEOREM DropsOnlyWhenUnfinished ==
    ASSUME SingleThread, ~Takeover, MaxRestarts = 0, MaxId # 1
    PROVE  Spec => DropsOnlyWithUnfinished
<1> DEFINE Refused == \A t \in Publishers :
              pc[t] = "lock" /\ pc'[t] = "idle" /\ restarts' = restarts
                 => usedIds # {} \/ destroyOnDisconnect
<1>1. InTurn
  BY DEF InTurn
<1>2. Turns /\ IdsSound /\ QuotaAccounted /\ [Next]_vars => Refused
  <2> SUFFICES ASSUME Turns, IdsSound, QuotaAccounted, [Next]_vars,
                      NEW t \in Publishers, pc[t] = "lock", pc'[t] = "idle"
               PROVE  usedIds # {} \/ destroyOnDisconnect
    OBVIOUS
  <2>1. CASE \E u \in Publishers : WritePacketStep(u)
    <3>1. PICK u \in Publishers : WritePacketStep(u)
      BY <2>1
    <3>2. u = t
      <4>1. \E s : pc' = [pc EXCEPT ![u] = s]
        BY <3>1 DEF WritePacketStep, BeginWrite, DropForQuota, TakeId, WriteToClient, FinishWrite
      <4> QED
        BY <4>1 DEF Turns, IInv, TypeOK, WritersType
    <3>3. pc'[t] = "idle" => ~BeginWrite(t) /\ ~TakeId(t) /\ ~WriteToClient(t)
      BY DEF BeginWrite, TakeId, WriteToClient, Turns, IInv, TypeOK, WritersType
    <3>4. DropForQuota(t)
      BY <3>1, <3>2, <3>3 DEF WritePacketStep
    <3> QED
      BY <3>4, DropNeedsUnfinished
  <2>2. CASE ~ \E u \in Publishers : WritePacketStep(u)
    <3>1. pc' = pc
      BY <2>2 DEF Next, Assign, ConnectStep, SetSessionProperties, SendConnack, PickClient,
         CopyPending, WritePending, AckStep, HandlePubAck, HandlePubRec, HandlePubRecError,
         StoreOutgoingQoS2, HandlePubComp, Close, DeviceStep, DeviceConnected,
         DeviceReceivesQos1, DeviceReceivesQos2, DeviceRefuses, DeviceReleases, Expire, Restart,
         Finished, vars, writers
    <3> QED
      BY <3>1
  <2> QED
    BY <2>1, <2>2
<1>3. Turns /\ IdsSound /\ QuotaAccounted /\ [Next]_vars => [Refused]_vars
  BY <1>2
<1>4. Spec => [][Refused]_vars
  BY <1>1, <1>3, IdsHold, AccountHolds, PTL DEF Spec
<1> QED
  BY <1>4 DEF DropsOnlyWithUnfinished

-----------------------------------------------------------------------------
(* QoS 2: what a step does to the packets on the way                         *)

(* A publishing thread or an acknowledgement is handled while no connection  *)
(* is in its connect sequence.                                               *)
LEMMA NobodyConnects ==
    ASSUME Turns, \/ \E t \in Publishers : pc[t] # "idle"
                  \/ \E k \in Conns : stage[k] = "live"
    PROVE  \A k \in Conns : stage[k] \in {"unused", "live", "dead"}
<1>0. stage \in [Conns -> StageNames]
  BY DEF Turns, IInv, TypeOK, ConnectionsType, StageNames
<1>1. CASE \E t \in Publishers : pc[t] # "idle"
  BY <1>1 DEF Turns, HandlersInTurn
<1>2. CASE \E k \in Conns : stage[k] = "live"
  BY <1>0, <1>2 DEF Turns, ConnsInTurn, Opened, StageNames
<1> QED
  BY <1>1, <1>2

LEMMA CalmTypes ==
    ASSUME IInv, Calm
    PROVE  \A p \in On(out) : p.type \notin {"PUBLISH", "PUBREL"}
<1>1. On(out) \subseteq Packets
  BY OnType DEF IInv, TypeOK, NetworkType
<1>2. \A p \in On(out) : p.id \notin Ids
  BY DEF Calm, IdsOn, Ids
<1> QED
  BY <1>1, <1>2, PacketIds

(* What sendAllPendingQosData writes.                                        *)
LEMMA WhatIsResent ==
    ASSUME Turns, NEW k \in Conns, WritePending(k)
    PROVE  \E s \in Seq(Packets) :
              /\ out' = out \/ out' = out \o s
              /\ \A p \in On(s) :
                    \/ /\ p.type = "PUBLISH" /\ p.id \in DOMAIN pending[k].publishes
                       /\ p.msg = pending[k].publishes[p.id]
                    \/ p.type = "PUBREL" /\ p.id \in pending[k].releases
<1> DEFINE copied == pending[k].publishes
           released == pending[k].releases
<1>1. PICK skipped : Send(pending[k].to, InQueueOrder(Without(copied, skipped)) \o Releases(released))
  BY DEF WritePending
<1> DEFINE again == InQueueOrder(Without(copied, skipped))
           pubRels == Releases(released)
<1>2. copied \in QueueStates /\ released \in SUBSET Ids
  BY DEF Turns, IInv, TypeOK, ConnectionsType, Pendings
<1>3. /\ Without(copied, skipped) \in QueueStates
      /\ DOMAIN Without(copied, skipped) \subseteq DOMAIN copied
      /\ \A i \in DOMAIN Without(copied, skipped) : Without(copied, skipped)[i] = copied[i]
      /\ \A i, j \in DOMAIN Without(copied, skipped) :
           Without(copied, skipped)[i] = Without(copied, skipped)[j] => i = j
  <2>1. Without(copied, skipped) \in QueueStates
    BY <1>2, WithoutType
  <2>2. DOMAIN Without(copied, skipped) \subseteq DOMAIN copied
        /\ \A i \in DOMAIN Without(copied, skipped) : Without(copied, skipped)[i] = copied[i]
    BY DEF Without
  <2>3. \A i, j \in DOMAIN copied : copied[i] = copied[j] => i = j
    BY DEF Turns, IInv, CopiesDistinct
  <2> QED
    BY <2>1, <2>2, <2>3
<1>4. /\ again \in Seq(Packets)
      /\ \A p \in On(again) : p.type = "PUBLISH" /\ p.id \in DOMAIN copied /\ p.msg = copied[p.id]
  BY <1>3, InQueueOrderType, InQueueOrderOnce
<1>5. pubRels \in Seq(Packets) /\ \A p \in On(pubRels) : p.type = "PUBREL" /\ p.id \in released
  BY <1>2, ReleasesType, ReleasesOnce
<1>6. out' = out \/ out' = out \o (again \o pubRels)
  BY <1>1 DEF Send
<1> HIDE DEF again, pubRels
<1>7. again \o pubRels \in Seq(Packets) /\ On(again \o pubRels) = On(again) \cup On(pubRels)
  BY <1>4, <1>5, ConcatProperties, OnConcat
<1> DEFINE s == again \o pubRels
<1>8. \A p \in On(s) : \/ p.type = "PUBLISH" /\ p.id \in DOMAIN copied /\ p.msg = copied[p.id]
                       \/ p.type = "PUBREL" /\ p.id \in released
  BY <1>4, <1>5, <1>7
<1>9. s \in Seq(Packets) /\ (out' = out \/ out' = out \o s)
  BY <1>6, <1>7
<1> HIDE DEF s
<1> QED
  BY <1>8, <1>9, Zenon

-----------------------------------------------------------------------------
(* QoS 2: a new session                                                      *)

(* What is sent once the connect sequence has come past the CONNACK is no    *)
(* CONNACK.                                                                  *)
LEMMA NoMoreConnacks ==
    ASSUME IInv, NewSession, NEW s \in Seq(Packets), out' = out \/ out' = out \o s,
           \A p \in On(s) : p.type # "CONNACK",
           \A k \in Conns : stage'[k] \notin {"assigned", "registered"},
           UNCHANGED <<client, delivered>>
    PROVE  NewSession'
<1>1. out \in Seq(Packets) /\ Len(out) \in Nat /\ Len(s) \in Nat
  BY DEF IInv, TypeOK, NetworkType
<1>2. \A i \in 1..Len(out') : out'[i].type = "CONNACK" =>
         i \in 1..Len(out) /\ out[i].type = "CONNACK"
  <2>1. CASE out' = out
    BY <2>1
  <2>2. CASE out' = out \o s
    <3> SUFFICES ASSUME NEW i \in 1..Len(out \o s), (out \o s)[i].type = "CONNACK"
                 PROVE  i \in 1..Len(out) /\ out[i].type = "CONNACK"
      BY <2>2
    <3>1. \/ i \in 1..Len(out) /\ (out \o s)[i] = out[i]
          \/ i - Len(out) \in 1..Len(s) /\ (out \o s)[i] = s[i - Len(out)]
      BY <1>1
    <3>2. \A j \in 1..Len(s) : s[j].type # "CONNACK"
      BY DEF On
    <3> QED
      BY <3>1, <3>2
  <2> QED
    BY <2>1, <2>2
<1> QED
  BY <1>2 DEF NewSession, Undelivered

(* The device takes the first packet, and a message with it at most when     *)
(* there is a connection.                                                    *)
LEMMA TakesKeepsNew ==
    ASSUME Turns, NewSession, NEW type, DeviceTakes(type), UNCHANGED <<stage, client>>,
           delivered' = delivered \/ client # 0
    PROVE  NewSession'
<1>1. out \in Seq(Packets) /\ out # <<>> /\ out' = Tail(out)
  BY DEF DeviceTakes, Turns, IInv, TypeOK, NetworkType
<1>2. \A i \in 1..Len(Tail(out)) : i + 1 \in 1..Len(out) /\ Tail(out)[i] = out[i + 1] /\ i + 1 # 1
  BY <1>1
<1>3. \A i \in 1..Len(out') : out'[i].type # "CONNACK"
  BY <1>1, <1>2 DEF NewSession
<1>4. \A k \in Conns : stage[k] \notin {"assigned", "registered"}
  BY <1>1 DEF NewSession
<1> QED
  BY <1>3, <1>4 DEF NewSession, Undelivered

LEMMA NewSessionFrame ==
    ASSUME NewSession, UNCHANGED <<out, client, delivered, present>>,
           \A k \in Conns : stage'[k] \in {"assigned", "registered"}
                               => stage[k] \in {"assigned", "registered"}
    PROVE  NewSession'
  BY DEF NewSession, Undelivered

LEMMA ConnectKeepsNew ==
    ASSUME InTurn, Turns, IdsSound, NewSession, NEW k \in Conns,
           Assign(k) \/ ConnectStep(k) \/ Close(k)
    PROVE  NewSession'
<1>0. stage \in [Conns -> StageNames] /\ present \in [Conns -> BOOLEAN]
  BY DEF Turns, IInv, TypeOK, ConnectionsType, StageNames
<1>1. CASE Assign(k)
  <2>1. /\ ThreadFree /\ client' = k /\ out' = <<>> /\ delivered' = delivered
        /\ present' = [present EXCEPT ![k] = client # 0 \/ restored]
        /\ stage' = [stage EXCEPT ![k] = "assigned"]
    BY <1>1 DEF Assign
  <2>2. \A j \in Conns : stage[j] \in {"unused", "live", "dead"}
    BY <2>1, NobodyBusy DEF Turns
  <2>3. /\ \A j \in Conns : stage'[j] \in {"assigned", "registered"} => j = k
        /\ present'[k] \/ client = 0
    BY <1>0, <2>1, <2>2
  <2>4. Len(out') = 0 /\ k # 0
    BY <2>1 DEF Conns
  <2> QED
    BY <2>1, <2>3, <2>4 DEF NewSession, Undelivered
<1>2. CASE SetSessionProperties(k) \/ PickClient(k) \/ CopyPending(k)
  <2>1. /\ UNCHANGED <<out, client, delivered, present>>
        /\ \/ stage[k] = "assigned" /\ stage' = [stage EXCEPT ![k] = "registered"]
           \/ \E s \in {"live", "picked", "copied"} : stage' = [stage EXCEPT ![k] = s]
    BY <1>2 DEF SetSessionProperties, PickClient, CopyPending, session, network, peer
  <2>2. \A j \in Conns : stage'[j] \in {"assigned", "registered"}
                            => stage[j] \in {"assigned", "registered"}
    BY <1>0, <2>1
  <2> QED
    BY <2>1, <2>2, NewSessionFrame
<1>3. CASE SendConnack(k)
  <2>1. /\ stage[k] = "registered" /\ stage' = [stage EXCEPT ![k] = "acknowledged"]
        /\ Send(k, <<ConnAck(present[k])>>)
        /\ UNCHANGED <<client, delivered, present>>
    BY <1>3 DEF SendConnack, session, peer
  <2>2. out = <<>> /\ (present[k] \/ Undelivered)
    BY <2>1 DEF NewSession
  <2>3. out' = <<>> \/ out' = <<ConnAck(present[k])>>
    BY <2>1, <2>2 DEF Send
  <2>4. \A j \in Conns : stage'[j] \notin {"assigned", "registered"}
    <3>1. \A j \in Conns : j # k => stage[j] \in {"unused", "dead"}
      BY <2>1, CalmAtGreeting DEF IdsSound
    <3> QED
      BY <1>0, <2>1, <3>1
  <2>5. \A i \in 1..Len(out') : i = 1 /\ (out'[i].type = "CONNACK" => ~present[k])
    <3> DEFINE c == ConnAck(present[k])
    <3>1. c.type = "CONNACK" => ~present[k]
      BY <1>0 DEF ConnAck
    <3> HIDE DEF c
    <3>2. CASE out' = <<>>
      BY <3>2
    <3>3. CASE out' = <<c>>
      BY <3>1, <3>3
    <3> QED
      BY <2>3, <3>2, <3>3 DEF c
  <2> QED
    BY <2>1, <2>2, <2>4, <2>5 DEF NewSession, Undelivered
<1>4. CASE WritePending(k)
  <2>1. /\ stage[k] = "copied" /\ stage' = [stage EXCEPT ![k] = "live"]
        /\ UNCHANGED <<client, delivered>>
    BY <1>4 DEF WritePending, session, peer
  <2>2. \A j \in Conns : stage'[j] \notin {"assigned", "registered"}
    <3>1. \A j \in Conns : j # k => stage[j] \in {"unused", "dead"}
      BY <2>1, CalmAtGreeting DEF IdsSound
    <3> QED
      BY <1>0, <2>1, <3>1
  <2>3. PICK s \in Seq(Packets) : /\ out' = out \/ out' = out \o s
                                  /\ \A p \in On(s) : p.type # "CONNACK"
    BY <1>4, WhatIsResent
  <2> QED
    BY <2>1, <2>2, <2>3, NoMoreConnacks DEF Turns
<1>5. CASE Close(k)
  <2>1. /\ stage[k] = "live" /\ stage' = [stage EXCEPT ![k] = "dead"]
        /\ out' = <<>> \/ out' = out
        /\ UNCHANGED <<client, delivered, present>>
    BY <1>5 DEF Close, session, peer
  <2>2. \A j \in Conns : stage'[j] \notin {"assigned", "registered"}
    BY <1>0, <2>1, NobodyConnects
  <2>3. Len(<<>>) = 0
    OBVIOUS
  <2> QED
    BY <2>1, <2>2, <2>3 DEF NewSession, Undelivered
<1> QED
  BY <1>1, <1>2, <1>3, <1>4, <1>5 DEF ConnectStep

LEMMA NewSessionStep ==
    ASSUME InTurn, Turns, IdsSound, NewSession, [Next]_vars
    PROVE  NewSession'
<1>1. CASE UNCHANGED <<out, client, delivered, present, stage>>
  BY <1>1, NewSessionFrame
<1>2. ASSUME NEW t \in Publishers, WriteToClient(t) PROVE NewSession'
  <2>1. pc[t] = "write" /\ UNCHANGED <<stage, client, delivered>>
    BY <1>2 DEF WriteToClient, session, connections, peer
  <2>2. \A k \in Conns : stage'[k] \notin {"assigned", "registered"}
    BY <2>1, NobodyConnects
  <2>3. packetId[t] \in Ids /\ msg[t] \in Msgs
    BY <2>1, BoundsAssumption
       DEF Turns, IInv, TypeOK, WorldType, WritersHaveIds, MessagesDistinct, Msgs
  <2> DEFINE p == Publish(packetId[t], msg[t])
             one == <<p>>
  <2>4. one \in Seq(Packets) /\ p.type = "PUBLISH"
    BY <2>3, PacketTypes DEF Publish
  <2>5. out' = out \/ out' = out \o one
    BY <1>2 DEF WriteToClient, Send
  <2> HIDE DEF p
  <2>6. On(one) = {p}
    BY OnOne
  <2> HIDE DEF one
  <2> QED
    BY <2>1, <2>2, <2>4, <2>5, <2>6, NoMoreConnacks DEF Turns
<1>3. ASSUME NEW k \in Conns, StoreOutgoingQoS2(k) PROVE NewSession'
  <2>1. receivedRec[k] # 0 /\ UNCHANGED <<stage, client, delivered>>
    BY <1>3 DEF StoreOutgoingQoS2, session, peer
  <2>2. \A j \in Conns : stage'[j] \notin {"assigned", "registered"}
    <3>1. stage[k] = "live"
      BY <2>1 DEF Turns, HandlersInTurn
    <3> QED
      BY <2>1, <3>1, NobodyConnects
  <2>3. receivedRec[k] \in Ids
    BY <2>1, BoundsAssumption DEF Turns, IInv, TypeOK, ConnectionsType, Ids
  <2> DEFINE p == PubRel(receivedRec[k])
             one == <<p>>
  <2>4. one \in Seq(Packets) /\ p.type = "PUBREL"
    BY <2>3, PacketTypes DEF PubRel
  <2>5. out' = out \/ out' = out \o one
    BY <1>3 DEF StoreOutgoingQoS2, Send
  <2> HIDE DEF p
  <2>6. On(one) = {p}
    BY OnOne
  <2> HIDE DEF one
  <2> QED
    BY <2>1, <2>2, <2>4, <2>5, <2>6, NoMoreConnacks DEF Turns
<1>4. CASE DeviceStep
  <2>1. \E type : DeviceTakes(type) /\ (type # "PUBLISH" => delivered' = delivered)
    BY <1>4 DEF DeviceStep, DeviceConnected, DeviceReceivesQos1, DeviceReceivesQos2,
       DeviceRefuses, DeviceReleases
  <2>2. UNCHANGED <<stage, client>>
    BY <1>4 DEF DeviceStep, DeviceConnected, DeviceReceivesQos1, DeviceReceivesQos2,
       DeviceRefuses, DeviceReleases, session, connections
  <2>3. ASSUME DeviceTakes("PUBLISH") PROVE client # 0
    <3>1. Head(out).id \in Ids /\ Head(out) \in On(out)
      BY <2>3, DeviceTakesType, OnTail
         DEF DeviceTakes, Turns, IInv, TypeOK, NetworkType
    <3>2. Head(out).id \in IdsOn(out) /\ Head(out).id # 0
      BY <3>1 DEF IdsOn, Ids
    <3>3. peerConn \in Conns /\ stage[peerConn] = "live"
      BY <3>2 DEF IdsSound, NetworkInTurn
    <3> QED
      BY <3>3 DEF Turns, ConnsInTurn, Opened, Conns
  <2> QED
    BY <2>1, <2>2, <2>3, TakesKeepsNew
<1>5. ~Restart
  BY DEF Restart, InTurn, Turns, IInv, TypeOK, WorldType
<1>6. ASSUME NEW t \in Publishers, BeginWrite(t) \/ DropForQuota(t) \/ TakeId(t)
      PROVE  UNCHANGED <<out, client, delivered, present, stage>>
  BY <1>6 DEF BeginWrite, DropForQuota, TakeId, session, connections, network, peer
<1>7. ASSUME NEW k \in Conns, HandlePubAck(k) \/ HandlePubRec(k) \/ HandlePubRecError(k)
                              \/ HandlePubComp(k)
      PROVE  UNCHANGED <<out, client, delivered, present, stage>>
  BY <1>7 DEF HandlePubAck, HandlePubRec, HandlePubRecError, HandlePubComp,
     session, connections, peer
<1>8. ASSUME (\E m \in Msgs : Expire(m)) \/ Finished \/ UNCHANGED vars
      PROVE  UNCHANGED <<out, client, delivered, present, stage>>
  BY <1>8 DEF Expire, Finished, vars, session, connections, network, peer
<1> QED
  BY <1>1, <1>2, <1>3, <1>4, <1>5, <1>6, <1>7, <1>8, ConnectKeepsNew
     DEF Next, WritePacketStep, AckStep

LEMMA NewSessionHolds == ASSUME InTurn PROVE Spec => []NewSession
<1>1. Init => NewSession
  <2> SUFFICES ASSUME Init PROVE NewSession
    OBVIOUS
  <2>1. Len(out) = 0
    BY DEF Init
  <2> QED
    BY <2>1 DEF Init, NewSession, Undelivered
<1>2. Turns /\ IdsSound /\ NewSession /\ [Next]_vars => NewSession'
  BY NewSessionStep
<1> QED
  BY <1>1, <1>2, IdsHold, PTL DEF Spec

-----------------------------------------------------------------------------
(* QoS 2: the publishes on the way and the queue                             *)

(* Without a publish or a PUBREL on the way there is little to match.        *)
LEMMA NothingToMatch ==
    ASSUME \A p \in On(out) : p.type \notin {"PUBLISH", "PUBREL"},
           \A t \in Publishers : pc[t] # "write",
           \A k \in Conns : stage[k] = "copied" =>
              \A id \in DOMAIN pending[k].publishes :
                  id \in Queued /\ queue[id] = pending[k].publishes[id]
    PROVE  PublishMatches
  BY DEF PublishMatches

LEMMA NothingToMatchAfter ==
    /\ \A p \in On(out)' : p.type \notin {"PUBLISH", "PUBREL"}
    /\ \A t \in Publishers : pc'[t] # "write"
    /\ \A k \in Conns : stage'[k] = "copied" =>
          \A id \in DOMAIN pending'[k].publishes :
              id \in Queued' /\ queue'[id] = pending'[k].publishes[id]
    => PublishMatches'
  BY DEF PublishMatches, On

LEMMA ConnectMatches ==
    ASSUME InTurn, Turns, Turns', IdsSound, NewSession, NEW k \in Conns,
           Assign(k) \/ SetSessionProperties(k) \/ SendConnack(k) \/ PickClient(k)
             \/ CopyPending(k) \/ Close(k)
    PROVE  PublishMatches'
<1>0. stage \in [Conns -> StageNames] /\ pending \in [Conns -> Pendings]
      /\ pc \in [Publishers -> {"idle", "lock", "write"}]
  BY DEF Turns, IInv, TypeOK, ConnectionsType, WritersType, StageNames
<1>1. CASE Assign(k) \/ Close(k)
  <2>1. /\ ThreadFree /\ pc' = pc /\ \E s \in {"assigned", "dead"} : stage' = [stage EXCEPT ![k] = s]
    BY <1>1 DEF Assign, Close, writers
  <2>2. /\ \A t \in Publishers : pc'[t] = "idle"
        /\ \A j \in Conns : stage'[j] # "copied"
    BY <1>0, <2>1, NobodyBusy DEF Turns
  <2>3. out' = <<>>
    <3>1. Close(k) => k = peerConn
      BY DEF Close, Turns, ConnsInTurn, Opened
    <3> QED
      BY <1>1, <3>1 DEF Assign, Close
  <2>4. On(out)' = {}
    BY <2>3, OnNothing DEF On
  <2> QED
    BY <2>2, <2>4, NothingToMatchAfter
<1>2. CASE SetSessionProperties(k) \/ SendConnack(k) \/ PickClient(k) \/ CopyPending(k)
  <2>1. /\ stage[k] \in {"assigned", "registered", "acknowledged", "picked"}
        /\ \E s \in {"registered", "acknowledged", "live", "picked", "copied"} :
              stage' = [stage EXCEPT ![k] = s]
        /\ UNCHANGED <<in, receivedRec, pc>>
    BY <1>2 DEF SetSessionProperties, SendConnack, PickClient, CopyPending, network, writers
  <2>2. /\ Calm /\ \A t \in Publishers : pc[t] = "idle"
        /\ \A j \in Conns : j # k => stage[j] \in {"unused", "dead"}
    BY <2>1, CalmAtGreeting DEF IdsSound
  <2>3. \A j \in Conns : stage'[j] = "copied" => j = k /\ CopyPending(k)
    <3>1. \A j \in Conns : j # k => stage'[j] = stage[j]
      BY <1>0, <2>1
    <3>2. ~CopyPending(k) => stage'[k] # "copied"
      BY <1>0, <1>2 DEF SetSessionProperties, SendConnack, PickClient
    <3> QED
      BY <2>2, <3>1, <3>2
  <2>4. \A p \in On(out)' : p.type \notin {"PUBLISH", "PUBREL"}
    <3>1. CASE out' = out
      BY <2>2, <3>1, CalmTypes DEF Turns, On
    <3>2. CASE SendConnack(k)
      <4> DEFINE c == ConnAck(present[k])
      <4>1. stage[k] = "registered" /\ Send(k, <<c>>)
        BY <3>2 DEF SendConnack
      <4>2. out = <<>>
        BY <4>1 DEF NewSession
      <4>3. out' = <<>> \/ out' = <<c>>
        BY <4>1, <4>2 DEF Send
      <4>4. c.type \notin {"PUBLISH", "PUBREL"}
        BY DEF ConnAck
      <4> HIDE DEF c
      <4>5. On(out)' \subseteq {c}
        BY <4>3 DEF On
      <4> QED
        BY <4>4, <4>5
    <3> QED
      BY <1>2, <3>1, <3>2 DEF SetSessionProperties, PickClient, CopyPending, network
  <2>5. ASSUME CopyPending(k) PROVE \A id \in DOMAIN pending'[k].publishes :
           id \in Queued' /\ queue'[id] = pending'[k].publishes[id]
    <3>1. PICK gone :
             /\ queue' = Without(queue, Queued \ Kept(gone))
             /\ pending' = [pending EXCEPT ![k] =
                               [to |-> pending[k].to,
                                publishes |-> [id \in Kept(gone) |-> queue[id]],
                                releases |-> outgoingQoS2]]
      BY <2>5 DEF CopyPending
    <3>2. pending'[k].publishes = [id \in Kept(gone) |-> queue[id]]
      BY <1>0, <3>1
    <3>3. Kept(gone) \subseteq Queued
      BY DEF Kept
    <3> QED
      BY <3>1, <3>2, <3>3 DEF Without, Queued
  <2> QED
    BY <2>1, <2>2, <2>3, <2>4, <2>5, NothingToMatchAfter
<1> QED
  BY <1>1, <1>2

LEMMA WritePendingMatches ==
    ASSUME InTurn, Turns, Turns', IdsSound, PublishMatches, NEW k \in Conns, WritePending(k)
    PROVE  PublishMatches'
<1>1. /\ stage[k] = "copied" /\ stage' = [stage EXCEPT ![k] = "live"]
      /\ UNCHANGED <<outgoingQoS2, queue, published, destroyOnDisconnect, pc>>
  BY DEF WritePending, qosData, session, writers
<1>2. /\ Calm /\ (\A t \in Publishers : pc[t] = "idle")
      /\ \A j \in Conns : j # k => stage[j] \in {"unused", "dead"}
  BY <1>1, CalmAtGreeting DEF IdsSound
<1>3. PICK s \in Seq(Packets) :
              /\ out' = out \/ out' = out \o s
              /\ \A p \in On(s) :
                    \/ /\ p.type = "PUBLISH" /\ p.id \in DOMAIN pending[k].publishes
                       /\ p.msg = pending[k].publishes[p.id]
                    \/ p.type = "PUBREL" /\ p.id \in pending[k].releases
  BY WhatIsResent
<1>4. On(out)' \subseteq On(out) \cup On(s)
  <2>1. out \in Seq(Packets)
    BY DEF Turns, IInv, TypeOK, NetworkType
  <2>2. On(out \o s) = On(out) \cup On(s)
    BY <2>1, OnConcat
  <2> QED
    BY <1>3, <2>2 DEF On
<1>5. \A p \in On(out) : p.type \notin {"PUBLISH", "PUBREL"}
  BY <1>2, CalmTypes DEF Turns
<1>6. pending[k].releases \subseteq outgoingQoS2
  BY <1>1 DEF IdsSound, UnfinishedUsed
<1>7. \A id \in DOMAIN pending[k].publishes :
         id \in Queued /\ queue[id] = pending[k].publishes[id]
  BY <1>1 DEF PublishMatches
<1>8. \A p \in On(out)' : /\ p.type = "PUBLISH" => p.id \in Queued /\ queue[p.id] = p.msg
                          /\ p.type = "PUBREL" => p.id \in outgoingQoS2
  BY <1>3, <1>4, <1>5, <1>6, <1>7
<1>9. /\ \A i \in Queued : queue[i] <= published
      /\ \A i, j \in Queued : queue[i] = queue[j] => i = j
  BY DEF Turns, IInv, MessagesDistinct
<1>10. \A j \in Conns : stage'[j] # "copied"
  BY <1>1, <1>2 DEF Turns, IInv, TypeOK, ConnectionsType
<1> QED
  BY <1>1, <1>2, <1>8, <1>9, <1>10 DEF PublishMatches, Queued, On

LEMMA WriteStepMatches ==
    ASSUME InTurn, Turns, Turns', IdsSound, PublishMatches, NEW t \in Publishers, WritePacketStep(t)
    PROVE  PublishMatches'
<1>0. /\ pc \in [Publishers -> {"idle", "lock", "write"}] /\ msg \in [Publishers -> 0..MaxMsgs]
      /\ packetId \in [Publishers -> 0..MaxId] /\ published \in 0..MaxMsgs
      /\ out \in Seq(Packets)
  BY DEF Turns, IInv, TypeOK, WritersType, WorldType, NetworkType
<1>1. CASE BeginWrite(t)
  <2>1. /\ pc' = [pc EXCEPT ![t] = "lock"] /\ msg' = [msg EXCEPT ![t] = published + 1]
        /\ published' = published + 1 /\ ThreadFree
        /\ UNCHANGED <<out, queue, destroyOnDisconnect, outgoingQoS2, stage, pending>>
    BY <1>1 DEF BeginWrite, qosData, session, connections, network
  <2>2. \A u \in Publishers : pc[u] = "idle"
    BY <2>1, NobodyBusy DEF Turns
  <2>3. \A u \in Publishers : /\ pc'[u] # "write"
                              /\ pc'[u] # "idle" => msg'[u] = published + 1
    BY <1>0, <2>1, <2>2
  <2>4. \A p \in On(out) : p \in Packets /\ (p.type = "PUBLISH" => p.msg <= published)
    BY <1>0, OnType DEF PublishMatches
  <2>5. \A p \in On(out) : p.type = "PUBLISH" => p.msg \in Int
    <3>1. \A p \in Packets : p.type = "PUBLISH" => p.msg \in Int
      <4> SUFFICES ASSUME NEW p \in Packets, p.type = "PUBLISH" PROVE p.msg \in Int
        OBVIOUS
      <4>1. PICK id \in Ids, m \in Msgs : p = Publish(id, m)
        BY DEF Packets, PubRel, ConnAck
      <4> QED
        BY <4>1 DEF Publish, Msgs
    <3> QED
      BY <2>4, <3>1
  <2>6. \A p \in On(out) : p.type = "PUBLISH" => p.msg <= published + 1 /\ p.msg # published + 1
    BY <1>0, <2>4, <2>5
  <2> QED
    BY <2>1, <2>3, <2>6 DEF PublishMatches, Queued, On
<1>2. CASE DropForQuota(t)
  <2>1. PICK cleared \in Clearable(t) : queue' = Without(queue, cleared)
    BY <1>2 DEF DropForQuota
  <2>2. /\ pc[t] = "lock" /\ pc' = [pc EXCEPT ![t] = "idle"]
        /\ UNCHANGED <<out, destroyOnDisconnect, outgoingQoS2, stage, pending, published>>
    BY <1>2 DEF DropForQuota, FinishWrite, session, connections, network
  <2>3. \A u \in Publishers : pc'[u] = "idle"
    BY <1>0, <2>2 DEF Turns, HandlersInTurn
  <2>4. \A k \in Conns : stage[k] # "copied"
    BY <2>2, NobodyConnects
  <2>5. cleared = {} \/ Calm
    BY <2>2, ClearedIds
  <2>6. CASE cleared = {}
    <3>1. Queued' = Queued /\ \A i \in Queued : queue'[i] = queue[i]
      BY <2>1, <2>6 DEF Without, Queued
    <3> QED
      BY <2>2, <2>3, <2>4, <3>1 DEF PublishMatches, On
  <2>7. CASE Calm
    <3>1. \A p \in On(out)' : p.type \notin {"PUBLISH", "PUBREL"}
      BY <2>2, <2>7, CalmTypes DEF Turns, On
    <3> QED
      BY <2>2, <2>3, <2>4, <3>1, NothingToMatchAfter
  <2> QED
    BY <2>5, <2>6, <2>7
<1>3. CASE TakeId(t)
  <2>1. PICK cleared \in Clearable(t) :
           /\ IdAvailable(usedIds \ cleared, IncreasedQuota(cleared))
           /\ packetId' = [packetId EXCEPT ![t] = FirstFree(usedIds \ cleared)]
           /\ queue' = IF destroyOnDisconnect THEN Without(queue, cleared)
                       ELSE [i \in DOMAIN Without(queue, cleared) \cup {FirstFree(usedIds \ cleared)} |->
                               IF i = FirstFree(usedIds \ cleared) THEN msg[t]
                               ELSE Without(queue, cleared)[i]]
    BY <1>3 DEF TakeId
  <2>2. /\ pc[t] = "lock" /\ pc' = [pc EXCEPT ![t] = "write"]
        /\ UNCHANGED <<out, destroyOnDisconnect, outgoingQoS2, stage, pending, published, msg>>
    BY <1>3 DEF TakeId, session, connections, network
  <2> DEFINE id == FirstFree(usedIds \ cleared)
  <2>3. \A u \in Publishers : pc'[u] # "idle" => u = t
    BY <1>0, <2>2 DEF Turns, HandlersInTurn
  <2>4. \A k \in Conns : stage[k] # "copied"
    BY <2>2, NobodyConnects
  <2>5. packetId'[t] = id
    BY <1>0, <2>1
  <2>6. id \in Ids \ (usedIds \ cleared)
    <3>1. nextPacketId \in 0..MaxId
      BY DEF Turns, IInv, TypeOK, QosDataType
    <3> QED
      BY <2>1, <3>1, FirstFreeIsFree DEF IdAvailable
  <2>7. ~destroyOnDisconnect => /\ Queued' = (Queued \ cleared) \cup {id}
                                /\ queue'[id] = msg[t]
                                /\ \A i \in Queued \ cleared : i # id => queue'[i] = queue[i]
    BY <2>1 DEF Without, Queued
  <2> HIDE DEF id
  <2>8. cleared = {} \/ Calm
    BY <2>2, ClearedIds
  <2>9. \A p \in On(out) : p.type = "PUBLISH" => p.id \notin cleared /\ p.id # id
    <3>1. CASE Calm
      BY <3>1, CalmTypes DEF Turns
    <3>2. CASE cleared = {}
      <4>1. \A p \in On(out) : p.type = "PUBLISH" => p.id \in usedIds
        <5>1. \A p \in On(out) : p.type = "PUBLISH" => p.id # 0
          <6>1. \A p \in Packets : p.type = "PUBLISH" => p.id \in Ids
            BY PacketIds
          <6>2. On(out) \subseteq Packets /\ 0 \notin Ids
            BY <1>0, OnType DEF Ids
          <6> QED
            BY <6>1, <6>2
        <5> QED
          BY <5>1 DEF IdsSound, CarriedIdsAreUsed
      <4> QED
        BY <2>6, <3>2, <4>1
    <3> QED
      BY <2>8, <3>1, <3>2
  <2>10. \A p \in On(out) : p.type = "PUBLISH" /\ ~destroyOnDisconnect =>
            p.id \in Queued' /\ queue'[p.id] = p.msg
    BY <2>7, <2>9 DEF PublishMatches
  <2> QED
    BY <2>2, <2>3, <2>4, <2>5, <2>7, <2>10 DEF PublishMatches, On
<1>4. CASE WriteToClient(t)
  <2> DEFINE p == Publish(packetId[t], msg[t])
             one == <<p>>
  <2>1. /\ pc[t] = "write" /\ pc' = [pc EXCEPT ![t] = "idle"]
        /\ UNCHANGED <<queue, destroyOnDisconnect, outgoingQoS2, stage, pending, published>>
    BY <1>4 DEF WriteToClient, FinishWrite, qosData, session, connections, world
  <2>2. \A u \in Publishers : pc'[u] = "idle"
    BY <1>0, <2>1 DEF Turns, HandlersInTurn
  <2>3. \A k \in Conns : stage[k] # "copied"
    BY <2>1, NobodyConnects
  <2>4. packetId[t] \in Ids /\ msg[t] \in Msgs /\ msg[t] <= published
    BY <2>1, BoundsAssumption
       DEF Turns, IInv, TypeOK, WorldType, WritersHaveIds, MessagesDistinct, Msgs
  <2>5. /\ one \in Seq(Packets) /\ p.type = "PUBLISH" /\ p.id = packetId[t] /\ p.msg = msg[t]
    BY <2>4, PacketTypes DEF Publish
  <2>6. out' = out \/ out' = out \o one
    BY <1>4 DEF WriteToClient, Send
  <2> HIDE DEF p
  <2>7. On(one) = {p}
    BY OnOne
  <2> HIDE DEF one
  <2>8. On(out)' \subseteq On(out) \cup {p}
    <3>1. On(out \o one) = On(out) \cup {p}
      BY <1>0, <2>5, <2>7, OnConcat
    <3> QED
      BY <2>6, <3>1 DEF On
  <2>9. /\ ~destroyOnDisconnect => packetId[t] \in Queued /\ queue[packetId[t]] = msg[t]
        /\ \A q \in On(out) : q.type = "PUBLISH" => q.msg # msg[t]
    BY <2>1 DEF PublishMatches
  <2>10. \A q \in On(out)' : q.type = "PUBLISH" =>
            /\ q.msg <= published
            /\ ~destroyOnDisconnect => q.id \in Queued /\ queue[q.id] = q.msg
    BY <2>4, <2>5, <2>8, <2>9 DEF PublishMatches
  <2>11. \A q, r \in On(out)' :
            q.type = "PUBLISH" /\ r.type = "PUBLISH" /\ q.msg = r.msg => q.id = r.id
    BY <2>5, <2>8, <2>9 DEF PublishMatches
  <2>12. \A q \in On(out)' : q.type = "PUBREL" => q.id \in outgoingQoS2
    BY <2>5, <2>8 DEF PublishMatches
  <2> QED
    BY <2>1, <2>2, <2>3, <2>10, <2>11, <2>12 DEF PublishMatches, Queued, On
<1> QED
  BY <1>1, <1>2, <1>3, <1>4 DEF WritePacketStep

LEMMA AckMatches ==
    ASSUME InTurn, Turns, Turns', IdsSound, PublishMatches, NEW k \in Conns, AckStep(k)
    PROVE  PublishMatches'
<1>0. out \in Seq(Packets)
  BY DEF Turns, IInv, TypeOK, NetworkType
<1>1. CASE StoreOutgoingQoS2(k)
  <2> DEFINE p == PubRel(receivedRec[k])
             one == <<p>>
  <2>1. /\ receivedRec[k] # 0 /\ outgoingQoS2' = outgoingQoS2 \cup {receivedRec[k]}
        /\ UNCHANGED <<queue, destroyOnDisconnect, stage, pc, packetId, msg, pending, published>>
    BY <1>1 DEF StoreOutgoingQoS2, session, writers, world
  <2>2. (\A t \in Publishers : pc[t] = "idle") /\ \A j \in Conns : stage[j] # "copied"
    <3>1. stage[k] = "live"
      BY <2>1 DEF Turns, HandlersInTurn
    <3> QED
      BY <2>1, <3>1, NobodyConnects DEF Turns, HandlersInTurn
  <2>3. receivedRec[k] \in Ids
    BY <2>1, BoundsAssumption DEF Turns, IInv, TypeOK, ConnectionsType, Ids
  <2>4. one \in Seq(Packets) /\ p.type = "PUBREL" /\ p.id = receivedRec[k]
    BY <2>3, PacketTypes DEF PubRel
  <2>5. out' = out \/ out' = out \o one
    BY <1>1 DEF StoreOutgoingQoS2, Send
  <2> HIDE DEF p
  <2>6. On(one) = {p}
    BY OnOne
  <2> HIDE DEF one
  <2>7. On(out)' \subseteq On(out) \cup {p}
    <3>1. On(out \o one) = On(out) \cup {p}
      BY <1>0, <2>4, <2>6, OnConcat
    <3> QED
      BY <2>5, <3>1 DEF On
  <2> QED
    BY <2>1, <2>2, <2>4, <2>7 DEF PublishMatches, Queued, On
<1>2. CASE ~StoreOutgoingQoS2(k)
  <2> DEFINE id == Head(in[k]).id
  <2>1. /\ \E type : Received(k, type)
        /\ outgoingQoS2 \ {id} \subseteq outgoingQoS2'
        /\ queue' = queue \/ queue' = Without(queue, {id})
        /\ UNCHANGED <<out, destroyOnDisconnect, stage, pc, packetId, msg, pending, published>>
    BY <1>2 DEF AckStep, HandlePubAck, HandlePubRec, HandlePubRecError, HandlePubComp,
       ClearQosMessage, session, writers, connections, world
  <2>2. id \notin IdsOn(out) /\ stage[k] = "live" /\ \A t \in Publishers : pc[t] = "idle"
    BY <2>1, AckTaken
  <2>3. \A j \in Conns : stage[j] # "copied"
    BY <2>2, NobodyConnects
  <2> HIDE DEF id
  <2>4. \A p \in On(out) : p.id # id
    BY <2>2 DEF IdsOn
  <2>5. \A i \in Queued : i # id => i \in Queued' /\ queue'[i] = queue[i]
    BY <2>1 DEF Queued, Without
  <2>6. \A p \in On(out) : p.type = "PUBLISH" /\ ~destroyOnDisconnect =>
           p.id \in Queued' /\ queue'[p.id] = p.msg
    BY <2>4, <2>5 DEF PublishMatches
  <2>7. \A p \in On(out) : p.type = "PUBREL" => p.id \in outgoingQoS2'
    BY <2>1, <2>4 DEF PublishMatches
  <2> QED
    BY <2>1, <2>2, <2>3, <2>6, <2>7 DEF PublishMatches, On
<1> QED
  BY <1>1, <1>2

LEMMA PublishMatchesStep ==
    ASSUME InTurn, Turns, Turns', IdsSound, NewSession, PublishMatches, [Next]_vars
    PROVE  PublishMatches'
<1>1. CASE DeviceStep
  <2>1. /\ out # <<>> /\ out' = Tail(out)
        /\ UNCHANGED <<queue, destroyOnDisconnect, stage, pc, packetId, msg, pending, published,
                       outgoingQoS2>>
    BY <1>1 DEF DeviceStep, DeviceTakes, DeviceConnected, DeviceReceivesQos1, DeviceReceivesQos2,
       DeviceRefuses, DeviceReleases, qosData, session, writers, connections, world
  <2>2. On(out)' \subseteq On(out)
    <3>1. out \in Seq(Packets)
      BY DEF Turns, IInv, TypeOK, NetworkType
    <3>2. On(Tail(out)) \subseteq On(out)
      BY <2>1, <3>1, OnTail
    <3> QED
      BY <2>1, <3>2 DEF On
  <2> QED
    BY <2>1, <2>2 DEF PublishMatches, Queued, On
<1>2. CASE (\E m \in Msgs : Expire(m)) \/ Finished \/ UNCHANGED vars
  <2>1. UNCHANGED <<queue, destroyOnDisconnect, stage, pc, packetId, msg, pending, published,
                    outgoingQoS2, out>>
    BY <1>2 DEF Expire, Finished, vars, qosData, session, writers, connections, network, world
  <2> QED
    BY <2>1 DEF PublishMatches, Queued, On
<1>3. ~Restart
  BY DEF Restart, InTurn, Turns, IInv, TypeOK, WorldType
<1> QED
  BY <1>1, <1>2, <1>3, ConnectMatches, WritePendingMatches, WriteStepMatches, AckMatches
     DEF Next, ConnectStep

LEMMA PublishMatchesHolds == ASSUME InTurn PROVE Spec => []PublishMatches
<1>1. Init => PublishMatches
  <2> SUFFICES ASSUME Init PROVE PublishMatches
    OBVIOUS
  <2>1. On(out) = {}
    BY OnNothing DEF Init
  <2> QED
    BY <2>1 DEF Init, PublishMatches
<1>2. Turns /\ Turns' /\ IdsSound /\ NewSession /\ PublishMatches /\ [Next]_vars
         => PublishMatches'
  BY PublishMatchesStep
<1> QED
  BY <1>1, <1>2, IdsHold, NewSessionHolds, PTL DEF Spec

-----------------------------------------------------------------------------
(* QoS 2: what the device has delivered                                      *)

(* A step of the broker queues and sends no delivered message but those the  *)
(* device knows the id of: what it queues or sends was queued or sent before, *)
(* or is a message that writePacket is just handling.                        *)
LEMMA KnownKept ==
    ASSUME Turns, DeliveredIsKnown, UNCHANGED <<delivered, peerReceived>>,
           published' = published \/ published' = published + 1,
           \A t \in Publishers : pc'[t] # "idle" =>
              \/ pc[t] # "idle" /\ msg'[t] = msg[t]
              \/ msg'[t] = published + 1,
           QueueCounts' => \A id \in Queued' :
              \/ QueueCounts /\ id \in Queued /\ queue'[id] = queue[id]
              \/ \E t \in Publishers : pc[t] # "idle" /\ queue'[id] = msg[t],
           \A p \in On(out)' : p.type = "PUBLISH" =>
              \/ p \in On(out)
              \/ QueueCounts /\ p.id \in Queued /\ queue[p.id] = p.msg
              \/ \E t \in Publishers : pc[t] # "idle" /\ p.msg = msg[t]
    PROVE  DeliveredIsKnown'
<1> SUFFICES ASSUME NEW m \in Qos2, delivered[m] > 0
             PROVE  /\ m <= published'
                    /\ \A t \in Publishers : pc'[t] # "idle" => msg'[t] # m
                    /\ QueueCounts' => \A id \in Queued' : queue'[id] = m => id \in peerReceived
                    /\ \A p \in On(out)' : p.type = "PUBLISH" /\ p.msg = m => p.id \in peerReceived
  BY DEF DeliveredIsKnown, Queued, On
<1>1. m \in Int /\ published \in Int
  BY SetsAssumption, BoundsAssumption DEF Turns, IInv, TypeOK, WorldType, Msgs
<1>2. /\ m <= published
      /\ \A t \in Publishers : pc[t] # "idle" => msg[t] # m
      /\ QueueCounts => \A id \in Queued : queue[id] = m => id \in peerReceived
      /\ \A p \in On(out) : p.type = "PUBLISH" /\ p.msg = m => p.id \in peerReceived
  BY DEF DeliveredIsKnown
<1>3. m <= published' /\ \A t \in Publishers : pc'[t] # "idle" => msg'[t] # m
  BY <1>1, <1>2
<1>4. QueueCounts' => \A id \in Queued' : queue'[id] = m => id \in peerReceived
  BY <1>2
<1>5. \A p \in On(out)' : p.type = "PUBLISH" /\ p.msg = m => p.id \in peerReceived
  BY <1>2
<1> QED
  BY <1>3, <1>4, <1>5

LEMMA WriteStepKnown ==
    ASSUME InTurn, Turns, IdsSound, DeliveredIsKnown, NEW t \in Publishers, WritePacketStep(t)
    PROVE  DeliveredIsKnown'
<1>0. /\ pc \in [Publishers -> {"idle", "lock", "write"}] /\ msg \in [Publishers -> 0..MaxMsgs]
      /\ out \in Seq(Packets)
  BY DEF Turns, IInv, TypeOK, WritersType, NetworkType
<1>1. UNCHANGED <<delivered, peerReceived, destroyOnDisconnect, stage>>
  BY DEF WritePacketStep, BeginWrite, DropForQuota, TakeId, WriteToClient, session,
     connections, peer
<1>2. QueueCounts' <=> QueueCounts
  BY <1>1 DEF QueueCounts, Greeting
<1>3. CASE BeginWrite(t)
  <2>1. /\ pc' = [pc EXCEPT ![t] = "lock"] /\ msg' = [msg EXCEPT ![t] = published + 1]
        /\ published' = published + 1 /\ UNCHANGED <<out, queue>>
    BY <1>3 DEF BeginWrite, qosData, network
  <2>2. \A u \in Publishers : IF u = t THEN msg'[u] = published + 1
                              ELSE pc'[u] = pc[u] /\ msg'[u] = msg[u]
    BY <1>0, <2>1
  <2> QED
    BY <1>1, <1>2, <2>1, <2>2, KnownKept DEF Queued, On
<1>4. CASE DropForQuota(t)
  <2>1. PICK cleared : queue' = Without(queue, cleared)
    BY <1>4 DEF DropForQuota
  <2>2. pc' = [pc EXCEPT ![t] = "idle"] /\ UNCHANGED <<out, msg, published>>
    BY <1>4 DEF DropForQuota, FinishWrite, network
  <2>3. \A u \in Publishers : pc'[u] # "idle" => pc[u] # "idle"
    BY <1>0, <2>2
  <2>4. \A i \in Queued' : i \in Queued /\ queue'[i] = queue[i]
    BY <2>1 DEF Queued, Without
  <2> QED
    BY <1>1, <1>2, <2>2, <2>3, <2>4, KnownKept DEF On
<1>5. CASE TakeId(t)
  <2>1. PICK cleared :
           queue' = IF destroyOnDisconnect THEN Without(queue, cleared)
                    ELSE [i \in DOMAIN Without(queue, cleared) \cup {FirstFree(usedIds \ cleared)} |->
                            IF i = FirstFree(usedIds \ cleared) THEN msg[t]
                            ELSE Without(queue, cleared)[i]]
    BY <1>5 DEF TakeId
  <2>2. pc[t] = "lock" /\ pc' = [pc EXCEPT ![t] = "write"] /\ UNCHANGED <<out, msg, published>>
    BY <1>5 DEF TakeId, network
  <2>3. \A u \in Publishers : pc'[u] # "idle" => pc[u] # "idle"
    BY <1>0, <2>2
  <2>4. \A i \in Queued' : \/ i \in Queued /\ queue'[i] = queue[i]
                           \/ queue'[i] = msg[t]
    BY <2>1 DEF Queued, Without
  <2> QED
    BY <1>1, <1>2, <2>2, <2>3, <2>4, KnownKept DEF On
<1>6. CASE WriteToClient(t)
  <2> DEFINE p == Publish(packetId[t], msg[t])
             one == <<p>>
  <2>1. /\ pc[t] = "write" /\ pc' = [pc EXCEPT ![t] = "idle"]
        /\ UNCHANGED <<queue, msg, published>>
    BY <1>6 DEF WriteToClient, FinishWrite, qosData, world
  <2>2. \A u \in Publishers : pc'[u] # "idle" => pc[u] # "idle"
    BY <1>0, <2>1
  <2>3. packetId[t] \in Ids /\ msg[t] \in Msgs
    BY <2>1, BoundsAssumption
       DEF Turns, IInv, TypeOK, WorldType, WritersHaveIds, MessagesDistinct, Msgs
  <2>4. one \in Seq(Packets) /\ p.msg = msg[t]
    BY <2>3, PacketTypes DEF Publish
  <2>5. out' = out \/ out' = out \o one
    BY <1>6 DEF WriteToClient, Send
  <2> HIDE DEF p
  <2>6. On(one) = {p}
    BY OnOne
  <2> HIDE DEF one
  <2>7. On(out)' \subseteq On(out) \cup {p}
    <3>1. On(out \o one) = On(out) \cup {p}
      BY <1>0, <2>4, <2>6, OnConcat
    <3> QED
      BY <2>5, <3>1 DEF On
  <2>8. \A q \in On(out)' : q \in On(out) \/ (pc[t] # "idle" /\ q.msg = msg[t])
    BY <2>1, <2>4, <2>7
  <2>9. \A i \in Queued' : i \in Queued /\ queue'[i] = queue[i]
    BY <2>1 DEF Queued
  <2> QED
    BY <1>1, <1>2, <2>1, <2>2, <2>8, <2>9, KnownKept
<1> QED
  BY <1>3, <1>4, <1>5, <1>6 DEF WritePacketStep

LEMMA ConnectKnown ==
    ASSUME InTurn, Turns, IdsSound, NewSession, PublishMatches, DeliveredIsKnown, NEW k \in Conns,
           Assign(k) \/ ConnectStep(k) \/ Close(k)
    PROVE  DeliveredIsKnown'
<1>0. stage \in [Conns -> StageNames] /\ out \in Seq(Packets)
  BY DEF Turns, IInv, TypeOK, ConnectionsType, NetworkType, StageNames
<1>1. UNCHANGED <<delivered, peerReceived, pc, msg, published>>
  BY DEF Assign, ConnectStep, SetSessionProperties, SendConnack, PickClient, CopyPending,
     WritePending, Close, writers, peer, world
<1>2. QueueCounts' => QueueCounts
  <2>1. CASE SetSessionProperties(k)
    <3>1. ~destroyOnDisconnect
      BY <2>1 DEF SetSessionProperties, Turns, DestroyedForGood
    <3> QED
      BY <3>1 DEF QueueCounts
  <2>2. CASE SendConnack(k) \/ PickClient(k) \/ CopyPending(k) \/ WritePending(k)
    BY <2>2 DEF SendConnack, PickClient, CopyPending, WritePending, QueueCounts, Greeting
  <2>3. CASE Assign(k) \/ Close(k)
    <3>1. destroyOnDisconnect' = destroyOnDisconnect
          /\ \E s \in {"assigned", "dead"} : stage' = [stage EXCEPT ![k] = s]
      BY <2>3 DEF Assign, Close, session
    <3>2. \A j \in Conns : Greeting(j)' => Greeting(j)
      BY <1>0, <3>1 DEF Greeting
    <3> QED
      BY <3>1, <3>2 DEF QueueCounts
  <2> QED
    BY <2>1, <2>2, <2>3 DEF ConnectStep
<1>3. \A i \in Queued' : i \in Queued /\ queue'[i] = queue[i]
  <2>1. queue' = queue \/ \E ids : queue' = Without(queue, ids)
    BY DEF Assign, ConnectStep, SetSessionProperties, SendConnack, PickClient, CopyPending,
       WritePending, Close, qosData
  <2> QED
    BY <2>1 DEF Queued, Without
<1>4. \A p \in On(out)' : p.type = "PUBLISH" =>
         p \in On(out) \/ (QueueCounts /\ p.id \in Queued /\ queue[p.id] = p.msg)
  <2>1. CASE out' = out
    BY <2>1 DEF On
  <2>2. CASE out' = <<>>
    BY <2>2, OnNothing DEF On
  <2>3. CASE SendConnack(k)
    <3> DEFINE c == ConnAck(present[k])
    <3>1. stage[k] = "registered" /\ Send(k, <<c>>)
      BY <2>3 DEF SendConnack
    <3>2. out = <<>>
      BY <3>1 DEF NewSession
    <3>3. out' = <<>> \/ out' = <<c>>
      BY <3>1, <3>2 DEF Send
    <3>4. c.type # "PUBLISH"
      BY DEF ConnAck
    <3> HIDE DEF c
    <3>5. On(out)' \subseteq {c}
      BY <3>3 DEF On
    <3> QED
      BY <3>4, <3>5
  <2>4. CASE WritePending(k)
    <3>1. PICK s \in Seq(Packets) :
                 /\ out' = out \/ out' = out \o s
                 /\ \A p \in On(s) :
                       \/ /\ p.type = "PUBLISH" /\ p.id \in DOMAIN pending[k].publishes
                          /\ p.msg = pending[k].publishes[p.id]
                       \/ p.type = "PUBREL" /\ p.id \in pending[k].releases
      BY <2>4, WhatIsResent
    <3>2. On(out)' \subseteq On(out) \cup On(s)
      <4>1. On(out \o s) = On(out) \cup On(s)
        BY <1>0, OnConcat
      <4> QED
        BY <3>1, <4>1 DEF On
    <3>3. stage[k] = "copied"
      BY <2>4 DEF WritePending
    <3>4. QueueCounts
      BY <3>3 DEF QueueCounts, Greeting
    <3>5. \A id \in DOMAIN pending[k].publishes :
             id \in Queued /\ queue[id] = pending[k].publishes[id]
      BY <3>3 DEF PublishMatches
    <3> QED
      BY <3>1, <3>2, <3>4, <3>5
  <2>5. CASE Close(k)
    BY <2>1, <2>2, <2>5 DEF Close
  <2>6. CASE Assign(k) \/ SetSessionProperties(k) \/ PickClient(k) \/ CopyPending(k)
    BY <2>1, <2>2, <2>6 DEF Assign, SetSessionProperties, PickClient, CopyPending, network
  <2> QED
    BY <2>3, <2>4, <2>5, <2>6 DEF ConnectStep
<1> QED
  BY <1>1, <1>2, <1>3, <1>4, KnownKept

LEMMA AckKnown ==
    ASSUME InTurn, Turns, IdsSound, DeliveredIsKnown, NEW k \in Conns, AckStep(k)
    PROVE  DeliveredIsKnown'
<1>0. out \in Seq(Packets)
  BY DEF Turns, IInv, TypeOK, NetworkType
<1>1. UNCHANGED <<delivered, peerReceived, pc, msg, published, destroyOnDisconnect, stage>>
  BY DEF AckStep, HandlePubAck, HandlePubRec, HandlePubRecError, StoreOutgoingQoS2,
     HandlePubComp, session, writers, connections, peer, world
<1>2. QueueCounts' => QueueCounts
  BY <1>1 DEF QueueCounts, Greeting
<1>3. \A i \in Queued' : i \in Queued /\ queue'[i] = queue[i]
  <2>1. queue' = queue \/ \E ids : queue' = Without(queue, ids)
    BY DEF AckStep, HandlePubAck, HandlePubRec, HandlePubRecError, StoreOutgoingQoS2,
       HandlePubComp, ClearQosMessage
  <2> QED
    BY <2>1 DEF Queued, Without
<1>4. \A p \in On(out)' : p.type = "PUBLISH" => p \in On(out)
  <2>1. CASE ~StoreOutgoingQoS2(k)
    BY <2>1 DEF AckStep, HandlePubAck, HandlePubRec, HandlePubRecError, HandlePubComp, On
  <2>2. CASE StoreOutgoingQoS2(k)
    <3> DEFINE p == PubRel(receivedRec[k])
               one == <<p>>
    <3>1. receivedRec[k] # 0
      BY <2>2 DEF StoreOutgoingQoS2
    <3>2. receivedRec[k] \in Ids
      BY <3>1, BoundsAssumption DEF Turns, IInv, TypeOK, ConnectionsType, Ids
    <3>3. one \in Seq(Packets) /\ p.type = "PUBREL"
      BY <3>2, PacketTypes DEF PubRel
    <3>4. out' = out \/ out' = out \o one
      BY <2>2 DEF StoreOutgoingQoS2, Send
    <3> HIDE DEF p
    <3>5. On(one) = {p}
      BY OnOne
    <3> HIDE DEF one
    <3>6. On(out \o one) = On(out) \cup {p}
      BY <1>0, <3>3, <3>5, OnConcat
    <3>7. On(out)' \subseteq On(out) \cup {p}
      BY <3>4, <3>6 DEF On
    <3> QED
      BY <3>3, <3>7
  <2> QED
    BY <2>1, <2>2
<1> QED
  BY <1>1, <1>2, <1>3, <1>4, KnownKept

(* The device: a QoS 2 publish whose id it does not know is of a message it  *)
(* has not delivered, and from then on it knows the id.                      *)
LEMMA DeviceKnown ==
    ASSUME InTurn, Turns, IdsSound, NewSession, PublishMatches, DeliveredIsKnown,
           Qos2AtMostOnce, DeviceStep
    PROVE  DeliveredIsKnown' /\ Qos2AtMostOnce'
<1>0. /\ out \in Seq(Packets) /\ delivered \in [Msgs -> Nat] /\ peerReceived \subseteq Ids
      /\ Qos2 \subseteq Msgs
  BY SetsAssumption DEF Turns, IInv, TypeOK, NetworkType, PeerType
<1>1. /\ out # <<>> /\ out' = Tail(out)
      /\ UNCHANGED <<queue, destroyOnDisconnect, stage, pc, msg, published>>
  BY DEF DeviceStep, DeviceTakes, DeviceConnected, DeviceReceivesQos1, DeviceReceivesQos2,
     DeviceRefuses, DeviceReleases, qosData, session, writers, connections, world
<1>2. /\ On(out)' \subseteq On(out) /\ Head(out) \in On(out) /\ Head(out) \in Packets
      /\ Head(out).id # 0 => \A p \in On(out)' : p.id # Head(out).id
  <2>1. OnceEach(out)
    BY DEF IdsSound, EachIdOnce
  <2>2. /\ On(Tail(out)) \subseteq On(out) /\ Head(out) \in On(out)
        /\ Head(out).id # 0 => Head(out).id \notin IdsOn(Tail(out))
    BY <1>0, <1>1, <2>1, OnTail, OnceTail
  <2>3. On(out)' = On(Tail(out))
    BY <1>1 DEF On
  <2>4. On(out) \subseteq Packets
    BY <1>0, OnType
  <2> QED
    BY <2>2, <2>3, <2>4 DEF IdsOn
<1>3. QueueCounts' <=> QueueCounts
  BY <1>1 DEF QueueCounts, Greeting
<1>4. CASE UNCHANGED <<delivered, peerReceived>>
  <2>1. DeliveredIsKnown'
    BY <1>1, <1>2, <1>3, <1>4, KnownKept DEF Queued
  <2> QED
    BY <1>4, <2>1 DEF Qos2AtMostOnce
<1>5. CASE DeviceConnected
  <2>1. CASE DeviceTakes("CONNACK")
    <3>1. delivered' = delivered /\ 1 \in 1..Len(out) /\ out[1].type = "CONNACK"
      BY <1>0, <1>5, <2>1 DEF DeviceConnected, DeviceTakes
    <3>2. Undelivered
      BY <3>1 DEF NewSession
    <3>3. \A m \in Qos2 : delivered'[m] = 0
      BY <1>0, <3>1, <3>2 DEF Undelivered
    <3> QED
      BY <3>3 DEF DeliveredIsKnown, Qos2AtMostOnce
  <2>2. CASE ~DeviceTakes("CONNACK")
    BY <1>4, <1>5, <2>2 DEF DeviceConnected
  <2> QED
    BY <2>1, <2>2
<1>6. CASE DeviceReceivesQos1
  <2>1. /\ Head(out).msg \notin Qos2 /\ peerReceived' = peerReceived
        /\ delivered' = [delivered EXCEPT ![Head(out).msg] = @ + 1]
    BY <1>6 DEF DeviceReceivesQos1, Deliver
  <2>2. \A m \in Qos2 : delivered'[m] = delivered[m]
    BY <1>0, <2>1
  <2> QED
    BY <1>1, <1>2, <1>3, <2>1, <2>2 DEF DeliveredIsKnown, Qos2AtMostOnce, Queued
<1>7. CASE DeviceReceivesQos2
  <2> DEFINE h == Head(out)
  <2>1. /\ DeviceTakes("PUBLISH") /\ h.type = "PUBLISH" /\ h.msg \in Qos2
        /\ peerReceived' = peerReceived \cup {h.id}
        /\ IF h.id \in peerReceived THEN delivered' = delivered
           ELSE delivered' = [delivered EXCEPT ![h.msg] = @ + 1]
    BY <1>7 DEF DeviceReceivesQos2, DeviceTakes, Deliver
  <2>2. h.id # 0 /\ h \in On(out) /\ \A p \in On(out)' : p.id # h.id
    <3>1. h.id \in Ids
      BY <2>1, DeviceTakesType DEF Turns
    <3>2. h.id # 0
      BY <3>1 DEF Ids
    <3> QED
      BY <1>2, <3>2
  <2> HIDE DEF h
  <2>3. /\ h.msg <= published
        /\ ~destroyOnDisconnect => h.id \in Queued /\ queue[h.id] = h.msg
        /\ \A t \in Publishers : pc[t] # "idle" => msg[t] # h.msg
        /\ \A p \in On(out)' : p.type = "PUBLISH" => p.msg # h.msg
    BY <1>2, <2>1, <2>2 DEF PublishMatches
  <2>4. QueueCounts => ~destroyOnDisconnect
    <3>1. h.id \in IdsOn(out)
      BY <2>2 DEF IdsOn
    <3>2. \E k \in Conns : stage[k] = "live"
      BY <2>2, <3>1 DEF IdsSound, NetworkInTurn
    <3> QED
      BY <3>2, NoneGreets DEF QueueCounts
  <2>5. \A i, j \in Queued : queue[i] = queue[j] => i = j
    BY DEF Turns, IInv, MessagesDistinct
  <2>6. \A m \in Qos2 : m # h.msg \/ h.id \in peerReceived => delivered'[m] = delivered[m]
    BY <1>0, <2>1
  <2>7. h.id \notin peerReceived => delivered[h.msg] = 0 /\ delivered'[h.msg] = 1
    <3>1. h.id \notin peerReceived => ~(delivered[h.msg] > 0)
      BY <2>1, <2>2 DEF DeliveredIsKnown
    <3> QED
      BY <1>0, <2>1, <3>1
  <2>8. Qos2AtMostOnce'
    BY <2>6, <2>7 DEF Qos2AtMostOnce
  <2>9. DeliveredIsKnown'
    <3> SUFFICES ASSUME NEW m \in Qos2, delivered'[m] > 0
                 PROVE  /\ m <= published
                        /\ \A t \in Publishers : pc[t] # "idle" => msg[t] # m
                        /\ QueueCounts => \A id \in Queued : queue[id] = m => id \in peerReceived'
                        /\ \A p \in On(out)' : p.type = "PUBLISH" /\ p.msg = m => p.id \in peerReceived'
      BY <1>1, <1>3 DEF DeliveredIsKnown, Queued
    <3>1. CASE m = h.msg
      BY <2>1, <2>3, <2>4, <2>5, <3>1
    <3>2. CASE m # h.msg
      BY <1>2, <2>1, <2>6, <3>2 DEF DeliveredIsKnown
    <3> QED
      BY <3>1, <3>2
  <2> QED
    BY <2>8, <2>9
<1>8. CASE DeviceRefuses
  BY <1>4, <1>8 DEF DeviceRefuses, peer
<1>9. CASE DeviceReleases
  <2> DEFINE h == Head(out)
  <2>1. h.type = "PUBREL" /\ peerReceived' = peerReceived \ {h.id} /\ delivered' = delivered
    BY <1>9 DEF DeviceReleases, DeviceTakes
  <2>2. h.id \in outgoingQoS2
    BY <1>2, <2>1 DEF PublishMatches
  <2>3. QueueCounts => h.id \notin Queued
    BY <2>2 DEF IdsSound, UnfinishedUsed
  <2>4. \A p \in On(out)' : p.type = "PUBLISH" => p.id # h.id
    BY <1>2, <2>2 DEF IdsSound, CarriedIdsAreUsed
  <2> HIDE DEF h
  <2>5. DeliveredIsKnown'
    BY <1>1, <1>2, <1>3, <2>1, <2>3, <2>4 DEF DeliveredIsKnown, Queued
  <2> QED
    BY <2>1, <2>5 DEF Qos2AtMostOnce
<1> QED
  BY <1>5, <1>6, <1>7, <1>8, <1>9 DEF DeviceStep

LEMMA DeliveredStep ==
    ASSUME InTurn, Turns, IdsSound, NewSession, PublishMatches, DeliveredIsKnown,
           Qos2AtMostOnce, [Next]_vars
    PROVE  DeliveredIsKnown' /\ Qos2AtMostOnce'
<1>1. CASE (\E m \in Msgs : Expire(m)) \/ Finished \/ UNCHANGED vars
  <2>1. UNCHANGED <<queue, destroyOnDisconnect, stage, pc, msg, published, out, delivered,
                    peerReceived>>
    BY <1>1 DEF Expire, Finished, vars, qosData, session, writers, connections, network, peer,
       world
  <2>2. (QueueCounts' <=> QueueCounts) /\ On(out)' = On(out) /\ Queued' = Queued
    BY <2>1 DEF QueueCounts, Greeting, On, Queued
  <2> QED
    BY <2>1, <2>2 DEF DeliveredIsKnown, Qos2AtMostOnce
<1>2. ~Restart
  BY DEF Restart, InTurn, Turns, IInv, TypeOK, WorldType
<1>3. ASSUME ~DeviceStep, [Next]_vars PROVE Qos2AtMostOnce'
  <2>1. delivered' = delivered
    BY <1>2, <1>3 DEF Next, WritePacketStep, BeginWrite, DropForQuota, TakeId, WriteToClient,
       Assign, ConnectStep, SetSessionProperties, SendConnack, PickClient, CopyPending,
       WritePending, AckStep, HandlePubAck, HandlePubRec, HandlePubRecError, StoreOutgoingQoS2,
       HandlePubComp, Close, Expire, Finished, vars, peer
  <2> QED
    BY <2>1 DEF Qos2AtMostOnce
<1> QED
  BY <1>1, <1>2, <1>3, WriteStepKnown, ConnectKnown, AckKnown, DeviceKnown DEF Next

(* A QoS 2 message reaches the application of the device at most once, over  *)
(* any number of reconnects, resends of the publish and of the PUBREL, and   *)
(* acknowledgements that come too late (session.cpp sendAllPendingQosData,   *)
(* mqttpacket.cpp handlePubRec), while the broker does not restart, has one  *)
(* worker thread, and its client closes a connection before the next.        *)
THEOREM AtMostOnceToTheDevice ==
    ASSUME SingleThread, ~Takeover, MaxRestarts = 0
    PROVE  Spec => []Qos2AtMostOnce
<1>1. InTurn
  BY DEF InTurn
<1>2. Init => DeliveredIsKnown /\ Qos2AtMostOnce
  <2> SUFFICES ASSUME Init PROVE DeliveredIsKnown /\ Qos2AtMostOnce
    OBVIOUS
  <2>1. \A m \in Qos2 : delivered[m] = 0
    BY SetsAssumption DEF Init
  <2> QED
    BY <2>1 DEF DeliveredIsKnown, Qos2AtMostOnce
<1>3. Turns /\ IdsSound /\ NewSession /\ PublishMatches /\ DeliveredIsKnown
         /\ Qos2AtMostOnce /\ [Next]_vars => DeliveredIsKnown' /\ Qos2AtMostOnce'
  BY <1>1, DeliveredStep
<1> QED
  BY <1>1, <1>2, <1>3, IdsHold, NewSessionHolds, PublishMatchesHolds, PTL DEF Spec

-----------------------------------------------------------------------------
(* QoS 1: no message is lost                                                 *)

\* The device acknowledges what it has delivered.
AcksAreEarned ==
    \A k \in Conns : \A a \in On(in[k]) :
        ~destroyOnDisconnect /\ a.id \in Queued => delivered[queue[a.id]] > 0

(* The queue only loses publishes, and acknowledgements only get fewer.      *)
LEMMA EarnedKept ==
    ASSUME AcksAreEarned, UNCHANGED <<destroyOnDisconnect, delivered>>,
           queue' = queue \/ \E ids : queue' = Without(queue, ids),
           \A k \in Conns : On(in'[k]) \subseteq On(in[k])
    PROVE  AcksAreEarned'
<1>1. \A i \in Queued' : i \in Queued /\ queue'[i] = queue[i]
  BY DEF Queued, Without
<1> QED
  BY <1>1 DEF AcksAreEarned

LEMMA EarnedStep ==
    ASSUME Qos2 = {}, InTurn, Turns, IdsSound, PublishMatches, Qos1Only, AcksAreEarned, [Next]_vars
    PROVE  AcksAreEarned'
<1>0. /\ in \in [Conns -> Seq(Acks)] /\ out \in Seq(Packets) /\ delivered \in [Msgs -> Nat]
      /\ queue \in [Queued -> Msgs]
  BY QueueStateElim DEF Turns, IInv, TypeOK, NetworkType, PeerType, QosDataType, Queued
<1>1. ASSUME NEW t \in Publishers, TakeId(t) PROVE AcksAreEarned'
  <2>1. PICK cleared \in Clearable(t) :
           /\ IdAvailable(usedIds \ cleared, IncreasedQuota(cleared))
           /\ queue' = IF destroyOnDisconnect THEN Without(queue, cleared)
                       ELSE [i \in DOMAIN Without(queue, cleared) \cup {FirstFree(usedIds \ cleared)} |->
                               IF i = FirstFree(usedIds \ cleared) THEN msg[t]
                               ELSE Without(queue, cleared)[i]]
    BY <1>1 DEF TakeId
  <2> DEFINE id == FirstFree(usedIds \ cleared)
  <2>2. pc[t] = "lock" /\ UNCHANGED <<destroyOnDisconnect, delivered, in>>
    BY <1>1 DEF TakeId, session, network, peer
  <2>3. cleared = {} \/ Calm
    BY <2>2, ClearedIds
  <2>4. id \notin usedIds \ cleared
    <3>1. nextPacketId \in 0..MaxId
      BY DEF Turns, IInv, TypeOK, QosDataType
    <3> QED
      BY <2>1, <3>1, FirstFreeIsFree DEF IdAvailable
  <2>5. ~destroyOnDisconnect =>
           \A i \in Queued' : i = id \/ (i \in Queued /\ queue'[i] = queue[i])
    BY <2>1 DEF Without, Queued
  <2> HIDE DEF id
  <2>6. \A k \in Conns : \A a \in On(in[k]) : a.id # id
    <3>1. CASE Calm
      BY <3>1, OnNothing DEF Calm
    <3>2. CASE cleared = {}
      BY <2>4, <3>2 DEF IdsSound, CarriedIdsAreUsed
    <3> QED
      BY <2>3, <3>1, <3>2
  <2> QED
    BY <2>2, <2>5, <2>6 DEF AcksAreEarned
<1>2. ASSUME NEW t \in Publishers, BeginWrite(t) \/ DropForQuota(t) \/ WriteToClient(t)
      PROVE  AcksAreEarned'
  <2>1. /\ UNCHANGED <<destroyOnDisconnect, delivered, in>>
        /\ queue' = queue \/ \E ids : queue' = Without(queue, ids)
    BY <1>2 DEF BeginWrite, DropForQuota, WriteToClient, qosData, session, network, peer
  <2> QED
    BY <2>1, EarnedKept
<1>3. ASSUME NEW k \in Conns, SetSessionProperties(k) PROVE AcksAreEarned'
  <2>1. stage[k] = "assigned" /\ in' = in
    BY <1>3 DEF SetSessionProperties, network
  <2>2. \A j \in Conns : On(in'[j]) = {}
    BY <2>1, CalmAtGreeting, OnNothing DEF Calm, IdsSound
  <2> QED
    BY <2>2 DEF AcksAreEarned
<1>4. ASSUME NEW k \in Conns,
             Assign(k) \/ SendConnack(k) \/ PickClient(k) \/ CopyPending(k) \/ WritePending(k)
               \/ StoreOutgoingQoS2(k)
      PROVE  AcksAreEarned'
  <2>1. /\ UNCHANGED <<destroyOnDisconnect, delivered, in>>
        /\ queue' = queue \/ \E ids : queue' = Without(queue, ids)
    BY <1>4 DEF Assign, SendConnack, PickClient, CopyPending, WritePending, StoreOutgoingQoS2,
       qosData, session, network, peer
  <2> QED
    BY <2>1, EarnedKept
<1>5. ASSUME NEW k \in Conns, Close(k) PROVE AcksAreEarned'
  <2>1. in' = [in EXCEPT ![k] = <<>>] /\ UNCHANGED <<destroyOnDisconnect, delivered, queue>>
    BY <1>5 DEF Close, qosData, session, peer
  <2>2. \A j \in Conns : On(in'[j]) \subseteq On(in[j])
    BY <1>0, <2>1, OnNothing
  <2> QED
    BY <2>1, <2>2, EarnedKept
<1>6. ASSUME NEW k \in Conns,
             HandlePubAck(k) \/ HandlePubRec(k) \/ HandlePubRecError(k) \/ HandlePubComp(k)
      PROVE  AcksAreEarned'
  <2>1. /\ \E type : Received(k, type)
        /\ UNCHANGED <<destroyOnDisconnect, delivered>>
        /\ queue' = queue \/ \E ids : queue' = Without(queue, ids)
    BY <1>6 DEF HandlePubAck, HandlePubRec, HandlePubRecError, HandlePubComp, ClearQosMessage,
       session, peer
  <2>2. \A j \in Conns : On(in'[j]) \subseteq On(in[j])
    BY <2>1, AckTaken
  <2> QED
    BY <2>1, <2>2, EarnedKept
<1>7. CASE DeviceStep
  <2>1. UNCHANGED <<destroyOnDisconnect, queue>>
    BY <1>7 DEF DeviceStep, DeviceConnected, DeviceReceivesQos1, DeviceReceivesQos2,
       DeviceRefuses, DeviceReleases, qosData, session
  <2>2. CASE DeviceConnected
    BY <2>1, <2>2, EarnedKept DEF DeviceConnected
  <2>3. ~DeviceReceivesQos2 /\ ~DeviceRefuses
    BY DEF DeviceReceivesQos2, DeviceRefuses
  <2>4. ~DeviceReleases
    <3>1. DeviceReleases => out # <<>> /\ Head(out).type = "PUBREL"
      BY DEF DeviceReleases, DeviceTakes
    <3>2. out # <<>> => Head(out) \in On(out)
      BY <1>0, OnTail
    <3> QED
      BY <3>1, <3>2 DEF PublishMatches, Qos1Only
  <2>5. CASE DeviceReceivesQos1
    <3> DEFINE h == Head(out)
               a == Ack("PUBACK", h.id)
    <3>1. /\ DeviceTakes("PUBLISH") /\ h.type = "PUBLISH" /\ out # <<>>
          /\ delivered' = [delivered EXCEPT ![h.msg] = delivered[h.msg] + 1]
          /\ in' = [in EXCEPT ![peerConn] = Append(in[peerConn], a)]
      BY <2>5 DEF DeviceReceivesQos1, DeviceTakes, Deliver, Answer
    <3>2. h.id \in Ids /\ h.msg \in Msgs /\ h \in On(out)
      BY <1>0, <3>1, DeviceTakesType, OnTail DEF Turns
    <3>3. a \in Acks /\ a.id = h.id
      BY <3>2 DEF Acks, Ack
    <3>4. ~destroyOnDisconnect => queue[h.id] = h.msg
      BY <3>1, <3>2 DEF PublishMatches
    <3> HIDE DEF h, a
    <3>5. delivered'[h.msg] > 0 /\ \A m \in Msgs : delivered[m] > 0 => delivered'[m] > 0
      BY <1>0, <3>1, <3>2
    <3>6. \A j \in Conns : On(in'[j]) \subseteq On(in[j]) \cup {a}
      <4> SUFFICES ASSUME NEW j \in Conns PROVE On(in'[j]) \subseteq On(in[j]) \cup {a}
        OBVIOUS
      <4>1. in[j] \in Seq(Acks) /\ (in'[j] = in[j] \/ in'[j] = Append(in[j], a))
        BY <1>0, <3>1
      <4>2. On(Append(in[j], a)) = On(in[j]) \cup {a}
        BY <3>3, <4>1, OnAppend
      <4> QED
        BY <4>1, <4>2
    <3>7. \A i \in Queued : queue[i] \in Msgs
      BY <1>0
    <3> QED
      BY <2>1, <3>3, <3>4, <3>5, <3>6, <3>7 DEF AcksAreEarned, Queued
  <2> QED
    BY <1>7, <2>2, <2>3, <2>4, <2>5 DEF DeviceStep
<1>8. CASE (\E m \in Msgs : Expire(m)) \/ Finished \/ UNCHANGED vars
  <2>1. UNCHANGED <<destroyOnDisconnect, delivered, in, queue>>
    BY <1>8 DEF Expire, Finished, vars, qosData, session, network, peer
  <2> QED
    BY <2>1, EarnedKept
<1>9. ~Restart
  BY DEF Restart, InTurn, Turns, IInv, TypeOK, WorldType
<1> QED
  BY <1>1, <1>2, <1>3, <1>4, <1>5, <1>6, <1>7, <1>8, <1>9
     DEF Next, WritePacketStep, ConnectStep, AckStep

(* What a step takes out of the queue.                                       *)
LEMMA NothingLost ==
    ASSUME InTurn, Turns, IdsSound, AcksAreEarned, [Next]_vars, NEW id \in Queued,
           \A i \in DOMAIN queue' : queue'[i] # queue[id]
    PROVE  delivered[queue[id]] > 0 \/ queue[id] \in dropped'
<1>1. CASE queue' = queue
  BY <1>1 DEF Queued
<1>2. ASSUME NEW ids, queue' = Without(queue, ids) PROVE id \in ids
  BY <1>2 DEF Queued, Without
<1>3. ASSUME NEW t \in Publishers, DropForQuota(t) PROVE queue[id] \in dropped'
  <2>1. PICK cleared : /\ queue' = Without(queue, cleared)
                       /\ dropped' = dropped \cup {msg[t]} \cup {queue[i] : i \in cleared}
    BY <1>3 DEF DropForQuota
  <2> QED
    BY <1>2, <2>1
<1>4. ASSUME NEW t \in Publishers, TakeId(t) PROVE queue[id] \in dropped'
  <2>1. PICK cleared \in Clearable(t) :
           /\ IdAvailable(usedIds \ cleared, IncreasedQuota(cleared))
           /\ queue' = IF destroyOnDisconnect THEN Without(queue, cleared)
                       ELSE [i \in DOMAIN Without(queue, cleared) \cup {FirstFree(usedIds \ cleared)} |->
                               IF i = FirstFree(usedIds \ cleared) THEN msg[t]
                               ELSE Without(queue, cleared)[i]]
           /\ dropped' = dropped \cup {queue[i] : i \in cleared}
    BY <1>4 DEF TakeId
  <2>2. CASE destroyOnDisconnect
    BY <1>2, <2>1, <2>2
  <2>3. CASE ~destroyOnDisconnect
    <3>1. Queued \subseteq usedIds
      BY <2>3 DEF IdsSound, UnfinishedUsed, QueueCounts
    <3>2. FirstFree(usedIds \ cleared) \notin usedIds \ cleared
      <4>1. nextPacketId \in 0..MaxId
        BY DEF Turns, IInv, TypeOK, QosDataType
      <4> QED
        BY <2>1, <4>1, FirstFreeIsFree DEF IdAvailable
    <3>3. id \notin cleared => id \in DOMAIN queue' /\ queue'[id] = queue[id]
      BY <2>1, <2>3, <3>1, <3>2 DEF Queued, Without
    <3> QED
      BY <2>1, <3>3
  <2> QED
    BY <2>2, <2>3
<1>5. ASSUME NEW k \in Conns, CopyPending(k) PROVE queue[id] \in dropped'
  <2>1. PICK gone : /\ queue' = Without(queue, Queued \ Kept(gone))
                    /\ dropped' = dropped \cup {queue[i] : i \in Queued \ Kept(gone)}
    BY <1>5 DEF CopyPending
  <2> QED
    BY <1>2, <2>1
<1>6. ASSUME NEW k \in Conns, HandlePubAck(k) \/ HandlePubRec(k) \/ HandlePubRecError(k)
      PROVE  delivered[queue[id]] > 0 \/ queue' = queue
  <2> DEFINE h == Head(in[k])
  <2>1. /\ \E type : Received(k, type)
        /\ queue' = IF destroyOnDisconnect THEN queue ELSE Without(queue, {h.id})
    BY <1>6 DEF HandlePubAck, HandlePubRec, HandlePubRecError, ClearQosMessage
  <2>2. h \in On(in[k])
    <3>1. in[k] \in Seq(Acks) /\ in[k] # <<>>
      BY <2>1 DEF Received, Turns, IInv, TypeOK, NetworkType
    <3> QED
      BY <3>1, OnTail
  <2> HIDE DEF h
  <2>3. CASE ~destroyOnDisconnect
    <3>1. id = h.id
      BY <1>2, <2>1, <2>3
    <3> QED
      BY <2>2, <2>3, <3>1 DEF AcksAreEarned
  <2> QED
    BY <2>1, <2>3
<1>7. ASSUME NEW t \in Publishers, BeginWrite(t) \/ WriteToClient(t) PROVE queue' = queue
  BY <1>7 DEF BeginWrite, WriteToClient, qosData
<1>8. ASSUME NEW k \in Conns,
             Assign(k) \/ SetSessionProperties(k) \/ SendConnack(k) \/ PickClient(k)
               \/ WritePending(k) \/ StoreOutgoingQoS2(k) \/ HandlePubComp(k) \/ Close(k)
      PROVE  queue' = queue
  BY <1>8 DEF Assign, SetSessionProperties, SendConnack, PickClient, WritePending,
     StoreOutgoingQoS2, HandlePubComp, Close, qosData
<1>9. ASSUME DeviceStep \/ (\E m \in Msgs : Expire(m)) \/ Restart \/ Finished \/ UNCHANGED vars
      PROVE  queue' = queue
  BY <1>9 DEF DeviceStep, DeviceConnected, DeviceReceivesQos1, DeviceReceivesQos2,
     DeviceRefuses, DeviceReleases, Expire, Restart, Finished, vars, qosData
<1> QED
  BY <1>1, <1>3, <1>4, <1>5, <1>6, <1>7, <1>8, <1>9
     DEF Next, WritePacketStep, ConnectStep, AckStep

(* A QoS 1 message leaves the queue only because the device delivered it or  *)
(* because the broker gave it up for a reason it logs or counts: neither a   *)
(* late acknowledgement nor a new publish in its place removes it            *)
(* (session.cpp clearQosMessage, sendAllPendingQosData; qospacketqueue.cpp   *)
(* queue[id] = ...), with one worker thread and a client that closes a       *)
(* connection before the next.                                               *)
THEOREM NothingIsLostSilently ==
    ASSUME Qos2 = {}, SingleThread, ~Takeover, MaxRestarts = 0
    PROVE  Spec => NoSilentLoss
<1> DEFINE Kept1 == \A id \in Queued :
              (\A i \in DOMAIN queue' : queue'[i] # queue[id])
                 => delivered[queue[id]] > 0 \/ queue[id] \in dropped'
<1>1. InTurn
  BY DEF InTurn
<1>2. Init => Qos1Only /\ AcksAreEarned
  <2> SUFFICES ASSUME Init PROVE Qos1Only /\ AcksAreEarned
    OBVIOUS
  <2>1. \A k \in Conns : On(in[k]) = {}
    BY OnNothing DEF Init
  <2> QED
    BY <2>1 DEF Init, Qos1Only, AcksAreEarned
<1>3. IInv /\ Qos1Only /\ [Next]_vars => Qos1Only'
  BY Qos1OnlyStep
<1>4. Turns /\ IdsSound /\ PublishMatches /\ Qos1Only /\ AcksAreEarned /\ [Next]_vars
         => AcksAreEarned'
  BY <1>1, EarnedStep
<1>5. Turns /\ IdsSound /\ AcksAreEarned /\ [Next]_vars => [Kept1]_vars
  BY <1>1, NothingLost
<1>6. Spec => [][Kept1]_vars
  BY <1>1, <1>2, <1>3, <1>4, <1>5, IInvInductive, IdsHold, PublishMatchesHolds, PTL DEF Spec
<1> QED
  BY <1>6 DEF NoSilentLoss
-----------------------------------------------------------------------------
(* The order of first deliveries                                             *)

\* The device would hand a publish of m with this id to its application.
IsNews(id, m) == delivered[m] = 0 /\ (m \in Qos2 => id \notin peerReceived)

Unpassed(m) == \A later \in Msgs : later > m => delivered[later] = 0

PublishesAscend(s) ==
    \A i, j \in 1..Len(s) :
        i < j /\ s[i].type = "PUBLISH" /\ s[j].type = "PUBLISH" => s[i].msg < s[j].msg

WritesToTheSession ==
    \A t \in Publishers : pc[t] # "idle" => msg[t] = published /\ heldClient[t] \in {0, client}

CopiesTheSession ==
    \A k \in Conns :
        /\ stage[k] \in {"picked", "copied"} => pending[k].to = k
        /\ stage[k] = "copied" => Queued \subseteq DOMAIN pending[k].publishes

DeviceKnowsThePast ==
    /\ \A m \in Msgs : delivered[m] > 0 => m <= published
    /\ Undelivered => peerReceived = {}

\* No message that the device may still get has been passed by a later one.
NonePassed ==
    /\ QueueCounts => \A id \in Queued :
          queue[id] \notin Oversize /\ IsNews(id, queue[id]) => Unpassed(queue[id])
    /\ \A p \in On(out) : p.type = "PUBLISH" /\ IsNews(p.id, p.msg) => Unpassed(p.msg)

\* While the device is connected, all it does not have yet is on the way.
AllOnTheWay ==
    (\E k \in Conns : stage[k] = "live") /\ ~destroyOnDisconnect =>
        \A id \in Queued :
            queue[id] \notin Oversize /\ IsNews(id, queue[id]) =>
               \/ \E p \in On(out) : p.type = "PUBLISH" /\ p.id = id /\ p.msg = queue[id]
               \/ \E t \in Publishers : pc[t] = "write" /\ msg[t] = queue[id]

InOrder ==
    /\ WritesToTheSession /\ CopiesTheSession /\ DeviceKnowsThePast
    /\ PublishesAscend(out) /\ NonePassed /\ AllOnTheWay

(* Sequences of publishes in the order of their messages.                    *)
LEMMA AscendTail ==
    ASSUME NEW S, NEW s \in Seq(S), s # <<>>, PublishesAscend(s)
    PROVE  /\ PublishesAscend(Tail(s))
           /\ Head(s).type = "PUBLISH" =>
                 \A p \in On(Tail(s)) : p.type = "PUBLISH" => Head(s).msg < p.msg
<1>1. Len(s) \in Nat /\ Len(s) > 0 /\ Len(Tail(s)) = Len(s) - 1
  OBVIOUS
<1>2. \A i \in 1..Len(Tail(s)) :
         i \in Int /\ i + 1 \in 1..Len(s) /\ Tail(s)[i] = s[i + 1] /\ 1 < i + 1
  BY <1>1
<1>3. 1 \in 1..Len(s) /\ Head(s) = s[1]
  BY <1>1
<1>4. PublishesAscend(Tail(s))
  <2> SUFFICES ASSUME NEW i \in 1..Len(Tail(s)), NEW j \in 1..Len(Tail(s)), i < j,
                      Tail(s)[i].type = "PUBLISH", Tail(s)[j].type = "PUBLISH"
               PROVE  Tail(s)[i].msg < Tail(s)[j].msg
    BY DEF PublishesAscend
  <2>1. i + 1 < j + 1
    BY <1>2
  <2> QED
    BY <1>2, <2>1 DEF PublishesAscend
<1>5. ASSUME NEW p \in On(Tail(s)), Head(s).type = "PUBLISH", p.type = "PUBLISH"
      PROVE  Head(s).msg < p.msg
  <2>1. PICK i \in 1..Len(Tail(s)) : p = Tail(s)[i]
    BY DEF On
  <2> QED
    BY <1>2, <1>3, <1>5, <2>1 DEF PublishesAscend
<1> QED
  BY <1>4, <1>5

LEMMA AscendConcat ==
    ASSUME NEW S, NEW s \in Seq(S), NEW u \in Seq(S), PublishesAscend(s), PublishesAscend(u),
           \A p \in On(s), q \in On(u) :
              p.type = "PUBLISH" /\ q.type = "PUBLISH" => p.msg < q.msg
    PROVE  PublishesAscend(s \o u)
<1>1. Len(s) \in Nat /\ Len(u) \in Nat /\ Len(s \o u) = Len(s) + Len(u)
  OBVIOUS
<1>2. \A i \in 1..Len(s \o u) :
         \/ i \in 1..Len(s) /\ (s \o u)[i] = s[i]
         \/ i - Len(s) \in 1..Len(u) /\ (s \o u)[i] = u[i - Len(s)]
  BY <1>1
<1> SUFFICES ASSUME NEW i \in 1..Len(s \o u), NEW j \in 1..Len(s \o u), i < j,
                    (s \o u)[i].type = "PUBLISH", (s \o u)[j].type = "PUBLISH"
             PROVE  (s \o u)[i].msg < (s \o u)[j].msg
  BY DEF PublishesAscend
<1>3. CASE i \in 1..Len(s) /\ (s \o u)[i] = s[i] /\ j \in 1..Len(s) /\ (s \o u)[j] = s[j]
  BY <1>3 DEF PublishesAscend
<1>4. CASE /\ i \in 1..Len(s) /\ (s \o u)[i] = s[i]
           /\ j - Len(s) \in 1..Len(u) /\ (s \o u)[j] = u[j - Len(s)]
  BY <1>4 DEF On
<1>5. CASE /\ i - Len(s) \in 1..Len(u) /\ (s \o u)[i] = u[i - Len(s)]
           /\ j - Len(s) \in 1..Len(u) /\ (s \o u)[j] = u[j - Len(s)]
  <2>1. i - Len(s) < j - Len(s)
    BY <1>1
  <2> QED
    BY <1>5, <2>1 DEF PublishesAscend
<1>6. ~ (i - Len(s) \in 1..Len(u) /\ j \in 1..Len(s))
  BY <1>1
<1> QED
  BY <1>2, <1>3, <1>4, <1>5, <1>6

LEMMA AscendWithout ==
    ASSUME NEW s, \A p \in On(s) : p.type # "PUBLISH"
    PROVE  PublishesAscend(s)
  BY DEF On, PublishesAscend

(* All publishes of the queue are sent again, in the order of its list.      *)
LEMMA InQueueOrderAscends ==
    ASSUME NEW q \in QueueStates, \A i, j \in DOMAIN q : q[i] = q[j] => i = j
    PROVE  /\ PublishesAscend(InQueueOrder(q))
           /\ \A id \in DOMAIN q : Publish(id, q[id]) \in On(InQueueOrder(q))
<1> DEFINE S == DOMAIN q
           n == Cardinality(S)
           s == SortedBy(S, q)
<1>1. S \in SUBSET Ids /\ q \in [S -> Msgs]
  BY QueueStateElim
<1>2. IsFiniteSet(S) /\ n \in Nat
  BY <1>1, IdsAreFinite
<1>3. \A x \in S : q[x] \in Int
  BY <1>1 DEF Msgs
<1>4. s \in [1..n -> S] /\ \A i, j \in 1..n : i < j => q[s[i]] < q[s[j]]
  BY <1>2, <1>3, SortedExists
<1>5. Len(InQueueOrder(q)) = n
      /\ \A i \in 1..n : InQueueOrder(q)[i] = Publish(s[i], q[s[i]])
  BY <1>2 DEF InQueueOrder
<1> HIDE DEF S, n, s
<1>6. \A i \in 1..n : InQueueOrder(q)[i].msg = q[s[i]]
  BY <1>5 DEF Publish
<1>7. PublishesAscend(InQueueOrder(q))
  BY <1>4, <1>5, <1>6 DEF PublishesAscend
<1>8. s \in Injection(1..n, S)
  <2> SUFFICES ASSUME NEW i \in 1..n, NEW j \in 1..n, s[i] = s[j] PROVE i = j
    BY <1>4 DEF Injection, IsInjective
  <2>1. q[s[i]] \in Int /\ q[s[i]] = q[s[j]]
    BY <1>3, <1>4
  <2> QED
    BY <1>2, <1>4, <2>1
<1>9. Cardinality(1..n) = Cardinality(S)
  BY <1>2, FS_Interval DEF n
<1>10. s \in Surjection(1..n, S)
  BY <1>2, <1>8, <1>9, FS_Injection
<1>11. \A id \in S : \E i \in 1..n : s[i] = id
  BY <1>10 DEF Surjection
<1> QED
  BY <1>5, <1>7, <1>11 DEF On, S

(* What sendAllPendingQosData writes reaches the device: every publish it    *)
(* copied but the oversize ones, and in their order.                         *)
LEMMA AllIsResent ==
    ASSUME MayBeRefused = {}, Turns, IdsSound, CopiesTheSession, NEW k \in Conns, WritePending(k)
    PROVE  \E s \in Seq(Packets) :
              /\ out' = out \o s
              /\ PublishesAscend(s)
              /\ \A p \in On(s) : p.type = "PUBLISH" =>
                    /\ p.id \in DOMAIN pending[k].publishes /\ p.msg = pending[k].publishes[p.id]
                    /\ p.msg \notin Oversize
              /\ \A id \in DOMAIN pending[k].publishes :
                    pending[k].publishes[id] \notin Oversize
                       => Publish(id, pending[k].publishes[id]) \in On(s)
<1> DEFINE copied == pending[k].publishes
           released == pending[k].releases
           skipped == {id \in DOMAIN copied : copied[id] \in Oversize}
           left == Without(copied, skipped)
           again == InQueueOrder(left)
           pubRels == Releases(released)
<1>1. PICK denied \in SUBSET MayBeRefused :
         Send(pending[k].to,
              InQueueOrder(Without(copied, {id \in DOMAIN copied : copied[id] \in denied \cup Oversize}))
                \o Releases(released))
  BY DEF WritePending
<1>2. stage[k] = "copied"
  BY DEF WritePending
<1>3. pending[k].to = peerConn /\ peerConn = k
  BY <1>2, CalmAtGreeting DEF CopiesTheSession, IdsSound
<1>4. denied \cup Oversize = Oversize
  OBVIOUS
<1>5. out' = out \o (again \o pubRels)
  BY <1>1, <1>2, <1>3, <1>4 DEF Send
<1>6. copied \in QueueStates /\ released \in SUBSET Ids
  BY DEF Turns, IInv, TypeOK, ConnectionsType, Pendings
<1>7. /\ left \in QueueStates
      /\ \A i \in DOMAIN left :
           i \in DOMAIN copied /\ left[i] = copied[i] /\ left[i] \notin Oversize
      /\ \A i \in DOMAIN copied : copied[i] \notin Oversize => i \in DOMAIN left
      /\ \A i, j \in DOMAIN left : left[i] = left[j] => i = j
  <2>1. left \in QueueStates
    BY <1>6, WithoutType
  <2>2. \A i, j \in DOMAIN copied : copied[i] = copied[j] => i = j
    BY DEF Turns, IInv, CopiesDistinct
  <2> QED
    BY <2>1, <2>2 DEF Without
<1> HIDE DEF copied, released, left
<1>8. /\ again \in Seq(Packets) /\ PublishesAscend(again)
      /\ \A p \in On(again) : p.id \in DOMAIN left /\ p.msg = left[p.id]
      /\ \A id \in DOMAIN left : Publish(id, left[id]) \in On(again)
  BY <1>7, InQueueOrderType, InQueueOrderOnce, InQueueOrderAscends
<1>9. pubRels \in Seq(Packets) /\ \A p \in On(pubRels) : p.type = "PUBREL"
  BY <1>6, ReleasesType, ReleasesOnce
<1> HIDE DEF again, pubRels
<1>10. PublishesAscend(again \o pubRels)
  BY <1>8, <1>9, AscendWithout, AscendConcat
<1>11. On(again \o pubRels) = On(again) \cup On(pubRels) /\ again \o pubRels \in Seq(Packets)
  BY <1>8, <1>9, OnConcat, ConcatProperties
<1> DEFINE s == again \o pubRels
<1> HIDE DEF s
<1>12. \A p \in On(s) : p.type = "PUBLISH" =>
          p.id \in DOMAIN copied /\ p.msg = copied[p.id] /\ p.msg \notin Oversize
  BY <1>7, <1>8, <1>9, <1>11 DEF s
<1>13. \A id \in DOMAIN copied : copied[id] \notin Oversize => Publish(id, copied[id]) \in On(s)
  BY <1>7, <1>8, <1>11 DEF s
<1>14. s \in Seq(Packets) /\ out' = out \o s /\ PublishesAscend(s)
  BY <1>5, <1>10, <1>11 DEF s
<1> QED
  BY <1>12, <1>13, <1>14, Zenon DEF copied

(* A publishing thread writes the newest message, to the client of the       *)
(* session.                                                                  *)
LEMMA WritersStep ==
    ASSUME InTurn, Turns, WritesToTheSession, [Next]_vars
    PROVE  WritesToTheSession'
<1>0. /\ pc \in [Publishers -> {"idle", "lock", "write"}] /\ msg \in [Publishers -> 0..MaxMsgs]
      /\ heldClient \in [Publishers -> 0..MaxConns]
  BY DEF Turns, IInv, TypeOK, WritersType
<1>1. ASSUME NEW t \in Publishers, BeginWrite(t) PROVE WritesToTheSession'
  <2>1. /\ pc' = [pc EXCEPT ![t] = "lock"] /\ msg' = [msg EXCEPT ![t] = published + 1]
        /\ heldClient' = [heldClient EXCEPT ![t] = SharedClient]
        /\ published' = published + 1 /\ client' = client /\ ThreadFree
    BY <1>1 DEF BeginWrite, session
  <2>2. \A u \in Publishers : pc[u] = "idle"
    BY <2>1, NobodyBusy DEF Turns
  <2>3. SharedClient \in {0, client}
    BY DEF SharedClient
  <2>4. \A u \in Publishers : pc'[u] # "idle" => u = t
    BY <1>0, <2>1, <2>2
  <2>5. msg'[t] = published' /\ heldClient'[t] \in {0, client'}
    BY <1>0, <2>1, <2>3
  <2> QED
    BY <2>4, <2>5 DEF WritesToTheSession
<1>2. ASSUME NEW t \in Publishers, DropForQuota(t) \/ WriteToClient(t) PROVE WritesToTheSession'
  <2>1. /\ pc' = [pc EXCEPT ![t] = "idle"] /\ heldClient' = [heldClient EXCEPT ![t] = 0]
        /\ UNCHANGED <<msg, published, client>>
    BY <1>2 DEF DropForQuota, WriteToClient, FinishWrite, session, world
  <2>2. \A u \in Publishers : pc'[u] # "idle" => pc[u] # "idle" /\ heldClient'[u] = heldClient[u]
    BY <1>0, <2>1
  <2> QED
    BY <2>1, <2>2 DEF WritesToTheSession
<1>3. ASSUME NEW t \in Publishers, TakeId(t) PROVE WritesToTheSession'
  <2>1. /\ pc[t] = "lock" /\ pc' = [pc EXCEPT ![t] = "write"]
        /\ UNCHANGED <<heldClient, msg, published, client>>
    BY <1>3 DEF TakeId, session
  <2>2. \A u \in Publishers : pc'[u] # "idle" => pc[u] # "idle"
    BY <1>0, <2>1
  <2> QED
    BY <2>1, <2>2 DEF WritesToTheSession
<1>4. ASSUME NEW k \in Conns, Assign(k) PROVE WritesToTheSession'
  <2>1. ThreadFree /\ pc' = pc
    BY <1>4 DEF Assign, writers
  <2> QED
    BY <2>1, NobodyBusy DEF Turns, WritesToTheSession
<1>5. CASE UNCHANGED <<pc, msg, heldClient, published, client>>
  BY <1>5 DEF WritesToTheSession
<1>6. ASSUME NEW k \in Conns, ConnectStep(k) \/ AckStep(k) \/ Close(k)
      PROVE  UNCHANGED <<pc, msg, heldClient, published, client>>
  BY <1>6 DEF ConnectStep, SetSessionProperties, SendConnack, PickClient, CopyPending,
     WritePending, AckStep, HandlePubAck, HandlePubRec, HandlePubRecError, StoreOutgoingQoS2,
     HandlePubComp, Close, session, writers, world
<1>7. DeviceStep \/ (\E m \in Msgs : Expire(m)) \/ Finished \/ UNCHANGED vars
         => UNCHANGED <<pc, msg, heldClient, published, client>>
  BY DEF DeviceStep, DeviceConnected, DeviceReceivesQos1, DeviceReceivesQos2,
     DeviceRefuses, DeviceReleases, Expire, Finished, vars, session, writers, world
<1>8. ~Restart
  BY DEF Restart, InTurn, Turns, IInv, TypeOK, WorldType
<1> QED
  BY <1>1, <1>2, <1>3, <1>4, <1>5, <1>6, <1>7, <1>8 DEF Next, WritePacketStep

(* Nothing is queued between the copy of the queue and its resend.           *)
LEMMA CopiesStep ==
    ASSUME InTurn, Turns, CopiesTheSession, [Next]_vars
    PROVE  CopiesTheSession'
<1>0. stage \in [Conns -> StageNames] /\ pending \in [Conns -> Pendings]
  BY DEF Turns, IInv, TypeOK, ConnectionsType, StageNames
<1>1. ASSUME NEW k \in Conns, PickClient(k) PROVE CopiesTheSession'
  <2>1. /\ stage[k] = "acknowledged"
        /\ IF SharedClient = 0 THEN stage' = [stage EXCEPT ![k] = "live"] /\ pending' = pending
           ELSE /\ stage' = [stage EXCEPT ![k] = "picked"]
                /\ pending' = [pending EXCEPT ![k].to = SharedClient]
    BY <1>1 DEF PickClient
  <2>2. client = k /\ k # 0 /\ \A j \in Conns : j # k => stage[j] \in {"unused", "dead"}
    BY <2>1 DEF Turns, ConnsInTurn, Opened, Conns
  <2>3. SharedClient = k
    BY <2>1, <2>2 DEF SharedClient
  <2>4. stage'[k] = "picked" /\ \A j \in Conns : j # k => stage'[j] \in {"unused", "dead"}
    BY <1>0, <2>1, <2>2, <2>3
  <2>5. pending'[k].to = k
    BY <1>0, <2>1, <2>2, <2>3 DEF Pendings
  <2> QED
    BY <2>4, <2>5 DEF CopiesTheSession
<1>2. ASSUME NEW k \in Conns, CopyPending(k) PROVE CopiesTheSession'
  <2>1. PICK kept :
           /\ queue' = Without(queue, Queued \ kept)
           /\ pending' = [pending EXCEPT ![k] =
                             [to |-> pending[k].to,
                              publishes |-> [id \in kept |-> queue[id]],
                              releases |-> outgoingQoS2]]
    BY <1>2 DEF CopyPending
  <2>2. stage[k] = "picked" /\ stage' = [stage EXCEPT ![k] = "copied"]
    BY <1>2 DEF CopyPending
  <2>3. \A j \in Conns : j # k => stage[j] \in {"unused", "dead"}
    BY <2>2 DEF Turns, ConnsInTurn, Opened
  <2>4. \A j \in Conns : j # k => stage'[j] \in {"unused", "dead"}
    BY <1>0, <2>2, <2>3
  <2>5. pending'[k].to = pending[k].to /\ DOMAIN pending'[k].publishes = kept
    BY <1>0, <2>1
  <2>6. DOMAIN queue' \subseteq kept
    BY <2>1 DEF Without, Queued
  <2> QED
    BY <2>2, <2>4, <2>5, <2>6 DEF CopiesTheSession, Queued
<1>3. ASSUME \A k \in Conns : stage'[k] \in {"picked", "copied"} =>
                stage[k] = stage'[k] /\ pending'[k] = pending[k],
             (\E k \in Conns : stage[k] = "copied") => DOMAIN queue' \subseteq Queued
      PROVE  CopiesTheSession'
  BY <1>3 DEF CopiesTheSession, Queued
<1>4. ASSUME NEW t \in Publishers, WritePacketStep(t) PROVE CopiesTheSession'
  <2>1. UNCHANGED <<stage, pending>>
    BY <1>4 DEF WritePacketStep, BeginWrite, DropForQuota, TakeId, WriteToClient, connections
  <2>2. DOMAIN queue' \subseteq Queued \/ pc[t] # "idle"
    BY <1>4 DEF WritePacketStep, BeginWrite, DropForQuota, TakeId, WriteToClient, qosData, Queued
  <2>3. pc[t] # "idle" => \A k \in Conns : stage[k] # "copied"
    BY DEF Turns, HandlersInTurn
  <2> QED
    BY <1>3, <2>1, <2>2, <2>3
<1>5. ASSUME NEW k \in Conns,
             Assign(k) \/ SetSessionProperties(k) \/ SendConnack(k) \/ WritePending(k) \/ Close(k)
      PROVE  CopiesTheSession'
  <2>1. /\ \E s \in {"assigned", "registered", "acknowledged", "live", "dead"} :
              stage' = [stage EXCEPT ![k] = s]
        /\ pending' = pending \/ pending' = [pending EXCEPT ![k] = NothingPending]
        /\ queue' = queue
    BY <1>5 DEF Assign, SetSessionProperties, SendConnack, WritePending, Close, qosData
  <2>2. \A j \in Conns : stage'[j] \in {"picked", "copied"} =>
           stage[j] = stage'[j] /\ pending'[j] = pending[j]
    BY <1>0, <2>1
  <2> QED
    BY <1>3, <2>1, <2>2 DEF Queued
<1>6. ASSUME NEW k \in Conns, AckStep(k) PROVE CopiesTheSession'
  <2>1. UNCHANGED <<stage, pending>> /\ DOMAIN queue' \subseteq Queued
    BY <1>6 DEF AckStep, HandlePubAck, HandlePubRec, HandlePubRecError, StoreOutgoingQoS2,
       HandlePubComp, ClearQosMessage, connections, Queued, Without
  <2> QED
    BY <1>3, <2>1
<1>7. CASE DeviceStep \/ (\E m \in Msgs : Expire(m)) \/ Finished \/ UNCHANGED vars
  <2>1. UNCHANGED <<stage, pending, queue>>
    BY <1>7 DEF DeviceStep, DeviceConnected, DeviceReceivesQos1, DeviceReceivesQos2,
       DeviceRefuses, DeviceReleases, Expire, Finished, vars, connections, qosData
  <2> QED
    BY <1>3, <2>1 DEF Queued
<1>8. ~Restart
  BY DEF Restart, InTurn, Turns, IInv, TypeOK, WorldType
<1> QED
  BY <1>1, <1>2, <1>4, <1>5, <1>6, <1>7, <1>8 DEF Next, ConnectStep

(* What the broker does tells the device nothing.                            *)
LEMMA BrokerDeliversNothing ==
    ASSUME InTurn, Turns, [Next]_vars, ~DeviceStep
    PROVE  /\ UNCHANGED <<delivered, peerReceived>>
           /\ published' = published \/ published' = published + 1
<1>1. ~Restart
  BY DEF Restart, InTurn, Turns, IInv, TypeOK, WorldType
<1> QED
  BY <1>1 DEF Next, WritePacketStep, BeginWrite, DropForQuota, TakeId, WriteToClient,
     Assign, ConnectStep, SetSessionProperties, SendConnack, PickClient, CopyPending,
     WritePending, AckStep, HandlePubAck, HandlePubRec, HandlePubRecError, StoreOutgoingQoS2,
     HandlePubComp, Close, Expire, Finished, vars, peer, world

\* What reaches the application of the device for the first time.
DeliveredInOrder ==
    \A m \in Msgs : delivered[m] = 0 /\ delivered'[m] > 0 => Unpassed(m)

(* The device takes the first packet: every other message that it does not   *)
(* have yet comes behind it.                                                 *)
LEMMA DeviceOrder ==
    ASSUME MayBeRefused = {}, Turns, IdsSound, NewSession, PublishMatches, InOrder, DeviceStep
    PROVE  /\ DeviceKnowsThePast' /\ PublishesAscend(out') /\ NonePassed' /\ AllOnTheWay'
           /\ DeliveredInOrder
<1> PICK h : h = Head(out)
  OBVIOUS
<1>0. /\ out \in Seq(Packets) /\ delivered \in [Msgs -> Nat] /\ peerReceived \subseteq Ids
      /\ published \in Int /\ queue \in [Queued -> Msgs] /\ \A m \in Msgs : m \in Int
      /\ \A i \in Queued : queue[i] \in Msgs
      /\ \A p \in Packets : p.type = "PUBLISH" => p.msg \in Msgs
  <2>1. \A p \in Packets : p.type = "PUBLISH" => p.msg \in Msgs
    BY DEF Packets, Publish, PubRel, ConnAck
  <2> QED
    BY <2>1, BoundsAssumption, QueueStateElim
       DEF Turns, IInv, TypeOK, NetworkType, PeerType, WorldType, QosDataType, Queued, Msgs
<1>1. /\ out # <<>> /\ out' = Tail(out)
      /\ UNCHANGED <<queue, destroyOnDisconnect, stage, pc, msg, published>>
  BY DEF DeviceStep, DeviceTakes, DeviceConnected, DeviceReceivesQos1, DeviceReceivesQos2,
     DeviceRefuses, DeviceReleases, qosData, session, writers, connections, world
<1>2. /\ PublishesAscend(out')
      /\ h.type = "PUBLISH" => \A p \in On(out') : p.type = "PUBLISH" => h.msg < p.msg
  BY <1>0, <1>1, AscendTail DEF InOrder
<1>3. /\ \A p \in On(out') : p \in On(out)
      /\ \A p \in On(out) : p = h \/ p \in On(out')
      /\ h \in On(out) /\ h \in Packets
  <2>1. /\ On(Tail(out)) \subseteq On(out) /\ h \in On(out) /\ h \in Packets
    BY <1>0, <1>1, OnTail, OnType
  <2>2. /\ Len(out) \in Nat /\ Len(Tail(out)) = Len(out) - 1 /\ h = out[1]
        /\ \A i \in 1..Len(Tail(out)) : Tail(out)[i] = out[i + 1]
    BY <1>0, <1>1
  <2>3. \A i \in 1..Len(out) : i = 1 \/ (i - 1 \in 1..Len(Tail(out)) /\ Tail(out)[i - 1] = out[i])
    BY <2>2
  <2>4. \A p \in On(out) : p = h \/ p \in On(Tail(out))
    BY <2>2, <2>3 DEF On
  <2> QED
    BY <1>1, <2>1, <2>4
<1>4. (QueueCounts' <=> QueueCounts) /\ Queued' = Queued
  BY <1>1 DEF QueueCounts, Greeting, Queued
<1>5. /\ QueueCounts => \A id \in Queued :
            queue[id] \notin Oversize /\ IsNews(id, queue[id]) => Unpassed(queue[id])
      /\ \A p \in On(out) : p.type = "PUBLISH" /\ IsNews(p.id, p.msg) => Unpassed(p.msg)
  BY DEF InOrder, NonePassed
<1>6. ~DeviceRefuses
  BY DEF DeviceRefuses
\* Nothing is delivered: it is enough that nothing becomes news again.
<1>7. ASSUME UNCHANGED delivered, h.type # "PUBLISH", DeviceKnowsThePast',
             \A id, m : IsNews(id, m)' =>
                 \/ IsNews(id, m)
                 \/ /\ QueueCounts => id \notin Queued
                    /\ \A p \in On(out') : p.type = "PUBLISH" => p.id # id
      PROVE  NonePassed' /\ AllOnTheWay' /\ DeliveredInOrder
  <2>1. \A m : Unpassed(m) => Unpassed(m)'
    BY <1>7 DEF Unpassed
  <2>2. NonePassed'
    BY <1>1, <1>3, <1>4, <1>5, <1>7, <2>1 DEF NonePassed
  <2>3. AllOnTheWay'
    <3>1. ~destroyOnDisconnect => QueueCounts
      BY DEF QueueCounts
    <3> QED
      BY <1>1, <1>3, <1>4, <1>7, <3>1 DEF InOrder, AllOnTheWay
  <2>4. DeliveredInOrder
    BY <1>0, <1>7 DEF DeliveredInOrder
  <2> QED
    BY <2>2, <2>3, <2>4
<1>8. CASE DeviceConnected
  <2>1. h.type \in {"CONNACK", "CONNACK_PRESENT"} /\ delivered' = delivered
    BY <1>8 DEF DeviceConnected, DeviceTakes
  <2>2. peerReceived' = peerReceived
    <3>1. CASE DeviceTakes("CONNACK")
      <4>1. 1 \in 1..Len(out) /\ out[1].type = "CONNACK"
        BY <1>0, <3>1 DEF DeviceTakes
      <4>2. Undelivered
        BY <4>1 DEF NewSession
      <4>3. peerReceived = {}
        BY <4>2 DEF InOrder, DeviceKnowsThePast
      <4> QED
        BY <1>8, <4>3 DEF DeviceConnected
    <3> QED
      BY <1>8, <3>1 DEF DeviceConnected
  <2>3. \A id, m : IsNews(id, m)' => IsNews(id, m)
    BY <2>1, <2>2 DEF IsNews
  <2>4. DeviceKnowsThePast'
    BY <1>1, <2>1, <2>2 DEF InOrder, DeviceKnowsThePast, Undelivered
  <2> QED
    BY <1>2, <1>7, <2>1, <2>3, <2>4
<1>9. CASE DeviceReleases
  <2>1. h.type = "PUBREL" /\ peerReceived' = peerReceived \ {h.id} /\ delivered' = delivered
    BY <1>9 DEF DeviceReleases, DeviceTakes
  <2>2. h.id \in outgoingQoS2
    BY <1>3, <2>1 DEF PublishMatches
  <2>3. QueueCounts => h.id \notin Queued
    BY <2>2 DEF IdsSound, UnfinishedUsed
  <2>4. \A p \in On(out') : p.type = "PUBLISH" => p.id # h.id
    BY <1>3, <2>2 DEF IdsSound, CarriedIdsAreUsed
  <2>5. \A id, m : IsNews(id, m)' => IsNews(id, m) \/ id = h.id
    BY <2>1 DEF IsNews
  <2>6. DeviceKnowsThePast'
    BY <1>1, <2>1 DEF InOrder, DeviceKnowsThePast, Undelivered
  <2> QED
    BY <1>2, <1>7, <2>1, <2>3, <2>4, <2>5, <2>6
<1>10. CASE DeviceReceivesQos1 \/ DeviceReceivesQos2
  <2>1. /\ h.type = "PUBLISH" /\ h.msg \in Msgs /\ h.id \in Ids
        /\ \/ /\ h.msg \notin Qos2 /\ peerReceived' = peerReceived
              /\ delivered' = [delivered EXCEPT ![h.msg] = @ + 1]
           \/ /\ h.msg \in Qos2 /\ peerReceived' = peerReceived \cup {h.id}
              /\ IF h.id \in peerReceived THEN delivered' = delivered
                 ELSE delivered' = [delivered EXCEPT ![h.msg] = @ + 1]
    BY <1>10, DeviceTakesType
       DEF Turns, DeviceReceivesQos1, DeviceReceivesQos2, DeviceTakes, Deliver
  <2>known. peerReceived \subseteq peerReceived' /\ (h.msg \in Qos2 => h.id \in peerReceived')
    BY <2>1
  <2>either. \/ delivered' = delivered /\ h.msg \in Qos2 /\ h.id \in peerReceived
        \/ /\ delivered' = [delivered EXCEPT ![h.msg] = delivered[h.msg] + 1]
           /\ h.msg \in Qos2 => h.id \notin peerReceived
    BY <2>1
  <2>counted. delivered' = [delivered EXCEPT ![h.msg] = delivered[h.msg] + 1] =>
           /\ \A m \in Msgs : delivered'[m] = IF m = h.msg THEN delivered[m] + 1 ELSE delivered[m]
           /\ delivered'[h.msg] > 0
    BY <1>0, <2>1
  <2>2. /\ \A m \in Msgs : m # h.msg => delivered'[m] = delivered[m]
        /\ delivered'[h.msg] # delivered[h.msg] =>
              (h.msg \in Qos2 => h.id \notin peerReceived) /\ delivered'[h.msg] > 0
        /\ h.msg \notin Qos2 => delivered'[h.msg] > 0
        /\ \A m \in Msgs : delivered[m] \in Nat /\ delivered'[m] \in Nat
        /\ \A m \in Msgs : delivered[m] <= delivered'[m]
    BY <1>0, <2>1, <2>either, <2>counted
  <2>3. h.msg <= published /\ h.msg \in Int
    BY <1>0, <1>3, <2>1 DEF PublishMatches
  <2>4. \A id : \A m \in Msgs : IsNews(id, m)' => IsNews(id, m)
    <3> SUFFICES ASSUME NEW id, NEW m \in Msgs, IsNews(id, m)' PROVE IsNews(id, m)
      OBVIOUS
    <3>1. delivered'[m] = 0 /\ (m \in Qos2 => id \notin peerReceived')
      BY DEF IsNews
    <3>2. delivered[m] = 0
      BY <2>2, <3>1
    <3> QED
      BY <2>known, <3>1, <3>2 DEF IsNews
  <2>5. ~IsNews(h.id, h.msg)'
    BY <2>1, <2>2, <2>known DEF IsNews
  <2>6. DeviceKnowsThePast'
    <3>1. \A m \in Msgs : delivered'[m] > 0 => m <= published'
      <4>1. \A m \in Msgs : delivered[m] > 0 => m <= published
        BY DEF InOrder, DeviceKnowsThePast
      <4> QED
        BY <1>1, <2>2, <2>3, <4>1
    <3>2. ~Undelivered'
      <4>1. CASE delivered' = delivered
        <5>1. peerReceived # {}
          BY <1>0, <2>1, <2>either, <2>counted, <4>1
        <5>2. ~Undelivered
          BY <5>1 DEF InOrder, DeviceKnowsThePast
        <5> QED
          BY <4>1, <5>2 DEF Undelivered
      <4>2. CASE delivered' # delivered
        <5>1. delivered'[h.msg] > 0
          BY <2>either, <2>counted, <4>2
        <5> QED
          BY <2>1, <5>1 DEF Undelivered
      <4> QED
        BY <4>1, <4>2
    <3> QED
      BY <3>1, <3>2 DEF DeviceKnowsThePast
  <2>7. \E j \in Conns : stage[j] = "live"
    <3>1. h.id \in IdsOn(out) /\ h.id # 0
      BY <1>3, <2>1 DEF IdsOn, Ids
    <3> QED
      BY <3>1 DEF IdsSound, NetworkInTurn
  <2>8. QueueCounts => ~destroyOnDisconnect
    BY <2>7, NoneGreets DEF QueueCounts
  <2>9. ASSUME NEW m \in Msgs, Unpassed(m), h.msg <= m PROVE Unpassed(m)'
    <3>1. \A later \in Msgs : later > m => later # h.msg
      BY <1>0, <2>3, <2>9
    <3> QED
      BY <2>2, <2>9, <3>1 DEF Unpassed
  <2>10. ASSUME NEW id \in Queued, NEW m \in Msgs, m = queue[id], QueueCounts, m \notin Oversize,
                IsNews(id, m)'
         PROVE  /\ Unpassed(m) /\ h.msg <= m
                /\ \/ \E p \in On(out') : p.type = "PUBLISH" /\ p.id = id /\ p.msg = m
                   \/ \E t \in Publishers : pc[t] = "write" /\ msg[t] = m
    <3>1. IsNews(id, m)
      BY <2>4, <2>10
    <3>2. Unpassed(m)
      BY <1>5, <2>10, <3>1
    <3>3. CASE \E p \in On(out) : p.type = "PUBLISH" /\ p.id = id /\ p.msg = m
      <4>1. PICK p \in On(out) : p.type = "PUBLISH" /\ p.id = id /\ p.msg = m
        BY <3>3
      <4>2. p # h
        BY <2>5, <2>10, <4>1
      <4>3. p \in On(out') /\ h.msg < p.msg
        BY <1>2, <1>3, <2>1, <4>1, <4>2
      <4> QED
        BY <1>0, <2>3, <3>2, <4>1, <4>3
    <3>4. CASE \E t \in Publishers : pc[t] = "write" /\ msg[t] = m
      <4>1. m = published
        BY <3>4 DEF InOrder, WritesToTheSession
      <4> QED
        BY <2>3, <3>2, <3>4, <4>1
    <3> QED
      BY <2>7, <2>8, <2>10, <3>1, <3>3, <3>4 DEF InOrder, AllOnTheWay
  <2>11. NonePassed'
    <3>1. \A id \in Queued : \A m \in Msgs :
             QueueCounts /\ m = queue[id] /\ m \notin Oversize /\ IsNews(id, m)' => Unpassed(m)'
      BY <2>9, <2>10
    <3>2. \A p \in On(out') : p.type = "PUBLISH" /\ IsNews(p.id, p.msg)' => Unpassed(p.msg)'
      <4> SUFFICES ASSUME NEW p \in On(out'), p.type = "PUBLISH", IsNews(p.id, p.msg)'
                   PROVE  Unpassed(p.msg)'
        OBVIOUS
      <4>1. p \in On(out) /\ p \in Packets /\ h.msg < p.msg
        BY <1>0, <1>2, <1>3, <2>1, OnType
      <4>2. p.msg \in Msgs
        BY <1>0, <4>1
      <4>3. Unpassed(p.msg)
        BY <1>5, <2>4, <4>1, <4>2
      <4> QED
        BY <1>0, <2>3, <2>9, <4>1, <4>2, <4>3
    <3> QED
      BY <1>0, <1>1, <1>4, <3>1, <3>2 DEF NonePassed
  <2>12. AllOnTheWay'
    <3>1. ~destroyOnDisconnect => QueueCounts
      BY DEF QueueCounts
    <3> QED
      BY <1>0, <1>1, <1>4, <2>10, <3>1 DEF AllOnTheWay
  <2>13. DeliveredInOrder
    <3> SUFFICES ASSUME NEW m \in Msgs, delivered[m] = 0, delivered'[m] > 0 PROVE Unpassed(m)
      BY DEF DeliveredInOrder
    <3>1. m = h.msg /\ (h.msg \notin Qos2 \/ h.id \notin peerReceived)
      BY <2>2
    <3> QED
      BY <1>3, <1>5, <2>1, <3>1 DEF IsNews
  <2> QED
    BY <1>2, <2>6, <2>11, <2>12, <2>13
<1> QED
  BY <1>2, <1>6, <1>7, <1>8, <1>9, <1>10 DEF DeviceStep

(* What the broker queues and sends: what was queued or sent before, or the  *)
(* newest message.                                                           *)
LEMMA NonePassedKept ==
    ASSUME Turns, InOrder, UNCHANGED <<delivered, peerReceived>>,
           QueueCounts' => \A id \in Queued' :
              \/ QueueCounts /\ id \in Queued /\ queue'[id] = queue[id]
              \/ queue'[id] = published,
           \A p \in On(out') : p.type = "PUBLISH" =>
              \/ p \in On(out)
              \/ /\ QueueCounts /\ p.id \in Queued /\ queue[p.id] = p.msg
                 /\ p.msg \notin Oversize
              \/ p.msg = published
    PROVE  NonePassed'
<1>1. \A m : Unpassed(m)' <=> Unpassed(m)
  BY DEF Unpassed
<1>2. \A id, m : IsNews(id, m)' <=> IsNews(id, m)
  BY DEF IsNews
<1>3. Unpassed(published)
  <2>1. delivered \in [Msgs -> Nat] /\ published \in Int /\ \A m \in Msgs : m \in Int
    BY BoundsAssumption DEF Turns, IInv, TypeOK, PeerType, WorldType, Msgs
  <2>2. \A m \in Msgs : delivered[m] > 0 => m <= published
    BY DEF InOrder, DeviceKnowsThePast
  <2>3. \A m \in Msgs : m > published => ~(delivered[m] > 0) /\ delivered[m] \in Nat
    BY <2>1, <2>2
  <2> QED
    BY <2>3 DEF Unpassed
<1>4. NonePassed
  BY DEF InOrder
<1>5. QueueCounts' => \A id \in Queued' :
         queue'[id] \notin Oversize /\ IsNews(id, queue'[id]) => Unpassed(queue'[id])
  BY <1>3, <1>4 DEF NonePassed
<1>6. \A p \in On(out') : p.type = "PUBLISH" /\ IsNews(p.id, p.msg) => Unpassed(p.msg)
  BY <1>3, <1>4 DEF NonePassed
<1> QED
  BY <1>1, <1>2, <1>5, <1>6 DEF NonePassed

(* Session::writePacket appends the newest message, and leaves nothing       *)
(* behind.                                                                   *)
LEMMA WriteOrder ==
    ASSUME InTurn, Turns, IdsSound, PublishMatches, InOrder, NEW t \in Publishers,
           WritePacketStep(t)
    PROVE  PublishesAscend(out') /\ NonePassed' /\ AllOnTheWay'
<1>0. /\ pc \in [Publishers -> {"idle", "lock", "write"}] /\ msg \in [Publishers -> 0..MaxMsgs]
      /\ out \in Seq(Packets) /\ published \in Int
  BY BoundsAssumption DEF Turns, IInv, TypeOK, WritersType, NetworkType, WorldType
<1>1. UNCHANGED <<delivered, peerReceived, destroyOnDisconnect, stage>>
  BY DEF WritePacketStep, BeginWrite, DropForQuota, TakeId, WriteToClient, session,
     connections, peer
<1>2. /\ QueueCounts' <=> QueueCounts
      /\ \A id, m : IsNews(id, m)' <=> IsNews(id, m)
  BY <1>1 DEF QueueCounts, Greeting, IsNews
<1>3. CASE BeginWrite(t) \/ DropForQuota(t)
  <2>1. /\ out' = out /\ pc[t] # "write"
        /\ \A id \in Queued' : id \in Queued /\ queue'[id] = queue[id]
    BY <1>3 DEF BeginWrite, DropForQuota, network, qosData, Queued, Without
  <2>2. \A u \in Publishers : u # t => pc'[u] = pc[u] /\ msg'[u] = msg[u]
    BY <1>0, <1>3 DEF BeginWrite, DropForQuota, FinishWrite
  <2>3. NonePassed'
    BY <1>1, <1>2, <2>1, NonePassedKept
  <2>4. AllOnTheWay'
    <3>1. \A u \in Publishers : pc[u] = "write" => pc'[u] = "write" /\ msg'[u] = msg[u]
      BY <2>1, <2>2
    <3> QED
      BY <1>1, <1>2, <2>1, <3>1 DEF InOrder, AllOnTheWay
  <2> QED
    BY <2>1, <2>3, <2>4 DEF InOrder
<1>4. CASE TakeId(t)
  <2>1. PICK cleared :
           queue' = IF destroyOnDisconnect THEN Without(queue, cleared)
                    ELSE [i \in DOMAIN Without(queue, cleared) \cup {FirstFree(usedIds \ cleared)} |->
                            IF i = FirstFree(usedIds \ cleared) THEN msg[t]
                            ELSE Without(queue, cleared)[i]]
    BY <1>4 DEF TakeId
  <2>2. pc[t] = "lock" /\ pc' = [pc EXCEPT ![t] = "write"] /\ UNCHANGED <<out, msg, published>>
    BY <1>4 DEF TakeId, network
  <2>3. pc'[t] = "write" /\ \A u \in Publishers : pc[u] = "write" => pc'[u] = "write"
    BY <1>0, <2>2
  <2>4. \A i \in Queued' : \/ i \in Queued /\ queue'[i] = queue[i]
                           \/ queue'[i] = msg[t]
    BY <2>1 DEF Queued, Without
  <2>5. msg[t] = published
    BY <2>2 DEF InOrder, WritesToTheSession
  <2>6. NonePassed'
    BY <1>1, <1>2, <2>2, <2>4, <2>5, NonePassedKept
  <2>7. AllOnTheWay'
    BY <1>1, <1>2, <2>2, <2>3, <2>4 DEF InOrder, AllOnTheWay
  <2> QED
    BY <2>2, <2>6, <2>7 DEF InOrder
<1>5. CASE WriteToClient(t)
  <2>1. PICK p : p = Publish(packetId[t], msg[t])
    OBVIOUS
  <2> DEFINE one == <<p>>
  <2>2. /\ pc[t] = "write" /\ pc' = [pc EXCEPT ![t] = "idle"]
        /\ UNCHANGED <<queue, msg, published>>
        /\ IF heldClient[t] # 0 /\ msg[t] \notin Oversize
           THEN Send(heldClient[t], one) ELSE out' = out
    BY <1>5, <2>1 DEF WriteToClient, FinishWrite, qosData, world
  <2>3. packetId[t] \in Ids /\ msg[t] \in Msgs
    BY <2>2, BoundsAssumption
       DEF Turns, IInv, TypeOK, WorldType, WritersHaveIds, MessagesDistinct, Msgs
  <2>4. one \in Seq(Packets) /\ p.type = "PUBLISH" /\ p.msg = msg[t] /\ p.id = packetId[t]
    BY <2>1, <2>3, PacketTypes DEF Publish
  <2>5. On(one) = {p} /\ PublishesAscend(one)
    <3>1. \A i, j \in 1..Len(one) : ~ (i < j)
      OBVIOUS
    <3> QED
      BY <3>1, OnOne DEF PublishesAscend
  <2>6. out' = out \/ out' = out \o one
    BY <2>2 DEF Send
  <2> HIDE DEF one
  <2>7. On(out \o one) = On(out) \cup {p}
    BY <1>0, <2>4, <2>5, OnConcat
  <2>8. msg[t] = published /\ heldClient[t] \in {0, client}
    BY <2>2 DEF InOrder, WritesToTheSession
  <2>9. \A q \in On(out) : q.type = "PUBLISH" => q.msg < p.msg
    <3>1. \A q \in On(out) : q.type = "PUBLISH" => q.msg <= published /\ q.msg # published
      BY <2>2, <2>8 DEF PublishMatches
    <3>2. \A q \in On(out) : q.type = "PUBLISH" => q.msg \in Int
      <4>1. \A q \in Packets : q.type = "PUBLISH" => q.msg \in Int
        BY DEF Packets, Publish, PubRel, ConnAck, Msgs
      <4> QED
        BY <1>0, <4>1, OnType
    <3> QED
      BY <1>0, <2>4, <2>8, <3>1, <3>2
  <2>10. PublishesAscend(out')
    BY <1>0, <2>4, <2>5, <2>6, <2>9, AscendConcat DEF InOrder
  <2>11. \A q \in On(out') : q \in On(out) \/ q.msg = published
    BY <2>4, <2>6, <2>7, <2>8
  <2>12. NonePassed'
    BY <1>1, <1>2, <2>2, <2>11, NonePassedKept DEF Queued
  <2>13. AllOnTheWay'
    <3> SUFFICES ASSUME NEW k \in Conns, stage[k] = "live", ~destroyOnDisconnect, NEW id \in Queued,
                        queue[id] \notin Oversize, IsNews(id, queue[id])
                 PROVE  \E q \in On(out') : q.type = "PUBLISH" /\ q.id = id /\ q.msg = queue[id]
      BY <1>1, <1>2, <2>2 DEF AllOnTheWay, Queued
    <3>1. heldClient[t] = peerConn /\ stage[peerConn] = "live" /\ heldClient[t] # 0
      <4>1. heldClient[t] # 0
        BY <2>2 DEF Turns, HandlersInTurn
      <4>2. k = client /\ k = peerConn
        BY DEF Turns, ConnsInTurn, Opened
      <4> QED
        BY <2>8, <4>1, <4>2
    <3>2. \/ \E q \in On(out) : q.type = "PUBLISH" /\ q.id = id /\ q.msg = queue[id]
          \/ \E u \in Publishers : pc[u] = "write" /\ msg[u] = queue[id]
      BY DEF InOrder, AllOnTheWay
    <3>3. CASE \E q \in On(out) : q.type = "PUBLISH" /\ q.id = id /\ q.msg = queue[id]
      BY <2>6, <2>7, <3>3
    <3>4. CASE \E u \in Publishers : pc[u] = "write" /\ msg[u] = queue[id]
      <4>1. msg[t] = queue[id]
        BY <2>2, <3>4 DEF Turns, HandlersInTurn
      <4>2. out' = out \o one
        BY <2>2, <3>1, <4>1 DEF Send
      <4>3. packetId[t] \in Queued /\ queue[packetId[t]] = msg[t]
        BY <2>2 DEF PublishMatches
      <4>4. packetId[t] = id
        BY <4>1, <4>3 DEF Turns, IInv, MessagesDistinct
      <4> QED
        BY <2>4, <2>7, <4>1, <4>2, <4>4
    <3> QED
      BY <3>2, <3>3, <3>4
  <2> QED
    BY <2>10, <2>12, <2>13
<1> QED
  BY <1>3, <1>4, <1>5 DEF WritePacketStep

(* The connect sequence sends again what is queued, oldest first, to a       *)
(* device for which nothing else is on the way.                              *)
LEMMA ConnectOrder ==
    ASSUME MayBeRefused = {}, InTurn, Turns, Turns', IdsSound, NewSession, PublishMatches,
           InOrder, NEW k \in Conns, Assign(k) \/ ConnectStep(k) \/ Close(k)
    PROVE  PublishesAscend(out') /\ NonePassed' /\ AllOnTheWay'
<1>0. stage \in [Conns -> StageNames] /\ out \in Seq(Packets)
  BY DEF Turns, IInv, TypeOK, ConnectionsType, NetworkType, StageNames
<1>1. UNCHANGED <<delivered, peerReceived, published>>
  BY DEF Assign, ConnectStep, SetSessionProperties, SendConnack, PickClient, CopyPending,
     WritePending, Close, peer, world
<1>2. QueueCounts' => QueueCounts
  <2>1. CASE SetSessionProperties(k)
    <3>1. ~destroyOnDisconnect
      BY <2>1 DEF SetSessionProperties, Turns, DestroyedForGood
    <3> QED
      BY <3>1 DEF QueueCounts
  <2>2. CASE SendConnack(k) \/ PickClient(k) \/ CopyPending(k) \/ WritePending(k)
    BY <2>2 DEF SendConnack, PickClient, CopyPending, WritePending, QueueCounts, Greeting
  <2>3. CASE Assign(k) \/ Close(k)
    <3>1. destroyOnDisconnect' = destroyOnDisconnect
          /\ \E s \in {"assigned", "dead"} : stage' = [stage EXCEPT ![k] = s]
      BY <2>3 DEF Assign, Close, session
    <3>2. \A j \in Conns : Greeting(j)' => Greeting(j)
      BY <1>0, <3>1 DEF Greeting
    <3> QED
      BY <3>1, <3>2 DEF QueueCounts
  <2> QED
    BY <2>1, <2>2, <2>3 DEF ConnectStep
<1>3. \A i \in Queued' : i \in Queued /\ queue'[i] = queue[i]
  <2>1. queue' = queue \/ \E ids : queue' = Without(queue, ids)
    BY DEF Assign, ConnectStep, SetSessionProperties, SendConnack, PickClient, CopyPending,
       WritePending, Close, qosData
  <2> QED
    BY <2>1 DEF Queued, Without
<1>4. CASE WritePending(k)
  <2>1. PICK s \in Seq(Packets) :
           /\ out' = out \o s
           /\ PublishesAscend(s)
           /\ \A p \in On(s) : p.type = "PUBLISH" =>
                 /\ p.id \in DOMAIN pending[k].publishes /\ p.msg = pending[k].publishes[p.id]
                 /\ p.msg \notin Oversize
           /\ \A id \in DOMAIN pending[k].publishes :
                 pending[k].publishes[id] \notin Oversize
                    => Publish(id, pending[k].publishes[id]) \in On(s)
    BY <1>4, AllIsResent DEF InOrder
  <2>2. stage[k] = "copied" /\ UNCHANGED <<queue, destroyOnDisconnect>>
    BY <1>4 DEF WritePending, qosData, session
  <2>3. \A p \in On(out) : p.type # "PUBLISH"
    BY <2>2, CalmAtGreeting, CalmTypes DEF IdsSound, Turns
  <2>4. On(out') = On(out) \cup On(s)
    BY <1>0, <2>1, OnConcat
  <2>5. PublishesAscend(out')
    BY <1>0, <2>1, <2>3, AscendConcat DEF InOrder
  <2>6. QueueCounts
    BY <2>2 DEF QueueCounts, Greeting
  <2>7. \A id \in DOMAIN pending[k].publishes :
           id \in Queued /\ queue[id] = pending[k].publishes[id]
    BY <2>2 DEF PublishMatches
  <2>8. NonePassed'
    BY <1>1, <1>2, <1>3, <2>1, <2>3, <2>4, <2>6, <2>7, NonePassedKept
  <2>9. \A id \in Queued : queue[id] \notin Oversize =>
           \E p \in On(out') : p.type = "PUBLISH" /\ p.id = id /\ p.msg = queue[id]
    <3> SUFFICES ASSUME NEW id \in Queued, queue[id] \notin Oversize
                 PROVE  \E p \in On(out') : p.type = "PUBLISH" /\ p.id = id /\ p.msg = queue[id]
      OBVIOUS
    <3>1. id \in DOMAIN pending[k].publishes
      BY <2>2 DEF InOrder, CopiesTheSession
    <3>2. Publish(id, queue[id]) \in On(out')
      BY <2>1, <2>4, <2>7, <3>1
    <3> QED
      BY <3>2 DEF Publish
  <2>10. AllOnTheWay'
    BY <2>2, <2>9 DEF AllOnTheWay, Queued
  <2> QED
    BY <2>5, <2>8, <2>10
<1>5. CASE ~WritePending(k)
  <2>1. \A p \in On(out') : p.type = "PUBLISH" => p \in On(out)
    <3>1. CASE out' = out
      BY <3>1
    <3>2. CASE out' = <<>>
      BY <3>2, OnNothing
    <3>3. CASE SendConnack(k)
      <4>1. PICK c : c = ConnAck(present[k])
        OBVIOUS
      <4>2. stage[k] = "registered" /\ Send(k, <<c>>)
        BY <3>3, <4>1 DEF SendConnack
      <4>3. out = <<>>
        BY <4>2 DEF NewSession
      <4>4. out' = <<>> \/ out' = <<c>>
        BY <4>2, <4>3 DEF Send
      <4>5. c.type # "PUBLISH"
        BY <4>1 DEF ConnAck
      <4>6. On(out') \subseteq {c}
        BY <4>4 DEF On
      <4> QED
        BY <4>5, <4>6
    <3>4. CASE Assign(k) \/ SetSessionProperties(k) \/ PickClient(k) \/ CopyPending(k) \/ Close(k)
      BY <3>1, <3>2, <3>4 DEF Assign, SetSessionProperties, PickClient, CopyPending, Close, network
    <3> QED
      BY <1>5, <3>3, <3>4 DEF ConnectStep
  <2>2. NonePassed'
    BY <1>1, <1>2, <1>3, <2>1, NonePassedKept
  <2>3. PublishesAscend(out')
    <3>1. CASE out' = out
      BY <3>1 DEF InOrder
    <3>2. CASE out' = <<>>
      BY <3>2 DEF PublishesAscend
    <3>3. CASE SendConnack(k)
      <4>1. out = <<>>
        BY <3>3 DEF SendConnack, NewSession
      <4>2. \A p \in On(out') : p.type # "PUBLISH"
        BY <2>1, <4>1, OnNothing
      <4> QED
        BY <4>2, AscendWithout
    <3>4. CASE Assign(k) \/ SetSessionProperties(k) \/ PickClient(k) \/ CopyPending(k) \/ Close(k)
      BY <3>1, <3>2, <3>4 DEF Assign, SetSessionProperties, PickClient, CopyPending, Close, network
    <3> QED
      BY <1>5, <3>3, <3>4 DEF ConnectStep
  <2>4. AllOnTheWay'
    <3>1. stage[k] # "live" => \A j \in Conns : j # k => stage[j] # "live"
      <4>1. stage[k] \notin {"unused", "dead", "live"} => \A j \in Conns : j # k => stage[j] # "live"
        BY DEF Turns, ConnsInTurn, Opened
      <4>2. Assign(k) => \A j \in Conns : stage[j] # "live"
        <5> SUFFICES ASSUME Assign(k), NEW j \in Conns, stage[j] = "live" PROVE FALSE
          OBVIOUS
        <5>1. /\ stage[k] = "unused" /\ stage' = [stage EXCEPT ![k] = "assigned"]
          BY DEF Assign
        <5>2. stage'[k] = "assigned" /\ stage'[j] = "live" /\ j # k
          BY <1>0, <5>1
        <5> QED
          BY <5>2 DEF Turns, ConnsInTurn, Opened
      <4>3. ~Assign(k) => stage[k] \notin {"unused", "dead"}
        BY DEF ConnectStep, SetSessionProperties, SendConnack, PickClient, CopyPending,
           WritePending, Close
      <4> QED
        BY <4>1, <4>2, <4>3
    <3>2. Close(k) => \A j \in Conns : j # k => stage[j] # "live"
      BY DEF Close, Turns, ConnsInTurn, Opened
    <3>3. stage[k] # "live" \/ Close(k)
      BY DEF Assign, ConnectStep, SetSessionProperties, SendConnack, PickClient, CopyPending,
         WritePending
    <3>4. \E s \in StageNames \ {"live"} : stage' = [stage EXCEPT ![k] = s]
      <4>1. PickClient(k) => SharedClient # 0
        <5>1. PickClient(k) => client = k /\ k # 0 /\ stage[k] = "acknowledged"
          BY DEF PickClient, Turns, ConnsInTurn, Opened, Conns
        <5> QED
          BY <5>1 DEF SharedClient
      <4> QED
        BY <1>5, <4>1 DEF Assign, ConnectStep, SetSessionProperties, SendConnack, PickClient,
           CopyPending, Close, StageNames
    <3>5. \A j \in Conns : stage'[j] # "live"
      BY <1>0, <3>1, <3>2, <3>3, <3>4
    <3> QED
      BY <3>5 DEF AllOnTheWay
  <2> QED
    BY <2>2, <2>3, <2>4
<1> QED
  BY <1>4, <1>5

(* An acknowledgement only shortens the queue.                               *)
LEMMA AckOrder ==
    ASSUME InTurn, Turns, InOrder, NEW k \in Conns, AckStep(k)
    PROVE  PublishesAscend(out') /\ NonePassed' /\ AllOnTheWay'
<1>0. out \in Seq(Packets)
  BY DEF Turns, IInv, TypeOK, NetworkType
<1>1. UNCHANGED <<delivered, peerReceived, pc, msg, published, destroyOnDisconnect, stage>>
  BY DEF AckStep, HandlePubAck, HandlePubRec, HandlePubRecError, StoreOutgoingQoS2,
     HandlePubComp, session, writers, connections, peer, world
<1>2. /\ QueueCounts' => QueueCounts
      /\ \A id, m : IsNews(id, m)' <=> IsNews(id, m)
  BY <1>1 DEF QueueCounts, Greeting, IsNews
<1>3. \A i \in Queued' : i \in Queued /\ queue'[i] = queue[i]
  <2>1. queue' = queue \/ \E ids : queue' = Without(queue, ids)
    BY DEF AckStep, HandlePubAck, HandlePubRec, HandlePubRecError, StoreOutgoingQoS2,
       HandlePubComp, ClearQosMessage
  <2> QED
    BY <2>1 DEF Queued, Without
<1>4. /\ PublishesAscend(out')
      /\ \A p \in On(out') : p.type = "PUBLISH" => p \in On(out)
      /\ \A p \in On(out) : p \in On(out')
  <2>1. CASE out' = out
    BY <2>1 DEF InOrder
  <2>2. CASE StoreOutgoingQoS2(k)
    <3>1. PICK p : p = PubRel(receivedRec[k])
      OBVIOUS
    <3> DEFINE one == <<p>>
    <3>2. receivedRec[k] \in Ids
      BY <2>2, BoundsAssumption DEF StoreOutgoingQoS2, Turns, IInv, TypeOK, ConnectionsType, Ids
    <3>3. one \in Seq(Packets) /\ p.type = "PUBREL"
      BY <3>1, <3>2, PacketTypes DEF PubRel
    <3>4. out' = out \/ out' = out \o one
      BY <2>2, <3>1 DEF StoreOutgoingQoS2, Send
    <3>5. On(one) = {p}
      BY OnOne
    <3> HIDE DEF one
    <3>6. On(out \o one) = On(out) \cup {p} /\ PublishesAscend(out \o one)
      BY <1>0, <3>3, <3>5, OnConcat, AscendWithout, AscendConcat DEF InOrder
    <3> QED
      BY <2>1, <3>3, <3>4, <3>6
  <2>3. StoreOutgoingQoS2(k) \/ out' = out
    BY DEF AckStep, HandlePubAck, HandlePubRec, HandlePubRecError, HandlePubComp
  <2> QED
    BY <2>1, <2>2, <2>3
<1>5. NonePassed'
  BY <1>1, <1>2, <1>3, <1>4, NonePassedKept
<1>6. AllOnTheWay'
  BY <1>1, <1>2, <1>3, <1>4 DEF InOrder, AllOnTheWay
<1> QED
  BY <1>4, <1>5, <1>6

LEMMA InOrderStep ==
    ASSUME MayBeRefused = {}, InTurn, Turns, Turns', IdsSound, NewSession, PublishMatches,
           InOrder, [Next]_vars
    PROVE  InOrder' /\ [DeliveredInOrder]_vars
<1>0. WritesToTheSession' /\ CopiesTheSession'
  BY WritersStep, CopiesStep DEF InOrder
<1>1. CASE DeviceStep
  BY <1>0, <1>1, DeviceOrder DEF InOrder
<1>2. CASE ~DeviceStep
  <2>1. UNCHANGED <<delivered, peerReceived>> /\ (published' = published \/ published' = published + 1)
    BY <1>2, BrokerDeliversNothing
  <2>2. DeviceKnowsThePast'
    <3>1. published \in Int /\ \A m \in Msgs : m \in Int
      BY BoundsAssumption DEF Turns, IInv, TypeOK, WorldType, Msgs
    <3>2. \A m \in Msgs : delivered[m] > 0 => m <= published
      BY DEF InOrder, DeviceKnowsThePast
    <3>3. \A m \in Msgs : delivered[m] > 0 => m <= published'
      BY <2>1, <3>1, <3>2
    <3> QED
      BY <2>1, <3>3 DEF InOrder, DeviceKnowsThePast, Undelivered
  <2>3. DeliveredInOrder
    <3>1. delivered \in [Msgs -> Nat]
      BY DEF Turns, IInv, TypeOK, PeerType
    <3> QED
      BY <2>1, <3>1 DEF DeliveredInOrder
  <2>4. CASE (\E m \in Msgs : Expire(m)) \/ Finished \/ UNCHANGED vars
    <3>1. UNCHANGED <<queue, destroyOnDisconnect, stage, pc, msg, published, out, delivered,
                      peerReceived>>
      BY <2>4 DEF Expire, Finished, vars, qosData, session, writers, connections, network, peer,
         world
    <3>2. /\ (QueueCounts' <=> QueueCounts) /\ Queued' = Queued
          /\ \A id, m : IsNews(id, m)' <=> IsNews(id, m)
      BY <3>1 DEF QueueCounts, Greeting, IsNews, Queued
    <3>3. NonePassed'
      BY <3>1, <3>2, NonePassedKept
    <3>4. AllOnTheWay'
      BY <3>1, <3>2 DEF InOrder, AllOnTheWay
    <3> QED
      BY <1>0, <2>2, <2>3, <3>1, <3>3, <3>4 DEF InOrder
  <2>5. ~Restart
    BY DEF Restart, InTurn, Turns, IInv, TypeOK, WorldType
  <2>6. ASSUME NEW t \in Publishers, WritePacketStep(t) PROVE InOrder'
    BY <1>0, <2>2, <2>6, WriteOrder DEF InOrder
  <2>7. ASSUME NEW k \in Conns, Assign(k) \/ ConnectStep(k) \/ Close(k) PROVE InOrder'
    BY <1>0, <2>2, <2>7, ConnectOrder DEF InOrder
  <2>8. ASSUME NEW k \in Conns, AckStep(k) PROVE InOrder'
    BY <1>0, <2>2, <2>8, AckOrder DEF InOrder
  <2> QED
    BY <1>2, <2>3, <2>4, <2>5, <2>6, <2>7, <2>8 DEF Next
<1> QED
  BY <1>1, <1>2

(* Messages reach the application of the device for the first time in the    *)
(* order in which they were published, across reconnects, resends in queue   *)
(* order (session.cpp sendAllPendingQosData) and expiry, with one worker     *)
(* thread, a client that closes a connection before the next, and no message *)
(* that the ACL or the device refuses: a publish that an ACL skips once is   *)
(* sent behind later ones when it is allowed again.                          *)
THEOREM FirstDeliveriesInOrder ==
    ASSUME SingleThread, ~Takeover, MaxRestarts = 0, MayBeRefused = {}
    PROVE  Spec => FirstDeliveryInOrder
<1>1. InTurn
  BY DEF InTurn
<1>2. Init => InOrder
  <2> SUFFICES ASSUME Init PROVE InOrder
    OBVIOUS
  <2>1. On(out) = {} /\ Len(out) = 0 /\ Queued = {}
    BY OnNothing DEF Init, Queued, NoPublishes
  <2>2. PublishesAscend(out)
    BY <2>1 DEF PublishesAscend
  <2>3. NonePassed /\ AllOnTheWay
    BY <2>1 DEF NonePassed, AllOnTheWay
  <2> QED
    BY <2>2, <2>3 DEF Init, InOrder, WritesToTheSession, CopiesTheSession, DeviceKnowsThePast
<1>3. Turns /\ Turns' /\ IdsSound /\ NewSession /\ PublishMatches /\ InOrder /\ [Next]_vars
         => InOrder' /\ [DeliveredInOrder]_vars
  BY <1>1, InOrderStep
<1>4. Spec => [][DeliveredInOrder]_vars
  BY <1>1, <1>2, <1>3, IdsHold, NewSessionHolds, PublishMatchesHolds, PTL DEF Spec
<1> QED
  BY <1>4 DEF FirstDeliveryInOrder, DeliveredInOrder, Unpassed
=============================================================================
