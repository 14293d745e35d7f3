----------------------------- MODULE QoSSession -----------------------------
(* One MQTT session of the broker and the device behind it: class Session    *)
(* with its QoSData (session.h, session.cpp), the acknowledgement handlers   *)
(* of mqttpacket.cpp, and the connect sequence of                            *)
(* ThreadData::continuationOfAuthentication.                                 *)
(*                                                                           *)
(* Several threads use the session at once.  A section under the QoSData     *)
(* mutex is one step; what a handler does outside that mutex is a step of    *)
(* its own, so that handlers interleave as they do in the program.  With     *)
(* SingleThread every handler runs to its end before the next one starts, as *)
(* with "thread_count 1".                                                    *)
(*                                                                           *)
(* A message is its number in publication order.  The queue of unacknowledged*)
(* publishes is a function from packet id to message; the order of its       *)
(* linked list is the order of the message numbers.  A connection is its     *)
(* number, 0 is "no client".                                                 *)
EXTENDS Integers, FiniteSets, Sequences

CONSTANTS
    MaxId,          \* largest packet id (65535 in the code)
    ReceiveMaxima,  \* the values clients send as Receive Maximum
    MaxQosCount,    \* max_qos_bytes_pending_per_client, in messages
    MaxMsgs,        \* bound: messages published
    MaxConns,       \* bound: connections the device makes
    MaxRestarts,    \* bound: broker restarts
    Publishers,     \* threads that route messages to this session
    SingleThread,   \* thread_count = 1
    Takeover,       \* the device may connect while its earlier connection is open
    CleanConns,     \* connections that set destroyOnDisconnect
    Qos2,           \* messages published with QoS 2; the others have QoS 1
    Oversize,       \* messages bigger than the client's maximum packet size
    MayExpire,      \* messages with a message expiry interval
    MayBeRefused    \* messages that an ACL may deny when they are sent again,
                    \* or the device with an error in its PUBREC

Ids == 1..MaxId
Msgs == 1..MaxMsgs
Conns == 1..MaxConns

ASSUME BoundsAssumption ==
    /\ MaxId \in Nat \ {0} /\ MaxMsgs \in Nat /\ MaxConns \in Nat /\ MaxRestarts \in Nat
    /\ MaxQosCount \in Nat
ASSUME ReceiveMaximaAssumption == ReceiveMaxima \subseteq 1..MaxId
ASSUME SetsAssumption ==
    /\ SingleThread \in BOOLEAN /\ Takeover \in BOOLEAN
    /\ CleanConns \subseteq Conns
    /\ Qos2 \subseteq Msgs /\ Oversize \subseteq Msgs
    /\ MayExpire \subseteq Msgs /\ MayBeRefused \subseteq Msgs

VARIABLES
    \* class QoSData
    usedIds, queue, nextPacketId, flowControlQuota, flowControlCealing, outgoingQoS2,
    \* class Session
    client,               \* LockedWeakPtr<Client>: the connection last assigned
    destroyOnDisconnect,
    restored,             \* the session was loaded from the state file
    \* Session::writePacket, per publishing thread
    pc, msg, heldClient, packetId,
    \* the connections
    stage,      \* how far the connect sequence of each has come
    present,    \* the session present flag in the staged CONNACK
    pending,    \* sendAllPendingQosData: the client it picked, and the publishes
                \* and QoS 2 ids it copied under the lock
    receivedRec,\* handlePubRec between clearing the message and storing the id
    out,        \* packets in the write buffer and the network, to the device
    in,         \* packets from the device, per connection
    \* the device, external
    peerConn,   \* the connection it uses
    peerReceived, \* its stored ids of QoS 2 publishes not yet released
    delivered,  \* how many times it handed each message to its application
    \* the rest of the world
    published,  \* number of messages published so far
    dropped,    \* messages the broker gave up with a reason it logs or counts
    expired,    \* messages whose expiry interval has passed
    restarts

qosData == <<usedIds, queue, nextPacketId, flowControlQuota, flowControlCealing, outgoingQoS2>>
session == <<client, destroyOnDisconnect, restored>>
writers == <<pc, msg, heldClient, packetId>>
connections == <<stage, present, pending, receivedRec>>
network == <<out, in>>
peer == <<peerConn, peerReceived, delivered>>
world == <<published, dropped, expired, restarts>>
vars == <<qosData, session, writers, connections, network, peer, world>>

-----------------------------------------------------------------------------
Publish(id, m) == [type |-> "PUBLISH", id |-> id, msg |-> m]
PubRel(id) == [type |-> "PUBREL", id |-> id, msg |-> 0]
ConnAck(sessionPresent) ==
    [type |-> IF sessionPresent THEN "CONNACK_PRESENT" ELSE "CONNACK", id |-> 0, msg |-> 0]
Ack(type, id) == [type |-> type, id |-> id]

Packets ==
    {Publish(id, m) : id \in Ids, m \in Msgs} \cup {PubRel(id) : id \in Ids}
    \cup {ConnAck(TRUE), ConnAck(FALSE)}
Acks == {Ack(type, id) : type \in {"PUBACK", "PUBREC", "PUBREC_ERROR", "PUBCOMP"}, id \in Ids}

Queued == DOMAIN queue

\* Mutant: unlinking an element loses what is linked behind it.
WithoutAndBehind(q, ids) == [id \in {i \in DOMAIN q : \A e \in ids : i < e} |-> q[id]]

\* A queue without the given ids (QoSPublishQueue::erase).
Without(q, ids) == [id \in DOMAIN q \ ids |-> q[id]]

\* The write buffer of a connection only reaches the device while it uses
\* that connection and the client object is in its thread's list of clients.
Send(conn, packets) ==
    out' = IF conn = peerConn /\ stage[conn] # "dead" THEN out \o packets ELSE out

\* Session::makeSharedClient: the weak pointer has expired once the
\* connection is gone and no thread holds a shared_ptr to the client.
SharedClient ==
    IF client # 0 /\ (\/ stage[client] # "dead"
                       \/ \E t \in Publishers : heldClient[t] = client
                       \/ \E k \in Conns : pending[k].to = client)
    THEN client
    ELSE 0

Busy ==
    \/ \E t \in Publishers : pc[t] # "idle"
    \/ \E k \in Conns : stage[k] \notin {"unused", "live", "dead"} \/ receivedRec[k] # 0

\* A worker thread takes up the next handler.
ThreadFree == SingleThread => ~Busy

-----------------------------------------------------------------------------
(* QoSData                                                                   *)

\* increaseFlowControlQuota, once for each of the ids: the quota it leads to
IncreasedQuota(ids) ==
    LET quota == flowControlQuota + Cardinality(ids)
    IN  IF quota < flowControlCealing THEN quota ELSE flowControlCealing

IncreaseFlowControlQuota(ids) ==
    /\ flowControlQuota' = IncreasedQuota(ids)
    /\ usedIds' = usedIds \ ids

\* How many steps of "nextPacketId++" lead to id, in an unsigned integer that wraps.
Distance(id) == (id - nextPacketId - 1) % (MaxId + 1)

\* Where the loop of getNextPacketId stops: the first unused id, looking at
\* the current nextPacketId last.
FirstFree(used) ==
    CHOOSE id \in Ids \ used : \A other \in Ids \ used : Distance(id) <= Distance(other)

\* getNextPacketId finds an id: quota left, and the loop stops at another id
\* than it started from.  With quota left and no free id the loop has no end.
IdAvailable(used, quota) ==
    /\ quota # 0
    /\ Ids \ used # {}
    /\ FirstFree(used) # nextPacketId

NoIdAvailable(used, quota) ==
    \/ quota = 0
    \/ Ids \ used # {} /\ FirstFree(used) = nextPacketId

ExpiredInQueue == {id \in Queued : queue[id] \in expired}

-----------------------------------------------------------------------------
(* Session::writePacket                                                      *)

\* clientDisconnectActions removes a session that was not to survive its client.
SessionExists ==
    /\ client # 0 \/ restored
    /\ client # 0 /\ stage[client] = "dead" => ~destroyOnDisconnect

\* The ACL allowed the read; take the shared pointer to the current client.
BeginWrite(t) ==
    /\ pc[t] = "idle"
    /\ ThreadFree
    /\ SessionExists
    /\ published < MaxMsgs
    /\ published' = published + 1
    /\ msg' = [msg EXCEPT ![t] = published + 1]
    /\ heldClient' = [heldClient EXCEPT ![t] = SharedClient]
    /\ pc' = [pc EXCEPT ![t] = "lock"]
    /\ UNCHANGED <<qosData, session, packetId, connections, network, peer,
                   dropped, expired, restarts>>

\* clearExpiredMessagesFromQueue, with which the critical section starts: only
\* for an off-line client and at most once a second.
Clearable(t) == IF heldClient[t] = 0 THEN {{}, ExpiredInQueue} ELSE {{}}

RoomInQueue(ids) == Cardinality(ids) < MaxQosCount \/ ids = {}

FinishWrite(t) ==
    /\ pc' = [pc EXCEPT ![t] = "idle"]
    /\ heldClient' = [heldClient EXCEPT ![t] = 0]
    /\ packetId' = [packetId EXCEPT ![t] = 0]
    /\ UNCHANGED msg

\* No quota, no id or too many bytes: the message is dropped.  A search that
\* comes back to its start leaves nextPacketId where it was.
DropForQuota(t) ==
    /\ pc[t] = "lock"
    /\ \E cleared \in Clearable(t) :
          /\ RoomInQueue(Queued \ cleared) =>
                NoIdAvailable(usedIds \ cleared, IncreasedQuota(cleared))
          /\ IncreaseFlowControlQuota(cleared)
          /\ queue' = Without(queue, cleared)
          /\ dropped' = dropped \cup {msg[t]} \cup {queue[id] : id \in cleared}
    /\ FinishWrite(t)
    /\ UNCHANGED <<nextPacketId, flowControlCealing, outgoingQoS2, session, connections,
                   network, peer, published, expired, restarts>>

\* The publish gets an id, and a place in the queue unless the session is not
\* going to survive the connection.
TakeId(t) ==
    /\ pc[t] = "lock"
    /\ \E cleared \in Clearable(t) :
          LET used == usedIds \ cleared
              id == FirstFree(used)
              left == Without(queue, cleared)
          IN  /\ RoomInQueue(Queued \ cleared)
              /\ IdAvailable(used, IncreasedQuota(cleared))
              /\ nextPacketId' = id
              /\ usedIds' = used \cup {id}
              /\ flowControlQuota' = IncreasedQuota(cleared) - 1
              /\ packetId' = [packetId EXCEPT ![t] = id]
              /\ queue' = IF destroyOnDisconnect THEN left
                          ELSE [i \in DOMAIN left \cup {id} |-> IF i = id THEN msg[t] ELSE left[i]]
              /\ dropped' = dropped \cup {queue[i] : i \in cleared}
    /\ pc' = [pc EXCEPT ![t] = "write"]
    /\ UNCHANGED <<flowControlCealing, outgoingQoS2, session, msg, heldClient, connections,
                   network, peer, published, expired, restarts>>

\* ClientOffline, or writeMqttPacketAndBlameThisClient, which silently
\* discards what is larger than the client's maximum packet size.
WriteToClient(t) ==
    /\ pc[t] = "write"
    /\ IF heldClient[t] # 0 /\ msg[t] \notin Oversize
       THEN Send(heldClient[t], <<Publish(packetId[t], msg[t])>>)
       ELSE UNCHANGED out
    /\ FinishWrite(t)
    /\ UNCHANGED <<qosData, session, connections, in, peer, world>>

-----------------------------------------------------------------------------
(* A client connects: continuationOfAuthentication                           *)

\* registerClientAndKickExistingOne up to Session::assignActiveConnection's
\* first statements.  A session that is to be destroyed is not picked up.
Assign(k) ==
    /\ stage[k] = "unused"
    /\ \A j \in Conns : j < k => IF Takeover THEN stage[j] # "unused" ELSE stage[j] = "dead"
    /\ ThreadFree
    /\ client # 0 => ~destroyOnDisconnect
    /\ client' = k
    /\ present' = [present EXCEPT ![k] = client # 0 \/ restored]
    /\ stage' = [stage EXCEPT ![k] = "assigned"]
    /\ peerConn' = k
    /\ out' = <<>>
    /\ UNCHANGED <<qosData, destroyOnDisconnect, restored, writers, pending, receivedRec,
                   in, peerReceived, delivered, world>>

\* Mutant: the quota is not reset for the new connection.
SetSessionPropertiesKeepQuota(k) ==
    /\ stage[k] = "assigned"
    /\ \E receiveMax \in ReceiveMaxima : flowControlCealing' = receiveMax
    /\ destroyOnDisconnect' = (k \in CleanConns)
    /\ stage' = [stage EXCEPT ![k] = "registered"]
    /\ UNCHANGED <<usedIds, queue, nextPacketId, flowControlQuota, outgoingQoS2, client, restored,
                   writers, present, pending, receivedRec, network, peer, world>>

\* Session::setSessionProperties
SetSessionProperties(k) ==
    /\ stage[k] = "assigned"
    /\ \E receiveMax \in ReceiveMaxima :
          /\ flowControlCealing' = receiveMax
          /\ flowControlQuota' = receiveMax
    /\ destroyOnDisconnect' = (k \in CleanConns)
    /\ stage' = [stage EXCEPT ![k] = "registered"]
    /\ UNCHANGED <<usedIds, queue, nextPacketId, outgoingQoS2, client, restored, writers,
                   present, pending, receivedRec, network, peer, world>>

\* Client::sendConnackSuccess
SendConnack(k) ==
    /\ stage[k] = "registered"
    /\ Send(k, <<ConnAck(present[k])>>)
    /\ stage' = [stage EXCEPT ![k] = "acknowledged"]
    /\ UNCHANGED <<qosData, session, writers, present, pending, receivedRec, in, peer, world>>

\* Mutant: the newest first.
SortedDown(ids, key) ==
    CHOOSE s \in [1..Cardinality(ids) -> ids] :
        \A i, j \in 1..Cardinality(ids) : i < j => key[s[i]] > key[s[j]]

\* A set of ids in the order of their keys.
SortedBy(ids, key) ==
    CHOOSE s \in [1..Cardinality(ids) -> ids] :
        \A i, j \in 1..Cardinality(ids) : i < j => key[s[i]] < key[s[j]]

\* Mutant: the walk starts behind the tail of the list.
OrderWithoutTail(publishes) ==
    LET s == SortedBy(DOMAIN publishes, publishes)
    IN  [i \in 1..(Len(s) - 1) |-> Publish(s[i + 1], publishes[s[i + 1]])]

\* The publishes in the order of the linked list.
InQueueOrder(publishes) ==
    LET s == SortedBy(DOMAIN publishes, publishes)
    IN  [i \in 1..Cardinality(DOMAIN publishes) |-> Publish(s[i], publishes[s[i]])]

\* The PUBRELs in the order in which std::set iterates over the ids.
Releases(ids) ==
    LET s == SortedBy(ids, [id \in ids |-> id])
    IN  [i \in 1..Cardinality(ids) |-> PubRel(s[i])]

NoPublishes == [id \in {} |-> 0]

NothingPending == [to |-> 0, publishes |-> NoPublishes, releases |-> {}]

\* Mutant: one more than there is quota for.
KeptOneTooMany(gone) ==
    {id \in Queued \ gone :
        Cardinality({o \in Queued \ gone : queue[o] < queue[id]}) <= flowControlQuota}

\* What the walk over the queue keeps when it erases what is gone: as many as
\* there is quota for.
Kept(gone) ==
    {id \in Queued \ gone :
        Cardinality({o \in Queued \ gone : queue[o] < queue[id]}) < flowControlQuota}

\* Session::sendAllPendingQosData takes the shared pointer to the client of the
\* session.  When another client has taken the session over by now, that one is
\* served; when that one is gone again, there is nothing to do.
PickClient(k) ==
    /\ stage[k] = "acknowledged"
    /\ IF SharedClient = 0
       THEN /\ stage' = [stage EXCEPT ![k] = "live"]
            /\ UNCHANGED pending
       ELSE /\ stage' = [stage EXCEPT ![k] = "picked"]
            /\ pending' = [pending EXCEPT ![k].to = SharedClient]
    /\ UNCHANGED <<qosData, session, writers, present, receivedRec, network, peer, world>>

\* ... and under the lock walks the list from its tail: what expired or is
\* denied is erased and its id released; the rest is copied while there is
\* quota, and erased when there is none.
CopyPending(k) ==
    /\ stage[k] = "picked"
    /\ \E denied \in SUBSET {id \in Queued : queue[id] \in MayBeRefused} :
          LET kept == Kept(denied \cup ExpiredInQueue)
          IN  /\ queue' = Without(queue, Queued \ kept)
              /\ usedIds' = usedIds \ (Queued \ kept)
              /\ flowControlQuota' = flowControlQuota - Cardinality(kept)
              /\ pending' = [pending EXCEPT ![k] =
                                [to |-> pending[k].to,
                                 publishes |-> [id \in kept |-> queue[id]],
                                 releases |-> outgoingQoS2]]
              /\ dropped' = dropped \cup {queue[id] : id \in Queued \ kept}
    /\ stage' = [stage EXCEPT ![k] = "copied"]
    /\ UNCHANGED <<nextPacketId, flowControlCealing, outgoingQoS2, session, writers,
                   present, receivedRec, network, peer, published, expired, restarts>>

\* ... and after the unlock: a publish the ACL now refuses to the reader is
\* skipped (it stays queued), the others are written, then the PUBRELs.
WritePending(k) ==
    /\ stage[k] = "copied"
    /\ \E denied \in SUBSET MayBeRefused :
          LET copied == pending[k].publishes
              skipped == {id \in DOMAIN copied : copied[id] \in denied \cup Oversize}
          IN  /\ Send(pending[k].to,
                      InQueueOrder(Without(copied, skipped)) \o Releases(pending[k].releases))
              /\ dropped' = dropped \cup {m \in denied : \E id \in DOMAIN copied : copied[id] = m}
    /\ pending' = [pending EXCEPT ![k] = NothingPending]
    /\ stage' = [stage EXCEPT ![k] = "live"]
    /\ UNCHANGED <<qosData, session, writers, present, receivedRec, in, peer,
                   published, expired, restarts>>

\* The connection breaks, or the client was kicked and its thread removes it.
\* Bound: nothing breaks the last connection.
Close(k) ==
    /\ stage[k] = "live"
    /\ k < MaxConns
    /\ receivedRec[k] = 0
    /\ ThreadFree
    /\ stage' = [stage EXCEPT ![k] = "dead"]
    /\ in' = [in EXCEPT ![k] = <<>>]
    /\ out' = IF k = peerConn THEN <<>> ELSE out
    /\ UNCHANGED <<qosData, session, writers, present, pending, receivedRec, peer, world>>

-----------------------------------------------------------------------------
(* Acknowledgements from the device                                          *)

\* The packet that the thread of connection k takes out of its read buffer.
Received(k, type) ==
    /\ stage[k] = "live"
    /\ receivedRec[k] = 0
    /\ ThreadFree
    /\ in[k] # <<>>
    /\ Head(in[k]).type = type
    /\ in' = [in EXCEPT ![k] = Tail(@)]

\* Mutant: PUBREC gives the id back.
ClearQosMessageForgets(id, handshakeEnds) ==
    LET found == destroyOnDisconnect \/ id \in Queued
    IN  /\ queue' = IF destroyOnDisconnect THEN queue ELSE Without(queue, {id})
        /\ IF found THEN IncreaseFlowControlQuota({id}) ELSE UNCHANGED <<usedIds, flowControlQuota>>
        /\ UNCHANGED <<nextPacketId, flowControlCealing, outgoingQoS2>>

\* Mutant: PUBREC leaves the publish in the queue.
ClearQosMessageKeeps(id, handshakeEnds) ==
    IF handshakeEnds /\ id \in Queued
    THEN /\ queue' = Without(queue, {id})
         /\ IncreaseFlowControlQuota({id})
         /\ UNCHANGED <<nextPacketId, flowControlCealing, outgoingQoS2>>
    ELSE UNCHANGED qosData

\* Mutant: an acknowledged publish stays in the queue.
ClearQosMessageLeaves(id, handshakeEnds) ==
    /\ IF handshakeEnds /\ id \in Queued
       THEN IncreaseFlowControlQuota({id})
       ELSE UNCHANGED <<usedIds, flowControlQuota>>
    /\ UNCHANGED <<queue, nextPacketId, flowControlCealing, outgoingQoS2>>

\* Session::clearQosMessage.  A session that is to be destroyed has no queue
\* to look in; every id counts as found.
ClearQosMessage(id, handshakeEnds) ==
    LET found == destroyOnDisconnect \/ id \in Queued
    IN  /\ queue' = IF destroyOnDisconnect THEN queue ELSE Without(queue, {id})
        /\ IF handshakeEnds /\ found
           THEN IncreaseFlowControlQuota({id})
           ELSE UNCHANGED <<usedIds, flowControlQuota>>
        /\ UNCHANGED <<nextPacketId, flowControlCealing, outgoingQoS2>>

HandlePubAck(k) ==
    /\ Received(k, "PUBACK")
    /\ ClearQosMessage(Head(in[k]).id, TRUE)
    /\ UNCHANGED <<session, writers, connections, out, peer, world>>

\* PUBREC with a reason code of 0x80 or more ends the handshake.
HandlePubRecError(k) ==
    /\ Received(k, "PUBREC_ERROR")
    /\ ClearQosMessage(Head(in[k]).id, TRUE)
    /\ UNCHANGED <<session, writers, connections, out, peer, world>>

HandlePubRec(k) ==
    /\ Received(k, "PUBREC")
    /\ ClearQosMessage(Head(in[k]).id, FALSE)
    /\ receivedRec' = [receivedRec EXCEPT ![k] = Head(in[k]).id]
    /\ UNCHANGED <<session, writers, stage, present, pending, out, peer, world>>

\* The second half of handlePubRec: Session::addOutgoingQoS2MessageId, in a
\* critical section of its own, and the PUBREL.
StoreOutgoingQoS2(k) ==
    /\ receivedRec[k] # 0
    /\ outgoingQoS2' = outgoingQoS2 \cup {receivedRec[k]}
    /\ Send(k, <<PubRel(receivedRec[k])>>)
    /\ receivedRec' = [receivedRec EXCEPT ![k] = 0]
    /\ UNCHANGED <<usedIds, queue, nextPacketId, flowControlQuota, flowControlCealing,
                   session, writers, stage, present, pending, in, peer, world>>

\* Mutant: PUBCOMP gives no quota back.
HandlePubCompKeepsQuota(k) ==
    /\ Received(k, "PUBCOMP")
    /\ outgoingQoS2' = outgoingQoS2 \ {Head(in[k]).id}
    /\ usedIds' = usedIds \ {Head(in[k]).id}
    /\ UNCHANGED <<queue, nextPacketId, flowControlQuota, flowControlCealing, session, writers,
                   connections, out, peer, world>>

\* Session::removeOutgoingQoS2MessageId
HandlePubComp(k) ==
    /\ Received(k, "PUBCOMP")
    /\ LET id == Head(in[k]).id
       IN  IF id \in outgoingQoS2
           THEN /\ outgoingQoS2' = outgoingQoS2 \ {id}
                /\ IncreaseFlowControlQuota({id})
           ELSE UNCHANGED <<outgoingQoS2, usedIds, flowControlQuota>>
    /\ UNCHANGED <<queue, nextPacketId, flowControlCealing, session, writers, connections,
                   out, peer, world>>

-----------------------------------------------------------------------------
(* The device: a client that follows the protocol and answers in order.      *)

Answer(type, id) == in' = [in EXCEPT ![peerConn] = Append(@, Ack(type, id))]

Deliver(m) == delivered' = [delivered EXCEPT ![m] = @ + 1]

DeviceTakes(type) ==
    /\ out # <<>>
    /\ Head(out).type = type
    /\ out' = Tail(out)

\* Without a session at the broker the device forgets its own state.
DeviceConnected ==
    /\ \/ DeviceTakes("CONNACK") /\ peerReceived' = {}
       \/ DeviceTakes("CONNACK_PRESENT") /\ UNCHANGED peerReceived
    /\ UNCHANGED <<qosData, session, writers, connections, in, peerConn, delivered, world>>

DeviceReceivesQos1 ==
    /\ DeviceTakes("PUBLISH")
    /\ Head(out).msg \notin Qos2
    /\ Deliver(Head(out).msg)
    /\ Answer("PUBACK", Head(out).id)
    /\ UNCHANGED <<qosData, session, writers, connections, peerConn, peerReceived, world>>

\* The device tells a QoS 2 duplicate from a new message by the stored id.
DeviceReceivesQos2 ==
    /\ DeviceTakes("PUBLISH")
    /\ Head(out).msg \in Qos2
    /\ IF Head(out).id \in peerReceived
       THEN UNCHANGED delivered
       ELSE Deliver(Head(out).msg)
    /\ peerReceived' = peerReceived \cup {Head(out).id}
    /\ Answer("PUBREC", Head(out).id)
    /\ UNCHANGED <<qosData, session, writers, connections, peerConn, world>>

DeviceRefuses ==
    /\ DeviceTakes("PUBLISH")
    /\ Head(out).msg \in Qos2 \cap MayBeRefused
    /\ Head(out).id \notin peerReceived
    /\ Answer("PUBREC_ERROR", Head(out).id)
    /\ dropped' = dropped \cup {Head(out).msg}
    /\ UNCHANGED <<qosData, session, writers, connections, peer,
                   published, expired, restarts>>

DeviceReleases ==
    /\ DeviceTakes("PUBREL")
    /\ peerReceived' = peerReceived \ {Head(out).id}
    /\ Answer("PUBCOMP", Head(out).id)
    /\ UNCHANGED <<qosData, session, writers, connections, peerConn, delivered, world>>

-----------------------------------------------------------------------------
(* Time and restarts                                                         *)

Expire(m) ==
    /\ m \in MayExpire \ expired
    /\ m <= published
    /\ expired' = expired \cup {m}
    /\ UNCHANGED <<qosData, session, writers, connections, network, peer,
                   published, dropped, restarts>>

\* The broker is stopped, saves the session and starts again.  saveData writes
\* the publishes in the order of the list, the QoS 2 ids and nextPacketId, and
\* skips a session that is to be destroyed.  readDataV3V4V5V6V7 puts them back
\* and ends with setSessionProperties(0xFFFF, ...).  usedIds starts empty.
Restart ==
    /\ restarts < MaxRestarts
    /\ ~Busy
    /\ SessionExists /\ ~destroyOnDisconnect
    /\ \E k \in Conns : stage[k] = "unused"
    /\ restarts' = restarts + 1
    /\ usedIds' = {}
    /\ flowControlQuota' = MaxId
    /\ flowControlCealing' = MaxId
    /\ client' = 0
    /\ restored' = TRUE
    /\ stage' = [k \in Conns |-> IF stage[k] = "unused" THEN "unused" ELSE "dead"]
    /\ out' = <<>>
    /\ in' = [k \in Conns |-> <<>>]
    /\ UNCHANGED <<queue, nextPacketId, outgoingQoS2, destroyOnDisconnect, writers,
                   present, pending, receivedRec, peer, published, dropped, expired>>

-----------------------------------------------------------------------------
\* A session just created by registerClientAndKickExistingOne, with
\* max_qos_msg_pending_per_client at its largest.
Init ==
    /\ usedIds = {} /\ queue = NoPublishes /\ nextPacketId = 0 /\ outgoingQoS2 = {}
    /\ flowControlQuota = MaxId /\ flowControlCealing = MaxId
    /\ client = 0 /\ destroyOnDisconnect = FALSE /\ restored = FALSE
    /\ pc = [t \in Publishers |-> "idle"] /\ msg = [t \in Publishers |-> 0]
    /\ heldClient = [t \in Publishers |-> 0] /\ packetId = [t \in Publishers |-> 0]
    /\ stage = [k \in Conns |-> "unused"] /\ present = [k \in Conns |-> FALSE]
    /\ pending = [k \in Conns |-> NothingPending]
    /\ receivedRec = [k \in Conns |-> 0]
    /\ out = <<>> /\ in = [k \in Conns |-> <<>>]
    /\ peerConn = 0 /\ peerReceived = {} /\ delivered = [m \in Msgs |-> 0]
    /\ published = 0 /\ dropped = {} /\ expired = {} /\ restarts = 0

WritePacketStep(t) ==
    BeginWrite(t) \/ DropForQuota(t) \/ TakeId(t) \/ WriteToClient(t)

ConnectStep(k) ==
    \/ SetSessionProperties(k) \/ SendConnack(k)
    \/ PickClient(k) \/ CopyPending(k) \/ WritePending(k)

AckStep(k) ==
    \/ HandlePubAck(k) \/ HandlePubRec(k) \/ HandlePubRecError(k)
    \/ StoreOutgoingQoS2(k) \/ HandlePubComp(k)

DeviceStep ==
    \/ DeviceConnected \/ DeviceReceivesQos1 \/ DeviceReceivesQos2
    \/ DeviceRefuses \/ DeviceReleases

\* All that the bounds allow has happened and every packet has been handled.
Quiescent ==
    /\ SessionExists => published = MaxMsgs
    /\ ~Busy
    /\ out = <<>> /\ \A k \in Conns : in[k] = <<>>
    /\ \A k \in Conns : stage[k] = "unused" => client # 0 /\ destroyOnDisconnect

Finished == Quiescent /\ UNCHANGED vars

Next ==
    \/ \E t \in Publishers : WritePacketStep(t)
    \/ \E k \in Conns : Assign(k) \/ ConnectStep(k) \/ AckStep(k) \/ Close(k)
    \/ DeviceStep
    \/ \E m \in Msgs : Expire(m)
    \/ Restart
    \/ Finished

Spec == Init /\ [][Next]_vars

\* Worker threads run what is queued for them, the device reads its socket
\* and connects again after it was disconnected.
Fairness ==
    /\ \A t \in Publishers : WF_vars(WritePacketStep(t))
    /\ \A k \in Conns : WF_vars(Assign(k)) /\ WF_vars(ConnectStep(k)) /\ WF_vars(AckStep(k))
    /\ WF_vars(DeviceStep)

FairSpec == Spec /\ Fairness

-----------------------------------------------------------------------------
\* What a map from ids to messages can be.
QueueStates == UNION {[ids -> Msgs] : ids \in SUBSET Ids}

Pendings == [to : 0..MaxConns, publishes : QueueStates, releases : SUBSET Ids]

QosDataType ==
    /\ usedIds \subseteq Ids
    /\ queue \in QueueStates
    /\ nextPacketId \in 0..MaxId
    /\ flowControlQuota \in Int /\ flowControlCealing \in 1..MaxId
    /\ outgoingQoS2 \subseteq Ids

SessionType ==
    client \in 0..MaxConns /\ destroyOnDisconnect \in BOOLEAN /\ restored \in BOOLEAN

WritersType ==
    /\ pc \in [Publishers -> {"idle", "lock", "write"}]
    /\ msg \in [Publishers -> 0..MaxMsgs]
    /\ heldClient \in [Publishers -> 0..MaxConns]
    /\ packetId \in [Publishers -> 0..MaxId]

ConnectionsType ==
    /\ stage \in [Conns -> {"unused", "assigned", "registered", "acknowledged",
                            "picked", "copied", "live", "dead"}]
    /\ present \in [Conns -> BOOLEAN]
    /\ pending \in [Conns -> Pendings]
    /\ receivedRec \in [Conns -> 0..MaxId]

NetworkType == out \in Seq(Packets) /\ in \in [Conns -> Seq(Acks)]

PeerType ==
    peerConn \in 0..MaxConns /\ peerReceived \subseteq Ids /\ delivered \in [Msgs -> Nat]

WorldType ==
    /\ published \in 0..MaxMsgs /\ dropped \subseteq Msgs /\ expired \subseteq Msgs
    /\ restarts \in 0..MaxRestarts

(* Every variable has its type.                                              *)
TypeOK ==
    /\ QosDataType
    /\ SessionType
    /\ WritersType
    /\ ConnectionsType
    /\ NetworkType
    /\ PeerType
    /\ WorldType

(* The send quota never becomes negative, which would pass the "== 0" test   *)
(* of getNextPacketId (session.cpp:125), and never exceeds the client's      *)
(* Receive Maximum, however resets by a reconnect, resends and late          *)
(* acknowledgements interleave.                                              *)
QuotaWithinReceiveMaximum ==
    /\ flowControlQuota >= 0
    /\ flowControlQuota <= flowControlCealing

(* The id of every publish in the queue and of every QoS 2 handshake waiting *)
(* for PUBCOMP is marked as used.  The code asserts it wherever it gives an  *)
(* id back (session.cpp:105, 113, 157), and without it getNextPacketId hands *)
(* the id of an unfinished message to a new one.                             *)
UnfinishedIdsAreUsed ==
    ~destroyOnDisconnect => Queued \cup outgoingQoS2 \subseteq usedIds

(* The part of it about the queue: a new publish never gets the id of a      *)
(* queued one, whose place in the map it would take while the list keeps     *)
(* both (qospacketqueue.cpp:190). Without a restart it holds for QoS 1       *)
(* whatever threads and take-overs do, and for QoS 2 with one thread.        *)
QueuedIdsAreUsed == ~destroyOnDisconnect => Queued \subseteq usedIds

(* A publish is refused for want of room or quota only while some other      *)
(* message of the session is unfinished: acknowledged messages leave the     *)
(* queue (session.cpp:307-334).  A session that ends with its connection     *)
(* keeps them there.                                                         *)
DropsOnlyWithUnfinished ==
    [][\A t \in Publishers :
          pc[t] = "lock" /\ pc'[t] = "idle" /\ restarts' = restarts
             => usedIds # {} \/ destroyOnDisconnect]_vars

(* A search for a packet id ends: no thread is in getNextPacketId with quota *)
(* left and every id in use (session.cpp:129, a loop without another exit).  *)
IdSearchEnds ==
    \A t \in Publishers : pc[t] = "lock" /\ flowControlQuota # 0 => usedIds # Ids

(* A QoS 2 message reaches the application of the device at most once, over  *)
(* any number of reconnects and resends (session.cpp sendAllPendingQosData,  *)
(* mqttpacket.cpp handlePubRec).                                             *)
Qos2AtMostOnce == \A m \in Qos2 : delivered[m] <= 1

(* When every packet has been answered and the device is connected, all ids  *)
(* are free again and the whole quota is back: nothing leaks over            *)
(* reconnects (comment of getNextPacketId, session.cpp:117-122).             *)
NothingLeaks ==
    Quiescent /\ SessionExists => usedIds = {} /\ flowControlQuota = flowControlCealing

(* Packet ids: none is given out while its message is unfinished, there is    *)
(* always one to give, and all come back with their quota (session.cpp:113,   *)
(* 129, 157); the records of the session have their types.                    *)
IdsAreSound == TypeOK /\ UnfinishedIdsAreUsed /\ IdSearchEnds /\ NothingLeaks

(* Messages reach the application of the device for the first time in the    *)
(* order in which they were published.                                       *)
FirstDeliveryInOrder ==
    [][\A m \in Msgs : delivered[m] = 0 /\ delivered'[m] > 0 =>
           \A later \in Msgs : later > m => delivered[later] = 0]_vars

(* A message leaves the queue only because the device has it or because the  *)
(* broker gave it up for a reason it knows: no acknowledgement of an earlier *)
(* message removes it after the ids have wrapped, and no new publish takes   *)
(* its place (session.cpp clearQosMessage, sendAllPendingQosData;            *)
(* qospacketqueue.cpp:190 queue[id] = ...).  It does not hold after a        *)
(* restart, as the ids of loaded messages are not in use                     *)
(* (sessionsandsubscriptionsdb.cpp:197), nor when a QoS 2 message expires    *)
(* whose id the device still stores: it takes the next one for a duplicate.  *)
NoSilentLoss ==
    [][\A id \in Queued :
          (\A i \in DOMAIN queue' : queue'[i] # queue[id])
             => delivered[queue[id]] > 0 \/ queue[id] \in dropped']_vars

(* A queued message reaches the device in the end, unless the broker dropped *)
(* it for expiry, an ACL, the quota or its size, or the device asked for the *)
(* session to end with the connection.  Ids are used again meanwhile; there  *)
(* is no restart and no QoS 2 message expires, see NoSilentLoss.             *)
AtLeastOnce ==
    \A m \in Msgs :
        (\E id \in Queued : queue[id] = m)
            ~> (delivered[m] > 0 \/ m \in dropped \cup Oversize \/ destroyOnDisconnect)
=============================================================================
