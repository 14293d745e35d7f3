---------------------------- MODULE IncomingQoS2 ----------------------------
(* The broker as the receiver of QoS 2 publishes (mqttpacket.cpp:2164-2309,  *)
(* 2397-2424; session.cpp:449-488; acksender.cpp): one session, the device    *)
(* that publishes, the connections it makes one after the other.  When the    *)
(* device connects again, the thread of the old connection may still be in    *)
(* the middle of a handler, or have packets to read.                          *)
(*                                                                           *)
(* Left out: QoS 0 and 1, topic prefixes, changes by a plugin, the maximum    *)
(* QoS, retaining (RetainedMessages).                                        *)
EXTENDS Integers, FiniteSets, Sequences, SequencesExt

CONSTANTS
    InIds,          \* packet ids of the device
    MaxPubs,        \* bound on the publishes of the device
    MaxConns,       \* bound on its connections
    RefusedChoices, \* sets of publishes that an ACL refuses
    Mqtt5Choices,   \* the protocol versions: is it MQTT 5?
    InThreads       \* may two connections be handled by two threads?

ASSUME InIdsAssumption == IsFiniteSet(InIds)
ASSUME MaxPubsAssumption == MaxPubs \in Nat \ {0}
ASSUME MaxConnsAssumption == MaxConns \in Nat \ {0}
ASSUME InChoicesAssumption ==
    /\ Mqtt5Choices \subseteq BOOLEAN
    /\ RefusedChoices \subseteq SUBSET (1..MaxPubs)
    /\ InThreads \in BOOLEAN

InPubs == 1..MaxPubs
Conns == 1..MaxConns

VARIABLES
    inconf,     \* the choices
    incoming,   \* QoSData::incomingQoS2MessageIds
    routed,     \* publish -> how often it was queued at the subscribers
    handling,   \* connection -> where its handler is
    toBroker,   \* connection -> packets the broker has not handled
    toDevice,   \* connection -> packets the device has not received
    lastConn,   \* the connection of the device
    registered, \* the connection that the broker knows to be the client's
    flight,     \* id -> the unfinished publish of the device and its phase
    made,       \* how many publishes the device has made
    accepted    \* publishes that the device knows to be received

inVars == <<inconf, incoming, routed, handling, toBroker, toDevice, lastConn, registered, flight,
            made, accepted>>

-----------------------------------------------------------------------------
Nothing == [phase |-> "none"]
NotHandling == [at |-> "idle"]
PacketTypes == {"PUBLISH", "PUBREL", "PUBREC", "PUBCOMP"}
Packet(type, id, pub, ok) == [type |-> type, id |-> id, pub |-> pub, ok |-> ok]
Packets == [type : PacketTypes, id : InIds, pub : 0..MaxPubs, ok : BOOLEAN]

InTypeOK ==
    /\ inconf \in [mqtt5 : Mqtt5Choices, refused : RefusedChoices]
    /\ incoming \subseteq InIds
    /\ routed \in [InPubs -> Nat]
    /\ handling \in [Conns -> {NotHandling} \cup
                        [at : {"new", "duplicate", "accepted"}, id : InIds, pub : InPubs]]
    /\ toBroker \in [Conns -> Seq(Packets)]
    /\ toDevice \in [Conns -> Seq(Packets)]
    /\ lastConn \in Conns /\ registered \in Conns
    /\ flight \in [InIds -> {Nothing} \cup [phase : {"publish", "release"}, pub : InPubs]]
    /\ made \in 0..MaxPubs
    /\ accepted \subseteq InPubs

InInit ==
    /\ inconf \in [mqtt5 : Mqtt5Choices, refused : RefusedChoices]
    /\ incoming = {}
    /\ routed = [p \in InPubs |-> 0]
    /\ handling = [c \in Conns |-> NotHandling]
    /\ toBroker = [c \in Conns |-> <<>>]
    /\ toDevice = [c \in Conns |-> <<>>]
    /\ lastConn = 1 /\ registered = 1
    /\ flight = [i \in InIds |-> Nothing]
    /\ made = 0
    /\ accepted = {}

-----------------------------------------------------------------------------
\* getDisconnectStage() > NotInitiated: a connection that was taken over.
Stale(c) == c < registered
ThreadIsIdle(c) ==
    \A d \in Conns : (d = c \/ ~InThreads) => handling[d] = NotHandling

\* writeMqttPacket: the device never reads what was written to an old connection.
Send(c, p) ==
    toDevice' = IF c < lastConn THEN toDevice ELSE [toDevice EXCEPT ![c] = Append(@, p)]

NextPacket(c, type) ==
    /\ ThreadIsIdle(c) /\ c = registered
    /\ toBroker[c] # <<>> /\ Head(toBroker[c]).type = type
    /\ toBroker' = [toBroker EXCEPT ![c] = Tail(@)]

\* handlePublish: incomingQoS2MessageIdInTransit
CheckInTransit(c) ==
    LET p == Head(toBroker[c]) IN
    /\ NextPacket(c, "PUBLISH")
    /\ handling' = [handling EXCEPT ![c] =
                       [at |-> IF p.id \in incoming THEN "duplicate" ELSE "new",
                        id |-> p.id, pub |-> p.pub]]
    /\ UNCHANGED <<inconf, incoming, routed, toDevice, lastConn, registered, flight, made,
                   accepted>>

\* addIncomingQoS2MessageId, before the ACL is asked: so that a publish that is
\* not allowed can be released as well.
addIncomingQoS2MessageId(c) ==
    /\ handling[c].at = "new"
    /\ incoming' = incoming \cup {handling[c].id}
    /\ handling' = [handling EXCEPT ![c].at = "accepted"]
    /\ UNCHANGED <<inconf, routed, toBroker, toDevice, lastConn, registered, flight, made,
                   accepted>>

\* The ACL, the acknowledgement, and then queuePacketAtSubscribers.  Before
\* MQTT 5 there is no reason code.
RouteAndAcknowledge(c) ==
    LET h == handling[c]
        allowed == h.pub \notin inconf.refused
    IN
    /\ h.at = "accepted"
    /\ Send(c, Packet("PUBREC", h.id, 0, allowed \/ ~inconf.mqtt5))
    /\ routed' = IF allowed THEN [routed EXCEPT ![h.pub] = @ + 1] ELSE routed
    /\ handling' = [handling EXCEPT ![c] = NotHandling]
    /\ UNCHANGED <<inconf, incoming, toBroker, lastConn, registered, flight, made,
                   accepted>>

\* A publish that is in transit is only acknowledged again.
AcknowledgeDuplicate(c) ==
    /\ handling[c].at = "duplicate"
    /\ Send(c, Packet("PUBREC", handling[c].id, 0, TRUE))
    /\ handling' = [handling EXCEPT ![c] = NotHandling]
    /\ UNCHANGED <<inconf, incoming, routed, toBroker, lastConn, registered, flight, made,
                   accepted>>

\* handlePubRel
\* Mutant: the id is kept.
HandlePubRelKeepId(c) ==
    LET p == Head(toBroker[c]) IN
    /\ NextPacket(c, "PUBREL")
    /\ Send(c, Packet("PUBCOMP", p.id, 0, p.id \in incoming))
    /\ UNCHANGED <<inconf, incoming, routed, handling, lastConn, registered, flight, made,
                   accepted>>

HandlePubRel(c) ==
    LET p == Head(toBroker[c]) IN
    /\ NextPacket(c, "PUBREL")
    /\ incoming' = incoming \ {p.id}
    /\ Send(c, Packet("PUBCOMP", p.id, 0, p.id \in incoming))
    /\ UNCHANGED <<inconf, routed, handling, lastConn, registered, flight, made,
                   accepted>>

\* The CONNECT of the new connection: registerClientAndKickExistingOne.
Register ==
    /\ registered < lastConn /\ ThreadIsIdle(lastConn)
    /\ registered' = lastConn
    /\ UNCHANGED <<inconf, incoming, routed, handling, toBroker, toDevice, lastConn, flight, made,
                   accepted>>

\* What a taken over connection still has in its buffer is dropped.
DropStale(c) ==
    /\ handling[c] = NotHandling /\ Stale(c) /\ toBroker[c] # <<>>
    /\ toBroker' = [toBroker EXCEPT ![c] = <<>>]
    /\ UNCHANGED <<inconf, incoming, routed, handling, toDevice, lastConn, registered, flight, made,
                   accepted>>

-----------------------------------------------------------------------------
(* The device follows the protocol.                                          *)
DevicePublishes(i) ==
    /\ flight[i] = Nothing /\ made < MaxPubs
    /\ made' = made + 1
    /\ flight' = [flight EXCEPT ![i] = [phase |-> "publish", pub |-> made + 1]]
    /\ toBroker' = [toBroker EXCEPT ![lastConn] =
                       Append(@, Packet("PUBLISH", i, made + 1, TRUE))]
    /\ UNCHANGED <<inconf, incoming, routed, handling, toDevice, lastConn, registered, accepted>>

\* A PUBREC with an error ends the exchange: the id is free.
DeviceGetsPubRec ==
    LET p == Head(toDevice[lastConn])
        mine == flight[p.id].phase = "publish"
    IN
    /\ toDevice[lastConn] # <<>> /\ p.type = "PUBREC"
    /\ toDevice' = [toDevice EXCEPT ![lastConn] = Tail(@)]
    /\ IF p.ok
       THEN /\ flight' = IF mine THEN [flight EXCEPT ![p.id].phase = "release"] ELSE flight
            /\ accepted' = IF mine THEN accepted \cup {flight[p.id].pub} ELSE accepted
            /\ toBroker' = [toBroker EXCEPT ![lastConn] =
                               Append(@, Packet("PUBREL", p.id, 0, TRUE))]
       ELSE /\ flight' = [flight EXCEPT ![p.id] = Nothing]
            /\ UNCHANGED <<accepted, toBroker>>
    /\ UNCHANGED <<inconf, incoming, routed, handling, lastConn, registered, made>>

DeviceGetsPubComp ==
    LET p == Head(toDevice[lastConn]) IN
    /\ toDevice[lastConn] # <<>> /\ p.type = "PUBCOMP"
    /\ toDevice' = [toDevice EXCEPT ![lastConn] = Tail(@)]
    /\ flight' = [flight EXCEPT ![p.id] = IF @.phase = "release" THEN Nothing ELSE @]
    /\ UNCHANGED <<inconf, incoming, routed, handling, toBroker, lastConn, registered, made,
                   accepted>>

Again(i) == IF flight[i].phase = "publish" THEN Packet("PUBLISH", i, flight[i].pub, TRUE)
                                           ELSE Packet("PUBREL", i, 0, TRUE)

\* The connection breaks or the device drops it; it connects again, its session
\* is present, and it sends again what is not finished.
DeviceReconnects ==
    LET open == {i \in InIds : flight[i] # Nothing} IN
    /\ lastConn < MaxConns
    /\ lastConn' = lastConn + 1
    /\ \E order \in SetToSeqs(open) :
           toBroker' = [toBroker EXCEPT ![lastConn + 1] =
                           [n \in DOMAIN order |-> Again(order[n])]]
    /\ toDevice' = [toDevice EXCEPT ![lastConn] = <<>>]
    /\ UNCHANGED <<inconf, incoming, routed, handling, registered, flight, made, accepted>>

-----------------------------------------------------------------------------
HandlerStep(c) ==
    \/ CheckInTransit(c)
    \/ addIncomingQoS2MessageId(c)
    \/ RouteAndAcknowledge(c)
    \/ AcknowledgeDuplicate(c)
    \/ HandlePubRel(c)
    \/ DropStale(c)

InNext ==
    \/ \E c \in Conns : HandlerStep(c)
    \/ \E i \in InIds : DevicePublishes(i)
    \/ Register
    \/ DeviceGetsPubRec
    \/ DeviceGetsPubComp
    \/ DeviceReconnects

InSpec == InInit /\ [][InNext]_inVars

\* Worker threads go on, and so does the device.
InFairness ==
    /\ \A c \in Conns : WF_inVars(HandlerStep(c))
    /\ WF_inVars(Register)
    /\ WF_inVars(DeviceGetsPubRec)
    /\ WF_inVars(DeviceGetsPubComp)
FairInSpec == InSpec /\ InFairness

-----------------------------------------------------------------------------
(* QoS 2: a publish reaches the subscribers once at most, however often it is *)
(* sent again on whatever connection (mqttpacket.cpp:2237).  This holds when  *)
(* one thread handles both connections of a take-over.                        *)
RoutedAtMostOnce == \A p \in InPubs : routed[p] <= 1

(* A publish that the device knows to be received was routed, unless it was   *)
(* refused: an id that is still kept from an earlier publish never makes the  *)
(* broker swallow a new one (mqttpacket.cpp:2237, 2243, 2369).                *)
AcceptedIsRouted == \A p \in accepted \ inconf.refused : routed[p] = 1

(* No id stays behind: when nothing is on its way, the broker keeps ids of    *)
(* unfinished publishes only (session.cpp:466).                               *)
NoIdIsKept ==
    (\A c \in Conns : handling[c] = NotHandling /\ toBroker[c] = <<>> /\ toDevice[c] = <<>>)
        => \A i \in incoming : flight[i] # Nothing

(* The broker's side of QoS 2: not twice, not lost, and nothing kept           *)
(* (mqttpacket.cpp:2164, 2411).                                              *)
ExactlyOnce == RoutedAtMostOnce /\ AcceptedIsRouted /\ NoIdIsKept

(* Every publish is finished in the end, also when an answer was lost with    *)
(* its connection and the PUBREL comes a second time (mqttpacket.cpp:2417).   *)
HandshakeEnds == \A i \in InIds : flight[i] # Nothing ~> flight[i] = Nothing
=============================================================================
