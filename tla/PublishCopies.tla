---------------------------- MODULE PublishCopies ----------------------------
(* One publish on its way from handlePublish to its subscribers: the packet     *)
(* that came in is changed and written again for those whose bytes have its    *)
(* layout, a cache has packets of other layouts, and a packet with something   *)
(* of its receiver's own is made once (publishcopyfactory.cpp,                 *)
(* mqttpacket.cpp:156-240, 2027-2330, session.cpp:209-420, client.cpp:434-503).*)
(*                                                                           *)
(* A packet is a record of what its bytes say.  Left out: payload, properties  *)
(* that are copied as they are, sizes, ACL checks of the readers.             *)
EXTENDS Integers

CONSTANTS
    Receivers,      \* the packet ids that they get: numbers from 2
    ReceiverKinds,  \* what a receiver and its subscription may be
    RetainedModes,  \* of Enabled, Downgrade, Drop, DisconnectWithError
    PluginChanges   \* what alterPublish may change: nothing, topic, qos, retain

ASSUME ReceiverAssumption ==
    /\ Receivers \subseteq Nat \ {0, 1}
    /\ ReceiverKinds \subseteq [mqtt5 : BOOLEAN, maxQos : 0..2, asPublished : BOOLEAN,
                                retains : BOOLEAN, alias : {"no", "first", "known"},
                                subId : {0, 1}, override : BOOLEAN, online : BOOLEAN]
    /\ \A k \in ReceiverKinds : ~k.mqtt5 => k.alias = "no"      \* client.cpp:457
    /\ RetainedModes \subseteq {"Enabled", "Downgrade", "Drop", "DisconnectWithError"}
    /\ PluginChanges \subseteq {"nothing", "topic", "qos", "retain"}

VARIABLES
    origin,         \* what came: a packet of a client, or a publish of the broker
    kindOf,         \* the kind of each receiver
    packet,         \* the incoming MqttPacket
    factory,        \* PublishCopyFactory, once it is made
    cache,          \* constructedPacketCache
    written,        \* packets, by receiver
    stored          \* publishes in the queues of receivers

copyVars == <<origin, kindOf, packet, factory, cache, written, stored>>

-----------------------------------------------------------------------------
Origins == [fromClient : BOOLEAN, mqtt5 : BOOLEAN, qos : 0..2, retain : BOOLEAN, aliased : BOOLEAN,
            prefixed : BOOLEAN, mode : RetainedModes]
OriginalId == 1
With(f, x, value) == [y \in DOMAIN f \cup {x} |-> IF y = x THEN value ELSE f[y]]
LowerQos(a, b) == IF a < b THEN a ELSE b

\* getPublishLayoutCompareKey: MQTT 5 has properties, and above QoS 0 there is a
\* packet id.
LayoutKey(mqtt5, qos) == (IF mqtt5 THEN 20 ELSE 10) + (IF qos > 0 THEN 1 ELSE 0)

\* parsePublishData, and what may not be written again.
Incoming(o) ==
    [layout |-> LayoutKey(o.mqtt5, o.qos), qos |-> o.qos, retain |-> o.retain, dup |-> o.qos > 0,
     topic |-> "topic", alias |-> "no", subId |-> 0, id |-> IF o.qos > 0 THEN OriginalId ELSE 0]

CopyTypeOK ==
    /\ origin \in Origins /\ kindOf \in [Receivers -> ReceiverKinds]
    /\ factory.orgQos \in 0..2 /\ {factory.made, factory.orgRetain, factory.reusable} \subseteq BOOLEAN
    /\ DOMAIN cache \subseteq {10, 11, 20, 21}

CopyInit ==
    /\ origin \in Origins /\ kindOf \in [Receivers -> ReceiverKinds]
    /\ origin.aliased => origin.mqtt5
    /\ origin.retain \/ origin.mode = "Enabled"
    /\ ~origin.fromClient => ~origin.mqtt5 /\ ~origin.prefixed /\ origin.mode = "Enabled"
    /\ packet = Incoming(origin)
    /\ factory = [made |-> FALSE, orgQos |-> 0, orgRetain |-> FALSE, topic |-> "topic", reusable |-> FALSE]
    /\ cache = <<>> /\ written = <<>> /\ stored = <<>>

-----------------------------------------------------------------------------
\* handlePublish: a bridge's prefix and a plugin may change the publish, after
\* which its bytes are not written again.  The DUP flag does not go on.
handlePublish(change) ==
    LET changed == origin.prefixed \/ change = "topic"
        qos == IF change = "qos" THEN (origin.qos + 1) % 3 ELSE origin.qos
        retain == origin.retain # (change = "retain")
        kept == retain /\ origin.mode # "Downgrade"
    IN
    /\ origin.fromClient /\ ~factory.made
    /\ ~(origin.retain /\ origin.mode = "DisconnectWithError")
    /\ ~retain \/ origin.mode \in {"Enabled", "Downgrade"}
    /\ packet' = [packet EXCEPT !.retain = kept, !.dup = FALSE]
    /\ factory' = [made |-> TRUE, orgQos |-> qos, orgRetain |-> kept,
                   topic |-> IF changed THEN "changed" ELSE "topic",
                   reusable |-> ~(origin.aliased \/ changed \/ change = "qos")]
    /\ UNCHANGED <<origin, kindOf, cache, written, stored>>

\* A will, a retained message, a message of the broker: there is no packet.
PublishOfBroker ==
    /\ ~origin.fromClient /\ ~factory.made
    /\ factory' = [factory EXCEPT !.made = TRUE, !.orgQos = origin.qos, !.orgRetain = origin.retain]
    /\ UNCHANGED <<origin, kindOf, packet, cache, written, stored>>

\* The constructor of MqttPacket for a protocol version.
Constructed(mqtt5, qos, alias, subId, topic) ==
    [layout |-> LayoutKey(mqtt5, qos), qos |-> qos, retain |-> FALSE, dup |-> FALSE,
     topic |-> IF alias = "known" THEN "none" ELSE topic,
     alias |-> IF mqtt5 THEN alias ELSE "no", subId |-> IF mqtt5 THEN subId ELSE 0, id |-> 0]

\* Mutant: the QoS of the packet, which its receivers change.
QosOfPacket(maxQos) == LowerQos(packet.qos, maxQos)

getEffectiveQos(maxQos) == LowerQos(factory.orgQos, maxQos)
TopicFor(k) == IF k.override THEN "override" ELSE factory.topic
HasOwnData(k) == k.override \/ (k.mqtt5 /\ k.alias # "no") \/ k.subId > 0

\* What the client does to the packet that it is given: setPacketId and setQos
\* when there is an id, setRetain.
Stamped(p, id, qos, retain) ==
    IF p.qos > 0 THEN [p EXCEPT !.id = id, !.qos = qos, !.retain = retain]
                 ELSE [p EXCEPT !.retain = retain]

Receives(r, p) == written' = With(written, r, p)
RetainFor(k) == factory.orgRetain /\ k.asPublished /\ k.retains

\* getOptimumPacket for a packet with the receiver's own data, or of a publish.
WriteOnce(r, k, qos) ==
    /\ HasOwnData(k) \/ ~origin.fromClient
    /\ Receives(r, Stamped(Constructed(k.mqtt5, qos, k.alias, k.subId, TopicFor(k)), r, qos, RetainFor(k)))
    /\ UNCHANGED <<packet, cache>>

\* getOptimumPacket that returns what came in.  It is changed for good.
IsReused(k, qos) ==
    factory.reusable /\ LayoutKey(origin.mqtt5, factory.orgQos) = LayoutKey(k.mqtt5, qos)
WriteIncoming(r, k, qos) ==
    /\ ~HasOwnData(k) /\ origin.fromClient /\ IsReused(k, qos)
    /\ packet' = Stamped(packet, r, qos, RetainFor(k))
    /\ Receives(r, packet')
    /\ UNCHANGED cache

\* getOptimumPacket that returns a packet of the cache, made when it is not there.
WriteCached(r, k, qos) ==
    LET key == LayoutKey(k.mqtt5, qos)
        cached == IF key \in DOMAIN cache THEN cache[key]
                  ELSE Constructed(k.mqtt5, qos, "no", 0, factory.topic)
    IN
    /\ ~HasOwnData(k) /\ origin.fromClient /\ ~IsReused(k, qos)
    /\ cache' = With(cache, key, Stamped(cached, r, qos, RetainFor(k)))
    /\ Receives(r, cache'[key])
    /\ UNCHANGED packet

\* getNewPublish: what a session keeps for a client that is away, or that does
\* not acknowledge.  A publish of the broker has no subscription identifier.
NewPublish(k, qos) ==
    [qos |-> qos, retain |-> factory.orgRetain /\ k.asPublished, topic |-> factory.topic,
     subId |-> IF origin.fromClient THEN k.subId ELSE 0]

\* Session::writePacket.
WriteTo(r) ==
    LET k == kindOf[r]
        qos == getEffectiveQos(k.maxQos)
    IN
    /\ factory.made /\ r \notin DOMAIN written /\ r \notin DOMAIN stored
    /\ stored' = IF qos > 0 THEN With(stored, r, NewPublish(k, qos)) ELSE stored
    /\ IF k.online THEN WriteOnce(r, k, qos) \/ WriteIncoming(r, k, qos) \/ WriteCached(r, k, qos)
       ELSE UNCHANGED <<packet, cache, written>> /\ qos > 0
    /\ UNCHANGED <<origin, kindOf, factory>>

\* sendAllPendingQosData: the stored publish goes through a factory of its own.
Resend(r) ==
    LET k == kindOf[r]
        p == stored[r]
        topic == IF k.override THEN "override" ELSE p.topic
    IN
    /\ r \in DOMAIN stored
    /\ Receives(r, Stamped(Constructed(k.mqtt5, p.qos, k.alias, p.subId, topic), r, p.qos, p.retain /\ k.retains))
    /\ UNCHANGED <<origin, kindOf, packet, factory, cache, stored>>

CopyNext ==
    \/ \E change \in PluginChanges : handlePublish(change)
    \/ PublishOfBroker
    \/ \E r \in Receivers : WriteTo(r) \/ Resend(r)

CopySpec == CopyInit /\ [][CopyNext]_copyVars

-----------------------------------------------------------------------------
\* What a receiver is promised, whoever else gets the publish.
Promised(r) ==
    LET k == kindOf[r]
        qos == LowerQos(factory.orgQos, k.maxQos)
    IN  [layout |-> LayoutKey(k.mqtt5, qos), qos |-> qos, retain |-> RetainFor(k), dup |-> FALSE,
         topic |-> IF k.alias = "known" THEN "none" ELSE TopicFor(k), alias |-> k.alias,
         subId |-> IF k.mqtt5 THEN k.subId ELSE 0, id |-> IF qos > 0 THEN r ELSE 0]

\* Every receiver gets its own QoS, packet id, retain flag, alias, identifier and
\* topic, in any order of the receivers and however they share packets
\* (publishcopyfactory.cpp:35), at once and when it is sent again.  A publish of the
\* broker has lost its subscription identifier when it is sent from the queue.
CopiesAreExact ==
    \A r \in DOMAIN written :
        \/ written[r] = Promised(r)
        \/ ~origin.fromClient /\ r \in DOMAIN stored /\ written[r] = [Promised(r) EXCEPT !.subId = 0]

PublishCopiesAreSound == CopyTypeOK /\ CopiesAreExact
=============================================================================
