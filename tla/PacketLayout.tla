---------------------------- MODULE PacketLayout ----------------------------
(* What one FlashMQ writes and another one reads (mqttpacket.cpp, types.cpp,   *)
(* packetdatatypes.cpp, client.cpp:533): a bridge, or any client that uses     *)
(* this code, logs in at a broker, subscribes and exchanges packets with it.   *)
(*                                                                           *)
(* Left out: the content of texts (UTF-8, characters that are not allowed),    *)
(* who may log in or subscribe (Authorization), certificates, logging.        *)
EXTENDS PacketFields

CONSTANTS
    Connectors,     \* what the connecting end is configured with, writeLoginPacket
    Brokers,        \* the settings of the broker
    Messages,       \* publishes, as Message
    MaxPacketId     \* bound on the packet ids that are used

VARIABLES
    pconf,      \* [near, far]: one of Connectors and one of Brokers
    handshake,  \* the packet that comes next, "up", or who ended it: "refused" or "rejected"
    wire,       \* the packet on its way, with what its writer meant
    got,        \* what the reader made of the last packet after the handshake
    far,        \* what the broker knows of the connecting end
    near,       \* what the connecting end knows of the broker
    topicOf     \* end -> the topic of the alias 1 it was told

packetVars == <<pconf, handshake, wire, got, far, near, topicOf>>

Mqtt5(version) == version = "5"
Unlimited == -1
Unknown == [known |-> FALSE]
Refused == [refused |-> TRUE]

Packet(kind, version, lsb, fields, length, means) ==
    [kind |-> kind, version |-> version, lsb |-> lsb, fields |-> fields, length |-> length,
     means |-> means]
NoPacket == Packet("none", "5", 0, <<>>, 0, [meant |-> FALSE])

\* writeProperties: nothing below MQTT 5.
PropertiesField(version, props) ==
    IF Mqtt5(version) THEN <<Field("props", props)>> ELSE <<>>
PropertiesLength(version, props) == IF Mqtt5(version) THEN BuilderLength(props) ELSE 0

\* generate_first_byte
Lsb(kind) == IF kind \in {"PUBREL", "SUBSCRIBE", "UNSUBSCRIBE"} THEN 2 ELSE 0

\* getSizeIncludingNonPresentHeader
WholeSize(packet) == 1 + VarLen(packet.length) + packet.length

\* The constructor that parses: what it refuses whatever is in the packet.
IsTaken(packet, maxIncoming) ==
    /\ WholeSize(packet) <= maxIncoming
    /\ packet.kind = "AUTH" => Mqtt5(packet.version)
    /\ packet.version # "31" /\ packet.kind # "PUBLISH" => packet.lsb = Lsb(packet.kind)

-----------------------------------------------------------------------------
(* Publishes, and wills.                                                     *)

Message(topic, payload, qos) ==
    [topic |-> topic, payload |-> payload, qos |-> qos, retain |-> FALSE, alias |-> 0,
     skipTopic |-> FALSE, subId |-> 0, expire |-> Unlimited, correlation |-> Absent,
     response |-> Absent, contentType |-> Absent, utf8 |-> FALSE, users |-> <<>>, delay |-> 0]

\* Publish::getPropertyBuilder, and WillPublish's.
MessageProperties(m) ==
    PropertyIf(m.expire # Unlimited, "MessageExpiryInterval", m.expire)
    \o PropertyIf(Given(m.correlation), "CorrelationData", m.correlation)
    \o PropertyIf(Given(m.response), "ResponseTopic", m.response)
    \o PropertyIf(Given(m.contentType), "ContentType", m.contentType)
    \o PropertyIf(m.utf8, "PayloadFormatIndicator", 1)
    \o PropertyIf(m.alias > 0, "TopicAlias", m.alias)
    \o PropertyIf(m.subId > 0, "SubscriptionIdentifier", m.subId)
    \o [i \in DOMAIN m.users |-> Property("UserProperty", m.users[i])]
    \o PropertyIf(m.delay > 0, "WillDelayInterval", m.delay)

ReadProperties(m, props) ==
    [m EXCEPT !.expire = ValueOf(props, "MessageExpiryInterval", Unlimited),
              !.correlation = ValueOf(props, "CorrelationData", Absent),
              !.response = ValueOf(props, "ResponseTopic", Absent),
              !.contentType = ValueOf(props, "ContentType", Absent),
              !.utf8 = ValueOf(props, "PayloadFormatIndicator", 0) # 0,
              !.users = [i \in DOMAIN UsersIn(props) |-> UsersIn(props)[i].val],
              !.delay = ValueOf(props, "WillDelayInterval", 0)]

\* Mutant: the topic counts also when an alias stands for it.
PublishLengthWithTopic(version, m) ==
    2 + m.topic.len + m.payload.len + (IF m.qos > 0 THEN 2 ELSE 0)
    + PropertiesLength(version, MessageProperties(m))

PublishLength(version, m) ==
    2 + (IF m.skipTopic THEN 0 ELSE m.topic.len) + m.payload.len + (IF m.qos > 0 THEN 2 ELSE 0)
    + PropertiesLength(version, MessageProperties(m))

\* Below MQTT 5 the message is written without what only properties can say.
PublishPacket(version, m, id) ==
    [Packet("PUBLISH", version, 0,
        <<Field("str", IF m.skipTopic THEN NoText ELSE m.topic)>>
        \o (IF m.qos > 0 THEN <<Field("u16", id)>> ELSE <<>>)
        \o PropertiesField(version, MessageProperties(m))
        \o <<Field("raw", m.payload)>>,
        PublishLength(version, m),
        [message |-> IF Mqtt5(version) THEN m ELSE [Message(m.topic, m.payload, m.qos) EXCEPT !.retain = m.retain],
         id |-> IF m.qos > 0 THEN id ELSE 0])
     EXCEPT !.lsb = 2 * m.qos + (IF m.retain THEN 1 ELSE 0)]

PublishLayout(version, qos) ==
    <<Item("topic", "str")>> \o ItemIf(qos > 0, "id", "u16")
    \o ItemIf(Mqtt5(version), "publish", "props")

\* parsePublishData; `known' is the topic of the alias, `given' whether the packet has one.
ReadPublish(packet, known) ==
    LET qos == (packet.lsb \div 2) % 4
        layout == PublishLayout(packet.version, qos)
        rest == SubSeq(packet.fields, Len(layout) + 1, Len(packet.fields))
        v == Values(packet.fields, layout, [id |-> 0, publish |-> <<>>])
        alias == ValueOf(v.publish, "TopicAlias", 0)
        topic == IF v.topic.len = 0 /\ alias = 1 THEN known ELSE v.topic
        payload == IF rest = <<>> THEN NoText ELSE rest[1].val
    IN  IF ~IsRead(packet.fields, layout) THEN Refused
        ELSE IF (qos > 0 /\ v.id = 0) \/ topic.len = 0 THEN Refused
        ELSE [message |-> ReadProperties([Message(topic, payload, qos)
                                            EXCEPT !.retain = packet.lsb % 2 = 1], v.publish),
              id |-> v.id, told |-> alias]

-----------------------------------------------------------------------------
(* CONNECT.                                                                  *)

GroupKey == Text("fmq_client_group_id", 19)
PrefixKey == Text("fmq_client_id_prefix", 20)

ConnectProperties(c) ==
    PropertyIf(c.expiry > 0, "SessionExpiryInterval", c.expiry)
    \o PropertyIf(c.inAliases > 0, "TopicAliasMaximum", c.inAliases)
    \o PropertyIf(Given(c.method), "AuthenticationMethod", c.method)
    \o PropertyIf(Given(c.data), "AuthenticationData", c.data)
    \o PropertyIf(Given(c.group), "UserProperty", [key |-> GroupKey, value |-> c.group])
    \o PropertyIf(Given(c.prefix), "UserProperty", [key |-> PrefixKey, value |-> c.prefix])

Magic(version) == IF version = "31" THEN Text("MQIsdp", 6) ELSE Text("MQTT", 4)
Level(version) == CASE version = "31" -> 3 [] version = "311" -> 4 [] version = "5" -> 5

WillLength(version, will) ==
    PropertiesLength(version, MessageProperties(will)) + will.topic.len + 2 + will.payload.len + 2
ConnectLength(c) ==
    c.client_id.len + 2 + Magic(c.version).len + 6
    + PropertiesLength(c.version, ConnectProperties(c))
    + (IF Given(c.will) THEN WillLength(c.version, c.will) ELSE 0)
    + (IF Given(c.user) THEN c.user.len + 2 ELSE 0)
    + (IF Given(c.pass) THEN c.pass.len + 2 ELSE 0)

\* The flag byte, and the top bit of the level, are kept apart.
ConnectFlags(c) ==
    [clean |-> c.clean, will |-> Given(c.will), user |-> Given(c.user), pass |-> Given(c.pass),
     qos |-> IF Given(c.will) THEN c.will.qos ELSE 0,
     retain |-> IF Given(c.will) THEN c.will.retain ELSE FALSE]

ConnectPacket(c) ==
    Packet("CONNECT", c.version, 0,
        <<Field("str", Magic(c.version)),
          Field("u8", [level |-> Level(c.version), bridge |-> c.bridgeBit /\ ~Mqtt5(c.version)]),
          Field("u8", ConnectFlags(c)), Field("u16", c.keepalive)>>
        \o PropertiesField(c.version, ConnectProperties(c))
        \o <<Field("str", c.client_id)>>
        \o (IF Given(c.will)
            THEN PropertiesField(c.version, MessageProperties(c.will))
                 \o <<Field("str", c.will.topic), Field("str", c.will.payload)>>
            ELSE <<>>)
        \o (IF Given(c.user) THEN <<Field("str", c.user)>> ELSE <<>>)
        \o (IF Given(c.pass) THEN <<Field("str", c.pass)>> ELSE <<>>),
        ConnectLength(c), [meant |-> TRUE])

ConnectHead == <<Item("magic", "str"), Item("level", "u8"), Item("flags", "u8"), Item("keepalive", "u16")>>
ConnectLayout(version, flags) ==
    ConnectHead
    \o ItemIf(Mqtt5(version), "connect", "props")
    \o <<Item("client_id", "str")>>
    \o ItemIf(flags.will /\ Mqtt5(version), "will", "props")
    \o ItemIf(flags.will, "will_topic", "str") \o ItemIf(flags.will, "will_payload", "bin")
    \o ItemIf(flags.user, "user", "str")
    \o ItemIf(flags.pass, "pass", "bin")

VersionOf(magic, level) ==
    CASE magic.of = "MQTT" /\ level = 4 -> "311"
      [] magic.of = "MQTT" /\ level = 5 -> "5"
      [] magic.of = "MQIsdp" /\ level = 3 -> "31"
      [] OTHER -> "none"

StartsWith(text, prefix) == text.of = prefix.of /\ prefix.len <= text.len
Least(a, b) == IF a < b THEN a ELSE b

\* parseConnectData at a broker with settings s, and what handleConnect refuses next.
ParseConnect(packet, s) ==
    LET head == Values(packet.fields, ConnectHead, <<>>)
        version == VersionOf(head.magic, head.level.level)
        flags == head.flags
        layout == ConnectLayout(version, flags)
        v == Values(packet.fields, layout,
                    [connect |-> <<>>, will |-> <<>>, will_topic |-> Absent, will_payload |-> Absent,
                     user |-> Absent, pass |-> Absent])
        user == IF v.user = NoText /\ s.emptyUserIsAnonymous THEN Absent ELSE v.user
        group == FirstUserProperty(v.connect, GroupKey)
        prefix == FirstUserProperty(v.connect, PrefixKey)
        method == ValueOf(v.connect, "AuthenticationMethod", NoText)
        data == ValueOf(v.connect, "AuthenticationData", NoText)
        retain == flags.retain /\ s.retainMode # "Downgrade"
        will == ReadProperties([Message(v.will_topic, v.will_payload, flags.qos) EXCEPT !.retain = retain],
                               v.will)
        hasWill == flags.will /\ ~(flags.retain /\ s.retainMode = "Drop") /\ v.will_topic.len > 0
    IN  IF \/ ~IsRead(packet.fields, ConnectHead) \/ version = "none"
        THEN Refused
        ELSE IF \/ ~IsRead(packet.fields, layout)
                \/ flags.qos > 2 \/ (~flags.will /\ (flags.retain \/ flags.qos > 0))
                \/ group.len > 24 \/ prefix.len > 12
                \/ Given(prefix) /\ (prefix.len = 0 \/ ~StartsWith(v.client_id, prefix))
                \/ method.len = 0 /\ data.len > 0
                \/ flags.will /\ flags.retain /\ s.retainMode = "DisconnectWithError"
                \/ v.user = NoText /\ ~s.emptyUserIsAnonymous
                \/ flags.pass /\ ~flags.user /\ ~Mqtt5(version)
                \/ hasWill /\ s.wills /\ flags.qos > s.maxQos /\ (Mqtt5(version) \/ s.disconnectsOnQos)
        THEN Refused
        ELSE [known |-> TRUE, version |-> version, bridge |-> head.level.bridge, clean |-> flags.clean,
              client_id |-> v.client_id, user |-> user, pass |-> v.pass, method |-> method, data |-> data,
              group |-> group, prefix |-> prefix,
              will |-> IF hasWill /\ s.wills /\ flags.qos <= s.maxQos THEN will ELSE Absent,
              keepalive |-> IF Mqtt5(version) /\ v.keepalive < 5 THEN 5 ELSE v.keepalive,
              expiry |-> IF Mqtt5(version)
                         THEN Least(ValueOf(v.connect, "SessionExpiryInterval", 0), s.expire)
                         ELSE s.expire,
              receiveMax |-> Least(ValueOf(v.connect, "ReceiveMaximum", s.pending), s.pending),
              maxPacket |-> Least(ValueOf(v.connect, "MaximumPacketSize", s.maxPacket), s.maxPacket),
              maxAliases |-> Least(ValueOf(v.connect, "TopicAliasMaximum", 0), s.outAliases)]

-----------------------------------------------------------------------------
(* CONNACK.                                                                  *)

\* ConnAck::ConnAck: below MQTT 5 there are five codes, and no reason is a server that is
\* not available.
ReasonCode ==
    [Success |-> 0, UnsupportedProtocolVersion |-> 132, ClientIdentifierNotValid |-> 133,
     BadUserNameOrPassword |-> 134, NotAuthorized |-> 135, ServerUnavailable |-> 136, Banned |-> 138]
ReturnCode ==
    [reason \in DOMAIN ReasonCode |->
        CASE reason = "Success" -> 0 [] reason = "UnsupportedProtocolVersion" -> 1
          [] reason = "ClientIdentifierNotValid" -> 2 [] reason = "BadUserNameOrPassword" -> 4
          [] reason = "NotAuthorized" -> 5 [] OTHER -> 3]

ConnAckPacket(version, reason, present, props) ==
    Packet("CONNACK", version, 0,
        <<Field("u8", present /\ reason = "Success"),
          Field("u8", IF Mqtt5(version) THEN ReasonCode[reason] ELSE ReturnCode[reason])>>
        \o PropertiesField(version, props),
        2 + PropertiesLength(version, props), [meant |-> TRUE])

RetainAvailable(s) == s.retainMode \in {"Enabled", "EnabledWithoutPersistence"}

\* Mutant: a keep-alive that was raised is not told.
StagedWithoutKeepAlive(c, s, assigned) ==
    <<Property("SessionExpiryInterval", c.expiry), Property("ReceiveMaximum", s.pending),
      Property("MaximumPacketSize", s.maxPacket), Property("TopicAliasMaximum", s.inAliases)>>
    \o PropertyIf(s.maxQos < 2, "MaximumQoS", s.maxQos)
    \o PropertyIf(~RetainAvailable(s), "RetainAvailable", 0)
    \o PropertyIf(Given(assigned), "AssignedClientIdentifier", assigned)

\* The part of handleConnect that stages the CONNACK.
StagedProperties(c, s, assigned) ==
    <<Property("SessionExpiryInterval", c.expiry), Property("ReceiveMaximum", s.pending)>>
    \o PropertyIf(s.maxQos < 2, "MaximumQoS", s.maxQos)
    \o <<Property("RetainAvailable", IF RetainAvailable(s) THEN 1 ELSE 0),
         Property("MaximumPacketSize", s.maxPacket)>>
    \o PropertyIf(Given(assigned), "AssignedClientIdentifier", assigned)
    \o <<Property("TopicAliasMaximum", s.inAliases), Property("WildcardSubscriptionAvailable", 1),
         Property("SubscriptionIdentifierAvailable", IF s.subIds THEN 1 ELSE 0),
         Property("SharedSubscriptionAvailable", 1), Property("ServerKeepAlive", c.keepalive)>>
    \o PropertyIf(c.method.len > 0, "AuthenticationMethod", c.method)

ConnAckLayout(version) ==
    <<Item("present", "u8"), Item("code", "u8")>> \o ItemIf(Mqtt5(version), "connack", "props")

\* parseConnAckData, and what handleConnAck makes of it for a connector c.
ParseConnAck(packet, c) ==
    LET layout == ConnAckLayout(packet.version)
        v == Values(packet.fields, layout, [connack |-> <<>>])
        told == ValueOf(v.connack, "ServerKeepAlive", 0)
        available == ValueOf(v.connack, "RetainAvailable", 1) = 1
    IN  IF ~IsRead(packet.fields, layout) THEN Refused
        ELSE IF v.code # 0 THEN Refused
        ELSE [known |-> TRUE, present |-> v.present,
              keepalive |-> IF told > 0 THEN told ELSE c.keepalive,
              receiveMax |-> Least(ValueOf(v.connack, "ReceiveMaximum", c.pending), c.pending),
              maxPacket |-> Least(ValueOf(v.connack, "MaximumPacketSize", c.maxPacket), c.maxPacket),
              maxQos |-> Least(ValueOf(v.connack, "MaximumQoS", 2), 2),
              maxAliases |-> Least(Least(ValueOf(v.connack, "TopicAliasMaximum", 0), c.maxOutAliases),
                                   c.outAliases),
              retains |-> available /\ c.remoteRetains,
              assigned |-> ValueOf(v.connack, "AssignedClientIdentifier", Absent),
              granted |-> <<>>]

-----------------------------------------------------------------------------
(* SUBSCRIBE and UNSUBSCRIBE, and their acknowledgements.                     *)

SumOf(lengths) == FoldSeq(LAMBDA n, sum : n + sum, 0, lengths)

\* The options of a subscription; below MQTT 5 they are only a QoS.
SubscriptionOptionsByte(version, sub) ==
    IF Mqtt5(version) THEN [sub EXCEPT !.topic = NoText]
    ELSE [topic |-> NoText, qos |-> sub.qos, noLocal |-> FALSE, asPublished |-> FALSE]

\* Two fields a topic.
SubscribePacket(version, id, subs) ==
    LET fields == [i \in 1..(2 * Len(subs)) |->
                    LET sub == subs[(i + 1) \div 2]
                    IN IF i % 2 = 1 THEN Field("str", sub.topic)
                       ELSE Field("u8", SubscriptionOptionsByte(version, sub))]
    IN  Packet("SUBSCRIBE", version, Lsb("SUBSCRIBE"),
            <<Field("u16", id)>> \o PropertiesField(version, <<>>) \o fields,
            SumOf([i \in DOMAIN subs |-> subs[i].topic.len + 3]) + 2 + PropertiesLength(version, <<>>),
            [meant |-> TRUE])

ListHead(version, in) == <<Item("id", "u16")>> \o ItemIf(Mqtt5(version), in, "props")
AfterHead(packet, in) ==
    SubSeq(packet.fields, Len(ListHead(packet.version, in)) + 1, Len(packet.fields))
\* Are the fields groups of these types?
AreGroups(fields, types) ==
    /\ Len(fields) > 0 /\ Len(fields) % Len(types) = 0
    /\ \A i \in DOMAIN fields :
        LET as == types[((i - 1) % Len(types)) + 1]
        IN  ReadsAs(as, fields[i].is, fields[i].val) /\ (as = "str" => fields[i].val.len > 0)

\* The parsing of handleSubscribe for a client c at a broker with settings s.
ParseSubscribe(packet, c, s) ==
    LET head == ListHead(packet.version, "subscribe")
        v == Values(packet.fields, head, [subscribe |-> <<>>])
        rest == AfterHead(packet, "subscribe")
        sub(i) == [rest[2 * i].val EXCEPT !.topic = rest[2 * i - 1].val,
                                          !.qos = Least(rest[2 * i].val.qos, s.maxQos),
                                          !.noLocal = c.bridge \/ rest[2 * i].val.noLocal,
                                          !.asPublished = c.bridge \/ rest[2 * i].val.asPublished]
        subs == [i \in 1..(Len(rest) \div 2) |-> sub(i)]
    IN  IF \/ ~IsRead(packet.fields, head) \/ ~AreGroups(rest, <<"str", "u8">>)
        THEN Refused
        ELSE IF \/ v.id = 0 \/ (ValueOf(v.subscribe, "SubscriptionIdentifier", 0) > 0 /\ ~s.subIds)
                \/ \E i \in DOMAIN subs : subs[i].topic.of = "$share" /\ subs[i].noLocal
        THEN Refused
        ELSE [id |-> v.id, subs |-> subs]

\* SubAck::SubAck: 128 stands for every refusal below MQTT 5.
SubAckPacket(version, id, codes) ==
    LET written == [i \in DOMAIN codes |-> IF ~Mqtt5(version) /\ codes[i] >= 128 THEN 128 ELSE codes[i]]
    IN  Packet("SUBACK", version, 0,
            <<Field("u16", id)>> \o PropertiesField(version, <<>>)
            \o [i \in DOMAIN written |-> Field("u8", written[i])],
            Len(codes) + 2 + PropertiesLength(version, <<>>), [id |-> id, codes |-> written])

ParseSubAck(packet) ==
    LET head == ListHead(packet.version, "suback")
        rest == AfterHead(packet, "suback")
    IN  IF ~IsRead(packet.fields, head) \/ (rest # <<>> /\ ~AreGroups(rest, <<"u8">>)) THEN Refused
        ELSE [id |-> packet.fields[1].val, codes |-> [i \in DOMAIN rest |-> rest[i].val]]

UnsubscribePacket(version, id, topics) ==
    Packet("UNSUBSCRIBE", version, Lsb("UNSUBSCRIBE"),
        <<Field("u16", id)>> \o PropertiesField(version, <<>>)
        \o [i \in DOMAIN topics |-> Field("str", topics[i])],
        SumOf([i \in DOMAIN topics |-> topics[i].len + 2]) + 2 + PropertiesLength(version, <<>>),
        [id |-> id, topics |-> topics])

ParseUnsubscribe(packet) ==
    LET head == ListHead(packet.version, "unsubscribe")
        rest == AfterHead(packet, "unsubscribe")
    IN  IF \/ ~IsRead(packet.fields, head) \/ ~AreGroups(rest, <<"str">>) \/ packet.fields[1].val = 0
        THEN Refused
        ELSE [id |-> packet.fields[1].val, topics |-> [i \in DOMAIN rest |-> rest[i].val]]

\* Below MQTT 5 an UNSUBACK is only the packet id.
UnsubAckPacket(version, id, count) ==
    Packet("UNSUBACK", version, 0,
        <<Field("u16", id)>> \o PropertiesField(version, <<>>)
        \o (IF Mqtt5(version) THEN [i \in 1..count |-> Field("u8", 0)] ELSE <<>>),
        2 + (IF Mqtt5(version) THEN count ELSE 0) + PropertiesLength(version, <<>>),
        [id |-> id])

-----------------------------------------------------------------------------
(* PUBACK, PUBREC, PUBREL and PUBCOMP; DISCONNECT; AUTH.                      *)

\* Only MQTT 5 has a reason, and it is left out when it is success.
PubResponsePacket(version, kind, id, reason) ==
    LET code == IF Mqtt5(version) THEN reason ELSE 0
    IN  Packet(kind, version, Lsb(kind),
            <<Field("u16", id)>> \o (IF code > 0 THEN <<Field("u8", code)>> ELSE <<>>),
            IF code > 0 THEN 3 ELSE 2, [id |-> id, reason |-> code])

\* Only PUBREC looks at the reason.
ReadPubResponse(packet) ==
    IF ~IsRead(packet.fields, <<Item("id", "u16")>>) THEN Refused
    ELSE IF packet.fields[1].val = 0 \/ (packet.kind = "PUBREL" /\ packet.lsb # 2) THEN Refused
    ELSE IF packet.kind # "PUBREC" \/ Len(packet.fields) = 1
    THEN [id |-> packet.fields[1].val, reason |-> 0]
    ELSE IF packet.fields[2].is # "u8" THEN Refused
    ELSE [id |-> packet.fields[1].val, reason |-> packet.fields[2].val]

DisconnectPacket(version, code) ==
    Packet("DISCONNECT", version, 0,
        (IF Mqtt5(version) THEN <<Field("u8", code)>> ELSE <<>>) \o PropertiesField(version, <<>>),
        IF Mqtt5(version) THEN 1 + BuilderLength(<<>>) ELSE 0,
        [reason |-> IF Mqtt5(version) THEN code ELSE 0])

\* Reason and properties may each be missing, from the end.
ReadDisconnect(packet) ==
    LET present == Least(Len(packet.fields), 2)
        layout == SubSeq(<<Item("code", "u8"), Item("disconnect", "props")>>, 1, present)
    IN  IF ~Mqtt5(packet.version) THEN [reason |-> 0]
        ELSE IF ~IsRead(packet.fields, layout) THEN Refused
        ELSE [reason |-> IF present = 0 THEN 0 ELSE packet.fields[1].val]

AuthPacket(code, method, data) ==
    LET props == PropertyIf(method.len > 0, "AuthenticationMethod", method)
                 \o PropertyIf(data.len > 0, "AuthenticationData", data)
    IN  Packet("AUTH", "5", 0, <<Field("u8", code), Field("props", props)>>,
            1 + BuilderLength(props), [reason |-> code, method |-> method, data |-> data])

ReadAuth(packet) ==
    LET present == Least(Len(packet.fields), 2)
        layout == <<Item("code", "u8")>> \o ItemIf(present = 2, "auth", "props")
        v == Values(packet.fields, layout, [auth |-> <<>>])
        method == ValueOf(v.auth, "AuthenticationMethod", NoText)
        data == ValueOf(v.auth, "AuthenticationData", NoText)
    IN  IF ~IsRead(packet.fields, layout) THEN Refused
        ELSE IF method.len = 0 /\ data.len > 0 THEN Refused
        ELSE [reason |-> v.code, method |-> method, data |-> data]

-----------------------------------------------------------------------------
(* The handshake.                                                            *)

PacketInit ==
    /\ pconf \in [near : Connectors, far : Brokers]
    /\ handshake = "CONNECT" /\ wire = ConnectPacket(pconf.near) /\ got = Unknown
    /\ far = Unknown /\ near = Unknown
    /\ topicOf = [end \in {"near", "far"} |-> NoText]

\* What an end makes of the packet on the wire.
IsNow(kind) == handshake = kind /\ wire.kind = kind
Refuse == handshake' = "refused" /\ wire' = NoPacket /\ UNCHANGED <<pconf, far, near, topicOf, got>>

WriteConnAck(c, reason, present, assigned) ==
    wire' = ConnAckPacket(c.version, reason, present, StagedProperties(c, pconf.far, assigned))

\* An id that MQTT 3 does not allow is refused in a CONNACK of its own.
BadClientId(c) ==
    c.client_id.len = 0 /\ ((~Mqtt5(c.version) /\ ~c.clean) \/ c.version = "31")

\* handleConnect, when what comes of the login is `reason' and the session was `present'.
ReadConnect ==
    /\ IsNow("CONNECT")
    /\ LET c == ParseConnect(wire, pconf.far)
       IN  IF c = Refused \/ ~IsTaken(wire, pconf.far.maxPacket) THEN Refuse
           ELSE IF BadClientId(c)
           THEN /\ wire' = ConnAckPacket(c.version, "ClientIdentifierNotValid", FALSE, <<>>)
                /\ handshake' = "CONNACK" /\ UNCHANGED <<pconf, far, near, topicOf, got>>
           ELSE \E reason \in DOMAIN ReasonCode, present \in BOOLEAN :
                LET assigned == IF c.client_id.len = 0 THEN Text("assigned", 23) ELSE Absent
                    resumed == present /\ ~c.clean /\ c.version # "31"
                IN  /\ reason = "Success" => far' = c @@ [assigned |-> assigned, present |-> resumed, subs |-> <<>>]
                    /\ reason # "Success" => far' = far
                    /\ WriteConnAck(c, reason, resumed, assigned)
                    /\ handshake' = "CONNACK" /\ UNCHANGED <<pconf, near, topicOf, got>>

\* A topic of a bridge, as it is subscribed to at the other end.
Subscription(topic, maxQos) ==
    [topic |-> topic.topic, qos |-> Least(maxQos, topic.qos), noLocal |-> topic.topic.of # "$share",
     asPublished |-> TRUE]

ReadConnAck ==
    /\ IsNow("CONNACK")
    /\ LET a == ParseConnAck(wire, pconf.near)
           subs == [i \in DOMAIN pconf.near.subs |-> Subscription(pconf.near.subs[i], a.maxQos)]
       IN  IF a = Refused \/ ~IsTaken(wire, pconf.near.maxPacket)
           THEN handshake' = "rejected" /\ wire' = NoPacket /\ UNCHANGED <<pconf, far, near, topicOf, got>>
           ELSE /\ near' = a
                /\ IF subs = <<>>
                   THEN handshake' = "up" /\ wire' = NoPacket
                   ELSE handshake' = "SUBSCRIBE" /\ wire' = SubscribePacket(wire.version, 1, subs)
                /\ UNCHANGED <<pconf, far, topicOf, got>>

\* Any of the subscriptions may be denied.
ReadSubscribe ==
    /\ IsNow("SUBSCRIBE")
    /\ LET r == ParseSubscribe(wire, far, pconf.far)
       IN  IF r = Refused \/ ~IsTaken(wire, pconf.far.maxPacket) THEN Refuse
           ELSE \E denied \in SUBSET DOMAIN r.subs :
                LET code(i) == IF i \notin denied \/ wire.version = "31" THEN r.subs[i].qos
                               ELSE ReasonCode["NotAuthorized"]
                IN  /\ far' = [far EXCEPT !.subs = [i \in DOMAIN r.subs |-> [r.subs[i] EXCEPT !.topic =
                                    IF i \in denied THEN NoText ELSE r.subs[i].topic]]]
                    /\ wire' = SubAckPacket(wire.version, r.id, [i \in DOMAIN r.subs |-> code(i)])
                    /\ handshake' = "SUBACK" /\ UNCHANGED <<pconf, near, topicOf, got>>

ReadSubAck ==
    /\ IsNow("SUBACK")
    /\ LET r == ParseSubAck(wire)
       IN  IF r = Refused \/ ~IsTaken(wire, pconf.near.maxPacket) THEN Refuse
           ELSE /\ near' = [near EXCEPT !.granted = r.codes]
                /\ handshake' = "up" /\ wire' = NoPacket
                /\ UNCHANGED <<pconf, far, topicOf, got>>

-----------------------------------------------------------------------------
(* After it.                                                                 *)

Other(end) == IF end = "near" THEN "far" ELSE "near"
Knows(end) == IF end = "near" THEN near ELSE far
MaxIncoming(end) == IF end = "near" THEN pconf.near.maxPacket ELSE pconf.far.maxPacket
Version == pconf.near.version

\* One packet at a time, from one end to the other; no end writes more than it may.
Write(end, packet) ==
    /\ handshake = "up" /\ wire = NoPacket /\ got = Unknown
    /\ WholeSize(packet) <= Knows(end).maxPacket
    /\ wire' = packet @@ [to |-> Other(end)]
    /\ UNCHANGED <<pconf, handshake, got, far, near, topicOf>>

\* A publish gets an alias when the other end takes any, and no topic once that knows it.
\* The largest QoS that a CONNACK tells of is not looked at.
WritePublish(end) ==
    \E m \in Messages, id \in 1..MaxPacketId, aliased \in BOOLEAN :
        LET known == topicOf[Other(end)] = m.topic
            k == IF aliased /\ Mqtt5(Version) /\ Knows(end).maxAliases > 0
                 THEN [m EXCEPT !.alias = 1, !.skipTopic = known] ELSE m
            retain == m.retain /\ (end = "near" => near.retains)
        IN  Write(end, PublishPacket(Version, [k EXCEPT !.retain = retain], id))

WriteAnswer(end) ==
    \/ \E kind \in {"PUBACK", "PUBREC", "PUBREL", "PUBCOMP"}, id \in 1..MaxPacketId, reason \in {0, 146} :
        Write(end, PubResponsePacket(Version, kind, id, reason))
    \/ \E reason \in {0, 4} : Write(end, DisconnectPacket(Version, reason))
    \/ \E method \in {NoText, pconf.near.method}, data \in {NoText, Text("data", 9)} :
        /\ Mqtt5(Version) /\ Given(method) /\ (data.len > 0 => method.len > 0)
        /\ Write(end, AuthPacket(24, method, data))

WriteUnsubscribe ==
    \E id \in 1..MaxPacketId :
        \/ Write("near", UnsubscribePacket(Version, id,
               [i \in DOMAIN pconf.near.subs |-> pconf.near.subs[i].topic]))
           /\ pconf.near.subs # <<>>
        \/ \E count \in 1..2 : Write("far", UnsubAckPacket(Version, id, count))

\* The start of handlePublish; a client of MQTT 3 may be told that all is well.
HandlePublish(packet) ==
    LET r == ReadPublish(packet, topicOf[packet.to])
        s == pconf.far
    IN  IF packet.to = "near" \/ r = Refused THEN r
        ELSE IF \/ r.message.retain /\ s.retainMode = "DisconnectWithError"
                \/ r.message.qos > s.maxQos /\ (Mqtt5(packet.version) \/ s.disconnectsOnQos)
        THEN Refused
        ELSE r

\* What the switch of handle() makes of a packet; nobody reads an UNSUBACK.
Read(packet) ==
    CASE packet.kind = "PUBLISH" -> HandlePublish(packet)
      [] packet.kind \in {"PUBACK", "PUBREC", "PUBREL", "PUBCOMP"} -> ReadPubResponse(packet)
      [] packet.kind = "DISCONNECT" -> ReadDisconnect(packet)
      [] packet.kind = "AUTH" -> ReadAuth(packet)
      [] packet.kind = "UNSUBSCRIBE" -> ParseUnsubscribe(packet)
      [] packet.kind = "UNSUBACK" -> [id |-> packet.fields[1].val]

ReadPacket ==
    /\ handshake = "up" /\ wire # NoPacket /\ got = Unknown
    /\ got' = IF IsTaken(wire, MaxIncoming(wire.to)) THEN Read(wire) ELSE Refused
    /\ topicOf' = IF wire.kind = "PUBLISH" /\ got' # Refused
                  THEN [topicOf EXCEPT ![wire.to] = IF got'.told = 1 THEN got'.message.topic ELSE @]
                  ELSE topicOf
    /\ UNCHANGED <<pconf, handshake, wire, far, near>>

\* The next packet; what was made of the last one is history.
GoOn ==
    /\ got # Unknown /\ got # Refused
    /\ got' = Unknown /\ wire' = NoPacket
    /\ UNCHANGED <<pconf, handshake, far, near, topicOf>>

PacketNext ==
    \/ ReadConnect \/ ReadConnAck \/ ReadSubscribe \/ ReadSubAck
    \/ \E end \in {"near", "far"} : WritePublish(end) \/ WriteAnswer(end)
    \/ WriteUnsubscribe
    \/ ReadPacket \/ GoOn

-----------------------------------------------------------------------------
\* mqttpacket.cpp:239 and :392 assert(pos == bites.size()): the length that a constructor
\* computes beforehand is that of what it writes, whatever is optional.
LengthIsExact == wire.length = Size(wire.fields)

\* What a parser makes of a packet, also of one with fields missing.
Parsed(packet) ==
    CASE packet.kind = "CONNECT" -> ParseConnect(packet, pconf.far)
      [] packet.kind = "CONNACK" -> ParseConnAck(packet, pconf.near)
      [] packet.kind = "SUBSCRIBE" -> ParseSubscribe(packet, far, pconf.far)
      [] packet.kind = "SUBACK" -> ParseSubAck(packet)
      [] OTHER -> Read(packet)

\* Packets that MQTT allows to end early.
MayEndAfter(packet, n) ==
    \/ packet.kind = "PUBLISH" /\ n = Len(packet.fields) - 1
    \/ packet.kind = "DISCONNECT"
    \/ packet.kind \in {"AUTH", "PUBACK", "PUBREC", "PUBREL", "PUBCOMP"} /\ n >= 1
    \/ packet.kind = "SUBACK" /\ n >= Len(ListHead(packet.version, "suback"))
    \/ packet.kind \in {"SUBSCRIBE", "UNSUBSCRIBE"} /\ n > Len(ListHead(packet.version, "subscribe"))
       /\ (packet.kind = "SUBSCRIBE" => (n - Len(ListHead(packet.version, "subscribe"))) % 2 = 0)

\* A packet whose fields go on after its end is refused, wherever it ends: no parser goes on
\* with what is not there (readBytes, withinBound).
CutIsRefused ==
    wire.kind \notin {"none", "UNSUBACK"} =>
        \A n \in 0..(Len(wire.fields) - 1) :
            LET cut == [wire EXCEPT !.fields = SubSeq(wire.fields, 1, n)]
                within == [cut EXCEPT !.fields = Append(@, Field("part", NoText))]
            IN  /\ Parsed(cut) = Refused \/ MayEndAfter(wire, n)
                /\ FieldSize(wire.fields[n + 1]) > 1 /\ wire.fields[n + 1].is # "raw"
                   => Parsed(within) = Refused

\* What only properties can say is not said below MQTT 5.
Sayable(version, m) ==
    IF Mqtt5(version) THEN m ELSE [Message(m.topic, m.payload, m.qos) EXCEPT !.retain = m.retain]

\* A CONNECT is read as it was meant.
ConnectIsKept(c, s) ==
    /\ \A name \in {"version", "clean", "client_id", "pass"} : far[name] = c[name]
    /\ far.user = (IF c.user = NoText THEN Absent ELSE c.user)
    /\ far.bridge = (c.bridgeBit /\ ~Mqtt5(c.version))
    /\ IF Mqtt5(c.version)
       THEN \A name \in {"group", "prefix"} : far[name] = c[name]
       ELSE far.group = Absent /\ far.prefix = Absent
    /\ Given(far.will) => far.will = [Sayable(c.version, c.will) EXCEPT
                                        !.retain = @ /\ s.retainMode # "Downgrade"]
    /\ Given(c.will) /\ s.wills /\ c.will.qos <= s.maxQos /\ s.retainMode # "Drop" => Given(far.will)

\* A broker refuses the handshake of this code only for what its settings forbid, or shares
\* in a bridge that is marked as one: it then takes "no local" as said, and a share as an error.
MayRefuse(c, s) ==
    \/ c.bridgeBit /\ ~Mqtt5(c.version) /\ \E i \in DOMAIN c.subs : c.subs[i].topic.of = "$share"
    \/ c.user = NoText /\ ~s.emptyUserIsAnonymous
    \/ Given(c.will) /\ ((c.will.retain /\ s.retainMode = "DisconnectWithError")
                         \/ c.will.qos > s.maxQos)

\* After the handshake a packet is refused only for a limit that MQTT 3, or the CONNECT of a
\* bridge, has no words for, and for the QoS of a publish, which no bridge looks at.
MayBeTooMuch(packet) ==
    \/ (packet.to = "near" \/ ~Mqtt5(packet.version)) /\ WholeSize(packet) > MaxIncoming(packet.to)
    \/ packet.kind = "PUBLISH" /\ packet.to = "far"
       /\ \/ packet.means.message.qos > pconf.far.maxQos
          \/ ~Mqtt5(packet.version) /\ packet.means.message.retain

\* Each end reads what the other one meant.
MeaningIsKept ==
    LET c == pconf.near IN
    /\ handshake = "refused" => MayRefuse(c, pconf.far)
    /\ far.known => ConnectIsKept(c, pconf.far)
    /\ near.known /\ far.known =>
        /\ near.present = far.present /\ near.assigned = (IF Mqtt5(c.version) THEN far.assigned ELSE Absent)
        /\ \A i \in DOMAIN far.subs :
            far.subs[i].topic # NoText =>
                /\ far.subs[i].topic = c.subs[i].topic
                /\ far.subs[i].noLocal = (IF Mqtt5(c.version) THEN c.subs[i].topic.of # "$share" ELSE c.bridgeBit)
                /\ near.granted # <<>> => near.granted[i] = far.subs[i].qos
    /\ got = Refused => MayBeTooMuch(wire)
    /\ got \notin {Unknown, Refused} =>
        IF wire.kind = "PUBLISH"
        THEN /\ got.message = [Sayable(c.version, wire.means.message) EXCEPT
                                !.alias = 0, !.skipTopic = FALSE, !.subId = 0]
             /\ got.id = wire.means.id
        ELSE wire.kind \in {"PUBREC", "DISCONNECT", "AUTH", "UNSUBSCRIBE", "UNSUBACK"} => got = wire.means

\* Neither end will write more than the other one takes, and both count on the same pings.
LimitsAgree ==
    LET c == pconf.near
        s == pconf.far
    IN  near.known /\ far.known =>
        /\ near.keepalive = far.keepalive
        /\ near.maxAliases <= s.inAliases /\ far.maxAliases <= c.inAliases
        /\ Mqtt5(c.version) =>
            /\ near.maxPacket <= s.maxPacket /\ near.receiveMax <= s.pending
            /\ near.retains => RetainAvailable(s)
            /\ near.maxQos <= s.maxQos /\ \A i \in DOMAIN far.subs : far.subs[i].qos = Least(c.subs[i].qos, near.maxQos)
=============================================================================
