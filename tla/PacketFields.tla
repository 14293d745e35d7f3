---------------------------- MODULE PacketFields ----------------------------
(* What MQTT packets are made of (mqttpacket.cpp:2587-2837,                    *)
(* mqtt5properties.cpp, variablebyteint.cpp, packetdatatypes.cpp).  A packet   *)
(* is a sequence of fields; a text is where it comes from and its length.      *)
EXTENDS Integers, Sequences, FiniteSets, SequencesExt, TLC

CONSTANTS
    MaxStringLength,    \* max_string_length of the reader
    MaxUserProperties   \* 51: how many user properties a packet may have

ASSUME FieldLimitsAssumption == MaxStringLength \in 1..65535 /\ MaxUserProperties \in Nat

Text(of, len) == [of |-> of, len |-> len]
NoText == Text("", 0)
Absent == Text("absent", 0)
Given(x) == x # Absent

Field(is, val) == [is |-> is, val |-> val]

\* A variable byte integer takes one byte for every seven bits.
VarLen(n) == IF n < 128 THEN 1 ELSE IF n < 16384 THEN 2 ELSE IF n < 2097152 THEN 3 ELSE 4

-----------------------------------------------------------------------------
(* MQTT 5 properties.                                                        *)

\* How Mqtt5PropertyBuilder writes each property.
BuiltAs ==
    [SessionExpiryInterval |-> "u32", ReceiveMaximum |-> "u16", MaximumQoS |-> "u8",
     RetainAvailable |-> "u8", MaximumPacketSize |-> "u32", AssignedClientIdentifier |-> "str",
     TopicAliasMaximum |-> "u16", WildcardSubscriptionAvailable |-> "u8",
     SubscriptionIdentifierAvailable |-> "u8", SharedSubscriptionAvailable |-> "u8",
     ServerKeepAlive |-> "u16", AuthenticationMethod |-> "str", AuthenticationData |-> "str",
     UserProperty |-> "pair", WillDelayInterval |-> "u32", PayloadFormatIndicator |-> "u8",
     MessageExpiryInterval |-> "u32", ContentType |-> "str", ResponseTopic |-> "str",
     CorrelationData |-> "str", TopicAlias |-> "u16", SubscriptionIdentifier |-> "var"]

Property(id, val) == [id |-> id, is |-> BuiltAs[id], val |-> val]
\* A property that is only written when there is something to say.
PropertyIf(said, id, val) == IF said THEN <<Property(id, val)>> ELSE <<>>

\* Bytes of a value; those of a list of properties are in PropertiesSize.
SizeOf(is, val) ==
    CASE is = "u8" -> 1
      [] is = "u16" -> 2
      [] is = "u32" -> 4
      [] is = "var" -> VarLen(val)
      [] is = "str" -> 2 + val.len
      [] is = "raw" -> val.len
      [] is = "pair" -> 4 + val.key.len + val.value.len

PropertiesSize(props) ==
    FoldSeq(LAMBDA p, sum : sum + 1 + SizeOf(p.is, p.val), 0, props)

FieldSize(field) ==
    IF field.is = "props" THEN VarLen(PropertiesSize(field.val)) + PropertiesSize(field.val)
    ELSE SizeOf(field.is, field.val)

Size(fields) == FoldSeq(LAMBDA f, sum : sum + FieldSize(f), 0, fields)

\* Mqtt5PropertyBuilder::getLength, or the one byte of a builder that is absent.
BuilderLength(props) ==
    IF props = <<>> THEN 1 ELSE VarLen(PropertiesSize(props)) + PropertiesSize(props)

-----------------------------------------------------------------------------
(* The switches of the parsers over the properties they know.                *)

\* How a parser reads a property; "bin" is a string of any length.
ReadAs ==
    [id \in {"AuthenticationData"} |-> "bin"]
    @@ [id \in {"SessionExpiryInterval", "MaximumPacketSize", "WillDelayInterval",
                "MessageExpiryInterval"} |-> "u32"]
    @@ [id \in {"ReceiveMaximum", "TopicAliasMaximum", "ServerKeepAlive", "TopicAlias"} |-> "u16"]
    @@ [id \in {"RequestResponseInformation", "RequestProblemInformation", "MaximumQoS",
                "RetainAvailable", "WildcardSubscriptionAvailable", "PayloadFormatIndicator",
                "SubscriptionIdentifierAvailable", "SharedSubscriptionAvailable"} |-> "u8"]
    @@ [id \in {"AssignedClientIdentifier", "AuthenticationMethod", "ReasonString", "ContentType",
                "ResponseTopic", "CorrelationData", "ResponseInformation", "ServerReference"} |-> "str"]
    @@ [id \in {"UserProperty"} |-> "pair"]
    @@ [id \in {"SubscriptionIdentifier"} |-> "var"]

Auths == {"AuthenticationMethod", "AuthenticationData"}
Said == {"PayloadFormatIndicator", "ContentType", "ResponseTopic", "MessageExpiryInterval",
         "CorrelationData", "UserProperty"}

KnownIn ==
    [connect |-> Auths \union {"SessionExpiryInterval", "ReceiveMaximum", "MaximumPacketSize",
                 "TopicAliasMaximum", "RequestResponseInformation", "RequestProblemInformation",
                 "UserProperty"},
     will |-> Said \union {"WillDelayInterval"},
     connack |-> Auths \union {"SessionExpiryInterval", "ReceiveMaximum", "MaximumQoS",
                 "RetainAvailable", "MaximumPacketSize", "AssignedClientIdentifier",
                 "TopicAliasMaximum", "ReasonString", "UserProperty", "ServerKeepAlive",
                 "WildcardSubscriptionAvailable", "SubscriptionIdentifierAvailable",
                 "SharedSubscriptionAvailable", "ResponseInformation", "ServerReference"},
     publish |-> Said \union {"TopicAlias", "SubscriptionIdentifier"},
     auth |-> Auths \union {"ReasonString", "UserProperty"},
     disconnect |-> {"SessionExpiryInterval", "ReasonString", "ServerReference", "UserProperty"},
     subscribe |-> {"SubscriptionIdentifier", "UserProperty"},
     unsubscribe |-> {"UserProperty"},
     suback |-> {"ReasonString", "UserProperty"}]

\* Fits the bytes of a value what the parser reads there?
ReadsAs(as, is, val) ==
    /\ is = (IF as = "bin" THEN "str" ELSE as)
    /\ as = "str" => val.len <= MaxStringLength
    /\ as = "pair" => val.key.len <= MaxStringLength /\ val.value.len <= MaxStringLength

\* Values a parser refuses.
RefusedValue(in, id, val) ==
    \/ id \in {"RequestResponseInformation", "RequestProblemInformation", "RetainAvailable",
               "SharedSubscriptionAvailable"} /\ val > 1
    \/ id = "MaximumQoS" /\ val > 2
    \/ id \in {"ReceiveMaximum", "MaximumPacketSize", "TopicAlias", "SubscriptionIdentifier"}
       /\ ~(in = "publish" /\ id = "SubscriptionIdentifier") /\ val = 0
    \/ id = "ResponseTopic" /\ val.len = 0

UsersIn(props) == SelectSeq(props, LAMBDA p : p.id = "UserProperty")

PropertiesAreRead(in, props) ==
    /\ \A i \in DOMAIN props :
        LET p == props[i]
        IN  /\ p.id \in KnownIn[in]
            /\ ReadsAs(ReadAs[p.id], p.is, p.val)
            /\ ~RefusedValue(in, p.id, p.val)
            /\ p.id # "UserProperty" => \A j \in 1..(i - 1) : props[j].id # p.id
    /\ in # "connack" => Len(UsersIn(props)) <= MaxUserProperties

ValueOf(props, id, otherwise) ==
    LET of == {i \in DOMAIN props : props[i].id = id}
    IN  IF of = {} THEN otherwise ELSE props[CHOOSE i \in of : TRUE].val

\* Publish::getFirstUserProperty
FirstUserProperty(props, key) ==
    LET of == SelectSeq(UsersIn(props), LAMBDA p : p.val.key = key)
    IN  IF of = <<>> THEN Absent ELSE of[1].val.value

-----------------------------------------------------------------------------
(* Reading a packet.  A layout lists the fields a parser reads, by name; that  *)
(* of properties is the packet they are in.                                  *)

Item(name, as) == [name |-> name, as |-> as]
ItemIf(said, name, as) == IF said THEN <<Item(name, as)>> ELSE <<>>

IsRead(fields, layout) ==
    /\ Len(fields) >= Len(layout)
    /\ \A i \in DOMAIN layout :
        IF layout[i].as = "props"
        THEN fields[i].is = "props" /\ PropertiesAreRead(layout[i].name, fields[i].val)
        ELSE ReadsAs(layout[i].as, fields[i].is, fields[i].val)

\* The values of what was read, and `otherwise' for a name that is not in the layout.
Values(fields, layout, otherwise) ==
    [name \in {layout[i].name : i \in DOMAIN layout} |->
        fields[CHOOSE i \in DOMAIN layout : layout[i].name = name].val] @@ otherwise
=============================================================================
