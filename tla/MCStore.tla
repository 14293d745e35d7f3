------------------------------- MODULE MCStore -------------------------------
(* The parts of the subscription store that share no state, the queue of a     *)
(* session, the authorization of a thread and the packets between a bridge and a  *)
(* broker, each on its own: a behaviour explores the part it starts with.      *)
EXTENDS SubscriptionTree, SharedSubscribers, RetainedMessages, RetainedDelivery,
        QoSPublishQueue, Authorization, PacketLayout

VARIABLE part

\* Filters that share their first level, one that ends in #, one that starts in +.
MCFilters == {<<"a", "b">>, <<"c", "#">>, <<"+", "b">>}
MCTopics == {<<"a", "b">>, <<"c", "b">>, <<"c">>, <<"b">>, <<"$SYS", "b">>}

MCRetTopics == {<<"a">>, <<"a", "b">>, <<"c">>}
MCRetConfigs ==
    {[threads |-> {"t1"}, mayExpire |-> FALSE, deferTimeout |-> TRUE, limit |-> 9, depth |-> 0],
     [threads |-> {"t1", "t2"}, mayExpire |-> FALSE, deferTimeout |-> FALSE, limit |-> 1,
      depth |-> 0],
     [threads |-> {"t1"}, mayExpire |-> TRUE, deferTimeout |-> FALSE, limit |-> 9, depth |-> 0]}

IdSymmetry == Permutations(Ids)
MCFootprints == {1, 3}

MCKnownTopics == {<<"a">>, <<"a", "b">>, <<"a", "c">>, <<"d", "b">>}
MCSubFilters == {<<"#">>, <<"+", "b">>, <<"a", "#">>}

\* Two lines that overlap in every way, for "rules"; for "auth" files that become
\* invalid, empty and unreadable.
MCAclFilters == {<<"a">>, <<"#">>, <<"a", "#">>, <<"+", "b">>, <<"%u", "b">>, <<"%c">>, <<"a", "%u">>}
MCAclLines ==
    {UserLine("u"), InvalidLine, TopicLine(<<"a">>, "Deny"), PatternLine(<<"+", "b">>, "Deny")}
    \union {TopicLine(f, "ReadWrite") : f \in MCAclFilters}
    \union {PatternLine(f, "Read") : f \in MCAclFilters}
MCAclEdits == {<<>>, <<UserLine("u"), TopicLine(<<"a">>, "Read")>>, <<InvalidLine>>}
MCAclContents == MCAclEdits \union [1..2 -> MCAclLines]
MCPasswdContents ==
    {<<PasswdLine("u", "h"), PasswdLine("u", "g")>>, <<[word |-> "nonsense"], PasswdLine("v", "g")>>}
MCAclTopics == {<<"a">>, <<"a", "b">>, <<"u", "b">>, <<"c">>, <<"a", "u">>}

\* Bridges that differ in what is optional in their CONNECT, at the limits of what
\* FlashMQ takes, in every version; a CONNECT of 127 bytes and more.
BaseConnector ==
    [version |-> "5", client_id |-> Text("b", 20), clean |-> TRUE, keepalive |-> 60, expiry |-> 0,
     inAliases |-> 0, outAliases |-> 0, bridgeBit |-> TRUE, group |-> Absent, prefix |-> Text("b", 9),
     user |-> Absent, pass |-> Absent, method |-> Absent, data |-> Absent, will |-> Absent,
     subs |-> <<[topic |-> Text("t", 1), qos |-> 2]>>, remoteRetains |-> TRUE, maxPacket |-> 400,
     pending |-> 10, maxOutAliases |-> 5]
BaseWill ==
    [Message(Text("t", 3), Text("p", 5), 1) EXCEPT
        !.delay = 7, !.retain = TRUE, !.correlation = Text("x", 0),
        !.users = <<[key |-> Text("k", 1), value |-> Text("v", 2)]>>]
MCConnectors ==
    LET anyVersion == {
            [BaseConnector EXCEPT !.expiry = 9, !.clean = FALSE, !.keepalive = 3],
            [BaseConnector EXCEPT !.inAliases = 3, !.outAliases = 9],
            [BaseConnector EXCEPT !.group = Text("g", 24),
                !.subs = <<[topic |-> Text("$share", 9), qos |-> 1], [topic |-> Text("t", 1), qos |-> 0]>>],
            [BaseConnector EXCEPT !.user = Text("u", 0), !.bridgeBit = FALSE],
            [BaseConnector EXCEPT !.user = Text("u", 3), !.pass = Text("s", 30), !.subs = <<>>],
            [BaseConnector EXCEPT !.user = NoText, !.will = BaseWill, !.prefix = Absent, !.maxPacket = 250],
            [BaseConnector EXCEPT !.keepalive = 0, !.client_id = NoText, !.prefix = Absent,
                !.will = [BaseWill EXCEPT !.qos = 2, !.retain = FALSE, !.response = Text("r", 1),
                                          !.contentType = Text("t", 2)]]}
    IN  {[c EXCEPT !.version = v] : c \in anyVersion, v \in {"5", "311", "31"}}
        \union {BaseConnector, [BaseConnector EXCEPT !.method = Text("m", 4), !.data = Text("data", 3)]}
BaseBroker ==
    [maxQos |-> 2, retainMode |-> "Enabled", wills |-> TRUE, maxPacket |-> 400, pending |-> 10,
     inAliases |-> 4, outAliases |-> 2, expire |-> 100, subIds |-> TRUE,
     emptyUserIsAnonymous |-> FALSE, disconnectsOnQos |-> FALSE]
MCBrokers ==
    {BaseBroker,
     [BaseBroker EXCEPT !.maxQos = 1, !.retainMode = "Downgrade", !.maxPacket = 230, !.pending = 3],
     [BaseBroker EXCEPT !.retainMode = "Drop", !.inAliases = 0, !.expire = 5,
                        !.emptyUserIsAnonymous = TRUE],
     [BaseBroker EXCEPT !.retainMode = "DisconnectWithError", !.wills = FALSE, !.subIds = FALSE,
                        !.disconnectsOnQos = TRUE]}
\* Properties that take 127 bytes and 128, whose length is one and two bytes.
MCMessages ==
    {Message(Text("t", 1), Text("p", 0), 0),
     [Message(Text("t", 1), Text("p", 100), 1) EXCEPT !.retain = TRUE, !.contentType = Text("c", 124)],
     [Message(Text("t", 2), Text("p", 200), 2) EXCEPT
        !.contentType = Text("c", 125), !.response = Text("t", 4), !.expire = 0, !.utf8 = TRUE,
        !.users = <<[key |-> Text("t", 1), value |-> NoText],
                    [key |-> Text("t", 1), value |-> Text("t", 2)]>>,
        !.correlation = Text("x", 0)]}

MCInit ==
    /\ part \in {"tree", "shared", "retained", "delivery", "queue", "auth", "rules", "packets"}
    /\ SubInit /\ Init
    /\ ShareInit /\ (part # "shared" => roundRobinCounter = 0)
    /\ RetInit /\ (part # "retained" => rconf.deferTimeout)
    /\ DelInit /\ (part # "delivery" => withMessage = {})
    /\ AuthInit
    /\ part # "rules" => aclFile.lines \in MCAclEdits
    /\ part \notin {"auth", "rules"} => aclFile.lines = <<>>
    /\ part # "auth" => ~pluginLoaded /\ passwdFile.lines[1].word = "entry"
    /\ PacketInit /\ (part # "packets" => pconf = [near |-> BaseConnector, far |-> BaseBroker])

MCNext ==
    /\ UNCHANGED part
    /\ \/ /\ part = "tree" /\ SubNext
          /\ UNCHANGED <<shareVars, retVars, delVars, vars, authVars, packetVars>>
       \/ /\ part = "shared" /\ ShareNext
          /\ UNCHANGED <<subVars, retVars, delVars, vars, authVars, packetVars>>
       \/ /\ part = "retained" /\ RetNext
          /\ UNCHANGED <<subVars, shareVars, delVars, vars, authVars, packetVars>>
       \/ /\ part = "delivery" /\ DelNext
          /\ UNCHANGED <<subVars, shareVars, retVars, vars, authVars, packetVars>>
       \/ /\ part = "queue" /\ Next
          /\ UNCHANGED <<subVars, shareVars, retVars, delVars, authVars, packetVars>>
       \/ /\ part = "auth" \/ (part = "rules" /\ UNCHANGED authNow)
          /\ AuthNext
          /\ UNCHANGED <<subVars, shareVars, retVars, delVars, vars, packetVars>>
       \/ /\ part = "packets" /\ PacketNext
          /\ UNCHANGED <<subVars, shareVars, retVars, delVars, vars, authVars>>

MCSpec ==
    MCInit /\ [][MCNext]_<<part, subVars, shareVars, retVars, delVars, vars, authVars, packetVars>>

-----------------------------------------------------------------------------
Entry(o) == [id |-> packetId[o], footprint |-> footprint[o], expires |-> expires[o]]

\* The publishes that a walk along next reaches from o, in so many steps.
RECURSIVE WalkAlong(_, _)
WalkAlong(o, steps) ==
    IF o = 0 \/ steps = 0
    THEN <<>>
    ELSE <<Entry(o)>> \o WalkAlong(Lock(next[o]), steps - 1)

AsSequence == INSTANCE PublishSeq WITH
    Entries <- [id : Ids, footprint : Footprints, expires : Expiries],
    publishes <- WalkAlong(tail, MaxObjects),
    bytes <- qosQueueBytes,
    time <- now

(* The walk along the list and the byte counter are those of a sequence of   *)
(* publishes that are added at its end and removed anywhere,                  *)
(* and none that expired survives a clean-up                                *)
(* (qospacketqueue.cpp:76, 158, 212).                                        *)
ImplementsSequence == AsSequence!Spec /\ NothingExpiredAfterClear

\* What is retained is found in the tree, within the limit and counted, and a new
\* subscriber gets each message that was there once.
RetainedIsSound == RetainedAreSound /\ GivenOnce

\* Who may log in and do what is as the files say that were loaded last, and left to the
\* plugin only when that is ready. The other parts leave this state as it was.
AccessIsSound == part \in {"auth", "rules"} => AuthorizationIsSound

\* A packet is as long as was computed beforehand, says what it was meant to say, and is
\* refused when it ends too early.
PacketsAreRead == part = "packets" => LengthIsExact /\ CutIsRefused /\ MeaningIsKept
\* After the handshake neither end writes more than the other one takes.
HandshakeAgrees == part = "packets" => LimitsAgree
=============================================================================
