---------------------------- MODULE MCConnection ----------------------------
(* The parts of a connection, of its worker thread and of the broker around    *)
(* it that share no state, each on its own: a behaviour explores the part it   *)
(* starts with.                                                              *)
EXTENDS IncomingQoS2, CirBuf, ClientInput, ClientOutput, ClientLogin, KeepAlive, ThreadTasks,
        Shutdown, StateFile, UsedIds, WebSocketInput, TransportOutput, BridgeReconnect,
        PublishCopies

VARIABLE part

\* A client that gives a will and may or may not do so, with and without extended
\* authentication.
MCLoginConfigs ==
    {[extended |-> e, will |-> TRUE, willAllowed |-> w, mqtt5 |-> e] :
        e \in BOOLEAN, w \in BOOLEAN}

\* One client that can be told that the broker stops, and one that cannot.
MCWorker == [c \in Connections |-> IF c = CHOOSE d \in Connections \ Mqtt5Clients : TRUE
                                   THEN CHOOSE w \in Workers : TRUE
                                   ELSE CHOOSE w \in Workers : w # CHOOSE v \in Workers : TRUE]

\* Ids on both sides of the 64-bit word borders, more of them than the array takes.
MCIds == {1, 63, 64, 128, 65535}

MCSessions == {[expiry |-> 4, delay |-> 3, queuedAge |-> 1]}

\* Frames of a WebSocket client: binary ones that do and do not end with a packet.
MCFrames == {<<"Binary", 3>>, <<"Binary", 5>>, <<"Ping", 2>>, <<"Ping", 0>>, <<"Close", 1>>, <<"Pong", 5>>}
MCLinkKinds == [ws : BOOLEAN, tls : BOOLEAN]

\* Receivers of a publish: every layout, and everything that is a receiver's own;
\* one took up with MQTT 3 a session that has a subscription identifier.
Receiver(mqtt5, maxQos, asPublished, alias, subId, override) ==
    [mqtt5 |-> mqtt5, maxQos |-> maxQos, asPublished |-> asPublished, retains |-> TRUE,
     alias |-> alias, subId |-> subId, override |-> override, online |-> ~override]
MCReceiverKinds ==
    {Receiver(FALSE, 0, FALSE, "no", 0, FALSE), Receiver(FALSE, 1, TRUE, "no", 1, FALSE),
     Receiver(FALSE, 2, FALSE, "no", 0, FALSE), Receiver(TRUE, 2, TRUE, "no", 0, FALSE),
     Receiver(TRUE, 1, FALSE, "first", 1, FALSE), Receiver(TRUE, 2, FALSE, "known", 0, TRUE)}

connectionVars == <<inVars, inputVars, outVars, loginVars, kaVars>>
brokerVars == <<cirVars, taskVars, stopVars, fileVars, vars>>
peerVars == <<wsVars, tranVars, bridgeVars, copyVars>>

MCInit ==
    /\ part \in {"incoming", "input", "output", "login", "keepalive",
                 "cirbuf", "immediate", "delayed", "stop", "file", "ids",
                 "websocket", "transport", "bridge", "copies"}
    /\ InInit /\ InputInit /\ OutInit /\ LoginInit /\ KaInit
    /\ CirInit /\ TasksInit /\ StopInit /\ FileInit /\ Init
    /\ WsInit /\ TranInit /\ BridgeInit /\ CopyInit
    /\ part # "login" => ~lconf.extended /\ lconf.willAllowed
    /\ part # "incoming" => inconf.refused = {}
    /\ part # "websocket" => ~tls
    /\ part # "transport" => link = [ws |-> FALSE, tls |-> FALSE]
    /\ part # "copies" => /\ ~origin.fromClient /\ origin.qos = 0 /\ ~origin.retain /\ ~origin.aliased
                         /\ kindOf = [r \in Receivers |-> CHOOSE k \in ReceiverKinds : TRUE]

\* The next-state relation of a part leaves the variables of the others alone.
Only(name, next, others) == part = name /\ next /\ UNCHANGED others

ClientNext ==
    /\ UNCHANGED <<brokerVars, peerVars>>
    /\ \/ Only("incoming", InNext, <<inputVars, outVars, loginVars, kaVars>>)
       \/ Only("input", InputNext, <<inVars, outVars, loginVars, kaVars>>)
       \/ Only("output", OutNext, <<inVars, inputVars, loginVars, kaVars>>)
       \/ Only("login", LoginNext, <<inVars, inputVars, outVars, kaVars>>)
       \/ Only("keepalive", KaNext, <<inVars, inputVars, outVars, loginVars>>)

BrokerNext ==
    /\ UNCHANGED <<connectionVars, peerVars>>
    /\ \/ Only("cirbuf", CirNext, <<taskVars, stopVars, fileVars, vars>>)
       \/ Only("immediate", ImmediateNext, <<cirVars, stopVars, fileVars, vars>>)
       \/ Only("delayed", DelayedNext, <<cirVars, stopVars, fileVars, vars>>)
       \/ Only("stop", StopNext, <<cirVars, taskVars, fileVars, vars>>)
       \/ Only("file", FileNext, <<cirVars, taskVars, stopVars, vars>>)
       \/ Only("ids", Next, <<cirVars, taskVars, stopVars, fileVars>>)

PeerNext ==
    /\ UNCHANGED <<connectionVars, brokerVars>>
    /\ \/ Only("websocket", WsNext, <<tranVars, bridgeVars, copyVars>>)
       \/ Only("transport", TranNext, <<wsVars, bridgeVars, copyVars>>)
       \/ Only("bridge", BridgeNext, <<wsVars, tranVars, copyVars>>)
       \/ Only("copies", CopyNext, <<wsVars, tranVars, bridgeVars>>)

MCNext == UNCHANGED part /\ (ClientNext \/ BrokerNext \/ PeerNext)

MCSpec == MCInit /\ [][MCNext]_<<part, connectionVars, brokerVars, peerVars>>

-----------------------------------------------------------------------------
(* What WebSocket and TLS wrap comes out as it went in, in both directions     *)
(* (iowrapper.cpp:653, 1005).                                                *)
WrappingIsSound == WsInputIsSound /\ TransportIsSound
=============================================================================
