----------------------------- MODULE MCReconnect -----------------------------
(* What comes of a connection in the end: the will of a client that comes back, *)
(* a bridge that connects again, bytes that are wrapped for a peer, and what   *)
(* signals ask of the main thread.                                            *)
(* The parts share no state; a behaviour explores the part it starts with.    *)
EXTENDS MCSessionRegistry, TransportOutput, BridgeReconnect, MCMainLoop

VARIABLE part

MCLinkKinds == [ws : BOOLEAN, tls : BOOLEAN]

MCInit ==
    /\ part \in {"registry", "transport", "bridge", "main"}
    /\ Init /\ TranInit /\ BridgeInit
    /\ MainInit
    /\ part # "main" => env = "base"
    /\ part # "transport" => link = [ws |-> FALSE, tls |-> FALSE]

\* The next-state relation of a part leaves the variables of the others alone.
Only(name, next, others) == part = name /\ next /\ UNCHANGED others

MCNext ==
    /\ UNCHANGED part
    /\ \/ Only("registry", Next, <<tranVars, bridgeVars, mainLoopVars>>)
       \/ Only("transport", TranNext, <<vars, bridgeVars, mainLoopVars>>)
       \/ Only("bridge", BridgeNext, <<vars, tranVars, mainLoopVars>>)
       \/ Only("main", MainNext, <<vars, tranVars, bridgeVars>>)

\* Nothing is asked of a part that does not run.
MCSpec ==
    /\ MCInit
    /\ [][MCNext]_<<part, vars, tranVars, bridgeVars, mainLoopVars>>
    /\ part = "registry" => Fairness
    /\ part = "bridge" => BridgeFairness
    /\ TranFairness
    /\ LoopFairness /\ []<>(part = "main" => step \notin Loading)

-----------------------------------------------------------------------------
(* What is wrapped for a peer gets to its socket, a bridge comes up, and what a    *)
(* signal asks for is done (client.cpp:579; threaddata.cpp:257; mainapp.cpp:1174). *)
PeerProgress ==
    /\ AllIsSent
    /\ part = "bridge" => BridgeComesUp
    /\ MainProgress
=============================================================================
