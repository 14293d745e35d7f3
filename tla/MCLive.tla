------------------------------- MODULE MCLive -------------------------------
(* What must happen in the end, in small instances of the parts, each on its   *)
(* own.  A part that does not run stays in its initial state, in which no      *)
(* step that its fairness is about is enabled.                               *)
EXTENDS SubscriptionTree, RetainedMessages, RetainedDelivery, IncomingQoS2, ClientInput,
        ClientOutput, ClientLogin, ThreadTasks, Shutdown

VARIABLE part

MCFilters == {<<"a", "b">>, <<"c">>}
MCRetTopics == {<<"a">>}
MCRetConfigs ==
    {[threads |-> {"t1"}, mayExpire |-> TRUE, deferTimeout |-> TRUE, limit |-> 9, depth |-> 0]}
MCKnownTopics == {<<"a">>, <<"a", "b">>}
MCSubFilters == {<<"#">>, <<"+", "b">>}
MCLoginConfigs ==
    {[extended |-> e, will |-> TRUE, willAllowed |-> w, mqtt5 |-> e] :
        e \in BOOLEAN, w \in BOOLEAN}
MCWorker == [c \in Connections |-> CHOOSE w \in Workers : TRUE]

MCInit ==
    /\ part \in {"tree", "retained", "delivery", "incoming", "input", "output", "login", "tasks",
                 "stop"}
    /\ SubInit /\ RetInit /\ DelInit /\ InInit /\ InputInit /\ OutInit /\ LoginInit /\ TasksInit
    /\ StopInit
    /\ part # "delivery" => withMessage = {}
    /\ part # "login" => ~lconf.extended /\ lconf.willAllowed

\* The next-state relation of a part leaves the variables of the others alone.
Only(name, next, others) == part = name /\ next /\ UNCHANGED others

MCNext ==
    /\ UNCHANGED part
    /\ \/ Only("tree", SubNext, <<retVars, delVars, inVars, inputVars, outVars, loginVars,
                                  taskVars, stopVars>>)
       \/ Only("retained", RetNext, <<subVars, delVars, inVars, inputVars, outVars, loginVars,
                                      taskVars, stopVars>>)
       \/ Only("delivery", DelNext, <<subVars, retVars, inVars, inputVars, outVars, loginVars,
                                      taskVars, stopVars>>)
       \/ Only("incoming", InNext, <<subVars, retVars, delVars, inputVars, outVars, loginVars,
                                     taskVars, stopVars>>)
       \/ Only("input", InputNext, <<subVars, retVars, delVars, inVars, outVars, loginVars,
                                     taskVars, stopVars>>)
       \/ Only("output", OutNext, <<subVars, retVars, delVars, inVars, inputVars, loginVars,
                                    taskVars, stopVars>>)
       \/ Only("login", LoginNext, <<subVars, retVars, delVars, inVars, inputVars, outVars,
                                     taskVars, stopVars>>)
       \/ Only("tasks", ImmediateNext, <<subVars, retVars, delVars, inVars, inputVars, outVars,
                                         loginVars, stopVars>>)
       \/ Only("stop", StopNext, <<subVars, retVars, delVars, inVars, inputVars, outVars,
                                   loginVars, taskVars>>)

MCFairness ==
    /\ SubFairness /\ RetFairness /\ DelFairness /\ InFairness /\ InputFairness /\ OutFairness
    /\ LoginFairness /\ TasksFairness /\ StopFairness

MCSpec ==
    /\ MCInit
    /\ [][MCNext]_<<part, subVars, retVars, delVars, inVars, inputVars, outVars, loginVars,
                    taskVars, stopVars>>
    /\ MCFairness

-----------------------------------------------------------------------------
(* The store tidies up: nodes that nobody wants go, retained messages whose    *)
(* setting was put off are set, and deliveries of retained messages end        *)
(* (subscriptionstore.cpp:1138, 869; threaddata.cpp:876).                    *)
StoreProgress == UnwantedNodesGo /\ QueuedIsSet /\ GivingEnds

(* A connection goes on: handshakes are finished, packets are read, a client   *)
(* that was told to go is removed, and what waited for a login is handled      *)
(* (mqttpacket.cpp:2417; client.cpp:344, 1321; client.h:54).                  *)
ConnectionProgress == HandshakeEnds /\ PacketsAreRead /\ DisconnectEnds /\ DeferredEnds

(* Worker threads perform what they are given, and the broker stops            *)
(* (threaddata.cpp:1196; mainapp.cpp:912).                                   *)
ThreadProgress == TasksArePerformed /\ StopEnds
=============================================================================
