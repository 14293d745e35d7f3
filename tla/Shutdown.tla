------------------------------ MODULE Shutdown ------------------------------
(* How the broker stops (mainapp.cpp:912-995; threaddata.cpp:688-729,          *)
(* 1021-1060; threadloop.cpp:60-130, 224-234): the main thread has every       *)
(* worker publish the wills, then send the disconnects, waits for them, and    *)
(* saves the state when the background worker has stopped.  A worker performs  *)
(* its tasks, and in the same turn of its loop writes to the ready clients.   *)
(* All clients are subscribed to all wills.                                  *)
EXTENDS Naturals, FiniteSets, Sequences, SequencesExt

CONSTANTS
    Workers,        \* worker threads
    Connections,    \* clients
    Worker,         \* client -> its worker
    Mqtt5Clients,   \* clients that can be sent a DISCONNECT
    StuckClients,   \* clients whose socket takes nothing
    WaitsExpire     \* the waits of the main thread that may take too long

ASSUME WorkerAssumption == Worker \in [Connections -> Workers]
ASSUME ClientSetsAssumption ==
    Mqtt5Clients \subseteq Connections /\ StuckClients \subseteq Connections
ASSUME WaitsAssumption == WaitsExpire \subseteq {"wills", "quit", "finish"}

VARIABLES
    main,           \* where the main thread is
    saver,          \* the background worker: "idle", "saves", "stopped"
    saverRuns,      \* its flag running
    work,           \* worker -> its task queue
    woken,          \* worker -> the event fds that are readable
    collected,      \* worker -> disconnectingClients
    turn,           \* worker -> the turn of its loop
    runs,           \* worker -> the flags running, allWillsQueued, finished
    byFd,           \* clients in by_fd of their thread
    hasWill,        \* clients with a will
    unsent,         \* client -> packets in its write buffer
    onWire,         \* client -> packets on its socket
    stopStage,      \* client -> its disconnect stage
    gone            \* clients that closed the connection themselves

stopVars == <<main, saver, saverRuns, work, woken, collected, turn, runs, byFd, hasWill, unsent,
              onWire, stopStage, gone>>
clientVars == <<byFd, hasWill, unsent, onWire, stopStage, gone>>
saverVars == <<saver, saverRuns>>

-----------------------------------------------------------------------------
Disconnect == "DISCONNECT"
StopPackets == Connections \cup {Disconnect}    \* a client stands for its will

\* Clients are finitely many, and none is a DISCONNECT.
ASSUME ConnectionsAssumption == IsFiniteSet(Connections) /\ Disconnect \notin Connections

Job(kind, clients) == [kind |-> kind, clients |-> clients]
StopJobs == [kind : {"wills", "disconnects", "tell", "collect", "remove", "ended", "quit"},
         clients : SUBSET Connections]

Stops == <<"runs", "wills", "waitsForWills", "disconnects", "waitsForQuit", "waitsForFinish",
           "waitsForSaver", "saves", "ended">>

StopTypeOK ==
    /\ main \in Range(Stops)
    /\ saver \in {"idle", "saves", "stopped"} /\ saverRuns \in BOOLEAN
    /\ work \in [Workers -> Seq(StopJobs)]
    /\ woken \in [Workers -> SUBSET {"tasks", "collect"}]
    /\ collected \in [Workers -> SUBSET Connections]
    /\ turn \in [Workers -> [at : {"epoll", "turn", "ended"}, batch : Seq(StopJobs),
                             events : SUBSET {"tasks", "collect"}, ready : SUBSET Connections]]
    /\ runs \in [Workers -> [running : BOOLEAN, allWillsQueued : BOOLEAN, finished : BOOLEAN]]
    /\ UNION {byFd, hasWill, gone} \subseteq Connections
    /\ unsent \in [Connections -> Seq(StopPackets)] /\ onWire \in [Connections -> Seq(StopPackets)]
    /\ stopStage \in [Connections -> {"NotInitiated", "SendPendingAppData", "Now"}]

IdleTurn == [at |-> "epoll", batch |-> <<>>, events |-> {}, ready |-> {}]

StopInit ==
    /\ main = "runs" /\ saver = "idle" /\ saverRuns = TRUE
    /\ work = [w \in Workers |-> <<>>]
    /\ woken = [w \in Workers |-> {}]
    /\ collected = [w \in Workers |-> {}]
    /\ turn = [w \in Workers |-> IdleTurn]
    /\ runs = [w \in Workers |-> [running |-> TRUE, allWillsQueued |-> FALSE, finished |-> FALSE]]
    /\ byFd = Connections
    /\ hasWill = Connections
    /\ unsent = [c \in Connections |-> <<>>] /\ onWire = [c \in Connections |-> <<>>]
    /\ stopStage = [c \in Connections |-> "NotInitiated"]
    /\ gone = {}

ClientsOf(w) == {c \in byFd : Worker[c] = w}

-----------------------------------------------------------------------------
(* The main thread.                                                          *)
QueueForAll(kind) ==
    /\ work' = [w \in Workers |-> IF runs[w].finished THEN work[w]
                                  ELSE Append(work[w], Job(kind, {}))]
    /\ woken' = [w \in Workers |-> woken[w] \cup {"tasks"}]

\* mainapp.cpp:914-916
StopListening ==
    /\ main = "runs"
    /\ main' = "wills" /\ saverRuns' = FALSE
    /\ UNCHANGED <<saver, work, woken, collected, turn, runs, clientVars>>

QueueSendWills ==
    /\ main = "wills"
    /\ main' = "waitsForWills"
    /\ QueueForAll("wills")
    /\ UNCHANGED <<saverVars, collected, turn, runs, clientVars>>

\* Mutant: nobody waits for the wills.
DoNotWaitForWills ==
    /\ main = "waitsForWills"
    /\ main' = "disconnects"
    /\ UNCHANGED <<saverVars, work, woken, collected, turn, runs, clientVars>>

\* waitForWillsQueued
WaitForWillsQueued ==
    /\ main = "waitsForWills"
    /\ "wills" \in WaitsExpire \/ \A w \in Workers : runs[w].allWillsQueued \/ ~runs[w].running
    /\ main' = "disconnects"
    /\ UNCHANGED <<saverVars, work, woken, collected, turn, runs, clientVars>>

QueueSendDisconnects ==
    /\ main = "disconnects"
    /\ main' = "waitsForQuit"
    /\ QueueForAll("disconnects")
    /\ UNCHANGED <<saverVars, collected, turn, runs, clientVars>>

WaitForQuit ==
    /\ main = "waitsForQuit"
    /\ LET quit == \A w \in Workers : ~runs[w].running
       IN  /\ quit \/ "quit" \in WaitsExpire
           /\ main' = IF quit THEN "waitsForFinish" ELSE "waitsForSaver"
    /\ UNCHANGED <<saverVars, work, woken, collected, turn, runs, clientVars>>

\* The threads are joined, unless one did not end in time.
WaitForFinish ==
    /\ main = "waitsForFinish"
    /\ "finish" \in WaitsExpire \/ \A w \in Workers : runs[w].finished
    /\ main' = "waitsForSaver"
    /\ UNCHANGED <<saverVars, work, woken, collected, turn, runs, clientVars>>

\* bgWorker.waitForStop
WaitForSaver ==
    /\ main = "waitsForSaver" /\ saver = "stopped"
    /\ main' = "saves"
    /\ UNCHANGED <<saverVars, work, woken, collected, turn, runs, clientVars>>

SaveAtEnd ==
    /\ main = "saves"
    /\ main' = "ended"
    /\ UNCHANGED <<saverVars, work, woken, collected, turn, runs, clientVars>>

MainStep ==
    \/ QueueSendWills \/ WaitForWillsQueued \/ QueueSendDisconnects
    \/ WaitForQuit \/ WaitForFinish \/ WaitForSaver \/ SaveAtEnd

-----------------------------------------------------------------------------
(* The background worker saves now and then (backgroundworker.cpp:10-55).     *)
SaverStarts ==
    /\ saver = "idle" /\ saverRuns
    /\ saver' = "saves"
    /\ UNCHANGED <<main, saverRuns, work, woken, collected, turn, runs, clientVars>>

SaverStep ==
    /\ \/ saver = "saves" /\ saver' = "idle"
       \/ saver = "idle" /\ ~saverRuns /\ saver' = "stopped"
    /\ UNCHANGED <<main, saverRuns, work, woken, collected, turn, runs, clientVars>>

-----------------------------------------------------------------------------
(* The loop of a worker.                                                     *)
Writable(w) == {c \in ClientsOf(w) : unsent[c] # <<>> /\ c \notin StuckClients}

Epoll(w) ==
    /\ turn[w].at = "epoll" /\ runs[w].running
    /\ woken[w] # {} \/ Writable(w) # {}
    /\ turn' = [turn EXCEPT ![w] = [at |-> "turn", batch |-> <<>>, events |-> woken[w],
                                    ready |-> Writable(w)]]
    /\ UNCHANGED <<main, saverVars, work, woken, collected, runs, clientVars>>

\* performAllImmediateTasks
TakeWork(w) ==
    /\ turn[w].at = "turn" /\ turn[w].batch = <<>>
    /\ "tasks" \in turn[w].events
    /\ turn' = [turn EXCEPT ![w] = [at |-> "turn", batch |-> work[w],
                                    events |-> @.events \ {"tasks"}, ready |-> @.ready]]
    /\ work' = [work EXCEPT ![w] = <<>>]
    /\ woken' = [woken EXCEPT ![w] = @ \ {"tasks"}]
    /\ UNCHANGED <<main, saverVars, collected, runs, clientVars>>

PublishWills(clients) ==
    /\ hasWill' = hasWill \ clients
    /\ LET wills == SetToSeq(clients \cap hasWill)
       IN  unsent' = [c \in Connections |->
                         IF c \in byFd THEN unsent[c] \o wills ELSE unsent[c]]

QueueOwn(w, jobs) ==
    /\ work' = [work EXCEPT ![w] = @ \o jobs]
    /\ woken' = [woken EXCEPT ![w] = @ \cup {"tasks"}]

\* sendOrQueueWill for all clients.
SendAllWills(w) ==
    /\ PublishWills(ClientsOf(w))
    /\ runs' = [runs EXCEPT ![w].allWillsQueued = TRUE]
    /\ UNCHANGED <<work, woken, collected, byFd, onWire, stopStage, gone>>

\* One task for each client, and one that collects them.
SendAllDisconnects(w) ==
    LET clients == SetToSeq(ClientsOf(w))
    IN
    /\ QueueOwn(w, [i \in 1..Len(clients) |-> Job("tell", {clients[i]})]
                       \o <<Job("collect", ClientsOf(w))>>)
    /\ UNCHANGED <<collected, runs, clientVars>>

\* serverInitiatedDisconnect
Tell(w, c) ==
    \/ /\ c \in Mqtt5Clients
       /\ stopStage' = [stopStage EXCEPT ![c] = "SendPendingAppData"]
       /\ unsent' = [unsent EXCEPT ![c] = Append(@, Disconnect)]
       /\ UNCHANGED <<work, woken, collected, runs, byFd, hasWill, onWire, gone>>
    \/ /\ c \notin Mqtt5Clients
       /\ stopStage' = [stopStage EXCEPT ![c] = "Now"]
       /\ QueueOwn(w, <<Job("remove", {c})>>)
       /\ UNCHANGED <<collected, runs, byFd, hasWill, unsent, onWire, gone>>

\* Mutant: without clients there is nothing to wake up for.
CollectIfAny(w, clients) ==
    /\ collected' = [collected EXCEPT ![w] = clients]
    /\ woken' = IF clients = {} THEN woken ELSE [woken EXCEPT ![w] = @ \cup {"collect"}]
    /\ UNCHANGED <<work, runs, clientVars>>

\* disconnectingAllEventFd is written in any case.
Collect(w, clients) ==
    /\ collected' = [collected EXCEPT ![w] = clients]
    /\ woken' = [woken EXCEPT ![w] = @ \cup {"collect"}]
    /\ UNCHANGED <<work, runs, clientVars>>

\* removeClient; the object ends, and queues what is to be done then.
RemoveQueued(w, clients) ==
    /\ byFd' = byFd \ clients
    /\ QueueOwn(w, <<Job("ended", clients)>>)
    /\ UNCHANGED <<collected, runs, hasWill, unsent, onWire, stopStage, gone>>

QuitLoop(w) ==
    /\ runs' = [runs EXCEPT ![w].running = FALSE]
    /\ UNCHANGED <<work, woken, collected, clientVars>>

Perform(w, job) ==
    \/ job.kind = "wills" /\ SendAllWills(w)
    \/ job.kind = "disconnects" /\ SendAllDisconnects(w)
    \/ job.kind = "tell" /\ \E c \in job.clients : Tell(w, c)
    \/ job.kind = "collect" /\ Collect(w, job.clients)
    \/ job.kind = "remove" /\ RemoveQueued(w, job.clients)
    \/ /\ job.kind = "ended" /\ PublishWills(job.clients)
       /\ UNCHANGED <<work, woken, collected, runs, byFd, onWire, stopStage, gone>>
    \/ job.kind = "quit" /\ QuitLoop(w)

PerformJob(w) ==
    /\ turn[w].at = "turn" /\ turn[w].batch # <<>>
    /\ turn' = [turn EXCEPT ![w].batch = Tail(@)]
    /\ Perform(w, Head(turn[w].batch))
    /\ UNCHANGED <<main, saverVars>>

\* The clients that still exist are ready for writing.
MakeReady(w) ==
    turn' = [turn EXCEPT ![w] = [at |-> @.at, batch |-> @.batch,
                                 events |-> @.events \ {"collect"},
                                 ready |-> @.ready \cup (collected[w] \cap byFd)]]

DisconnectingAll(w) ==
    /\ turn[w].at = "turn" /\ turn[w].batch = <<>>
    /\ "collect" \in turn[w].events
    /\ MakeReady(w)
    /\ collected' = [collected EXCEPT ![w] = {}]
    /\ work' = [work EXCEPT ![w] = Append(@, Job("quit", {}))]
    /\ woken' = [woken EXCEPT ![w] = (@ \ {"collect"}) \cup {"tasks"}]
    /\ UNCHANGED <<main, saverVars, runs, clientVars>>

ClientsAreNext(w) == turn[w].at = "turn" /\ turn[w].batch = <<>> /\ turn[w].events = {}

\* writeBufIntoFd, and the client is removed when that was the last.
HandleClient(w, c) ==
    LET taken == c \notin StuckClients
        ends == stopStage[c] = "Now" \/ (stopStage[c] = "SendPendingAppData" /\ taken)
    IN
    /\ ClientsAreNext(w) /\ c \in turn[w].ready
    /\ turn' = [turn EXCEPT ![w].ready = @ \ {c}]
    /\ onWire' = IF taken THEN [onWire EXCEPT ![c] = @ \o unsent[c]] ELSE onWire
    /\ unsent' = IF taken THEN [unsent EXCEPT ![c] = <<>>] ELSE unsent
    /\ stopStage' = IF ends THEN [stopStage EXCEPT ![c] = "Now"] ELSE stopStage
    /\ byFd' = IF ends THEN byFd \ {c} ELSE byFd
    /\ IF ends /\ c \in byFd THEN QueueOwn(w, <<Job("ended", {c})>>)
                             ELSE UNCHANGED <<work, woken>>
    /\ UNCHANGED <<main, saverVars, collected, runs, hasWill, gone>>

ClientsHandled(w) ==
    /\ ClientsAreNext(w) /\ turn[w].ready = {}
    /\ turn' = [turn EXCEPT ![w] = [IdleTurn EXCEPT !.at = IF runs[w].running THEN "epoll"
                                                       ELSE "ended"]]
    /\ runs' = [runs EXCEPT ![w].finished = ~runs[w].running]
    /\ UNCHANGED <<main, saverVars, work, woken, collected, clientVars>>

WorkerStep(w) ==
    \/ Epoll(w) \/ TakeWork(w) \/ PerformJob(w) \/ DisconnectingAll(w)
    \/ \E c \in Connections : HandleClient(w, c)
    \/ ClientsHandled(w)

-----------------------------------------------------------------------------
(* A client may close its connection meanwhile.                              *)
Leave(c) ==
    LET w == Worker[c]
    IN
    /\ c \in byFd /\ main # "runs"
    /\ ClientsAreNext(w) /\ c \notin turn[w].ready
    /\ byFd' = byFd \ {c} /\ gone' = gone \cup {c}
    /\ QueueOwn(w, <<Job("ended", {c})>>)
    /\ UNCHANGED <<main, saverVars, collected, turn, runs, hasWill, unsent, onWire, stopStage>>

StopNext ==
    \/ StopListening \/ MainStep
    \/ SaverStarts \/ SaverStep
    \/ \E w \in Workers : WorkerStep(w)
    \/ \E c \in Connections : Leave(c)

StopSpec == StopInit /\ [][StopNext]_stopVars
StopFairness ==
    /\ WF_stopVars(MainStep)
    /\ WF_stopVars(SaverStep)
    /\ \A w \in Workers : WF_stopVars(WorkerStep(w))

-----------------------------------------------------------------------------
Stayed == Connections \ gone
CountOf(p, s) == Cardinality({i \in DOMAIN s : s[i] = p})

(* A client that can be told so, was told that the broker stops, before its    *)
(* thread ends (threadloop.cpp:106-109).                                     *)
ToldBeforeStop ==
    \A c \in (Stayed \cap Mqtt5Clients) \ StuckClients :
        runs[Worker[c]].finished => CountOf(Disconnect, onWire[c]) = 1

(* The wills of all clients, of all threads, reach the clients before they are *)
(* disconnected: none is lost and none comes after the DISCONNECT             *)
(* (mainapp.cpp:924).                                                        *)
WillsComeFirst ==
    \A c \in (Stayed \cap Mqtt5Clients) \ StuckClients :
        CountOf(Disconnect, onWire[c]) = 1 =>
            \A d \in Stayed : \E i, j \in DOMAIN onWire[c] :
                i < j /\ onWire[c][i] = d /\ onWire[c][j] = Disconnect

(* No will is published twice, by the stop and by the end of its connection.  *)
WillsOnce == \A c, d \in Connections : CountOf(d, unsent[c] \o onWire[c]) <= 1

(* The state is saved by one thread at a time (mainapp.cpp:916, 986).         *)
SavesApart == ~(saver = "saves" /\ main = "saves")

(* The order of a stop, with the threads each at its own pace                  *)
(* (mainapp.cpp:912-990).                                                    *)
StopInOrder == ToldBeforeStop /\ WillsComeFirst /\ WillsOnce /\ SavesApart

(* The broker stops, without the limits on the waits (mainapp.cpp:942, 960).  *)
StopEnds == main = "wills" ~> main = "ended"
=============================================================================
