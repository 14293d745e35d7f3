------------------------------ MODULE MainLoop ------------------------------
(* The main thread (mainapp.cpp): it loads the configuration, starts the workers,  *)
(* listens and accepts, and does what signals and workers ask of it. While it     *)
(* loads, files change, signals come and connections arrive.                   *)
EXTENDS ConfigFile

CONSTANTS
    Situation,      \* by name: a disk, ports that are in use, whether bridgenames.db is corrupt
    Edits,          \* situations that come up while the program runs
    ConfigPath,
    MainThreads,    \* the worker threads, numbered from 0
    MayFail,        \* may the authentication of a worker fail to start?
    MaxSignals, MaxEdits, MaxArrivals, MaxRestarts,     \* bounds, of each
    MaxEvents,                                          \* and of all together
    MaxLate         \* 1000: sockets that are refused and closed later

ASSUME MainAssumption ==
    /\ Edits \subseteq DOMAIN Situation /\ MayFail \in BOOLEAN
    /\ {MaxSignals, MaxEdits, MaxArrivals, MaxRestarts, MaxEvents, MaxLate} \subseteq Nat
    /\ IsFiniteSet(MainThreads) /\ MainThreads # {}
    /\ MainThreads = 0..(Cardinality(MainThreads) - 1)

\* The blocks of a file that parses are lists, and a bridge has a number of connections.
ASSUME ParsedAssumption ==
    \A e \in DOMAIN Situation : \A p \in ParsedFile(ConfigPath, Situation[e].disk) :
        /\ p.listeners \in Seq(Range(p.listeners)) /\ p.bridges \in Seq(Range(p.bridges))
        /\ \A i \in DOMAIN p.bridges : CountOf(p.bridges[i])[2] \in Nat

VARIABLES
    env, shareFile,                 \* the situation, and sharenames.db
    step,           \* where the main thread is
    reload,         \* is this loadConfig(true)?
    parser,         \* what confFileParser holds
    active, old,    \* settings, oldSettings
    shareNames, drawn,      \* BridgeClientGroupIds, and how many names were drawn
    serving,        \* listeners: each with its turn and what became of its connections
    sockets,        \* activeListenSockets, by file descriptor
    backlog,        \* file descriptors with a connection that waits
    batch,          \* events of epoll_wait that are not handled yet
    bridgeMap,      \* bridgeConfigs
    assigned,       \* bridges that each worker was told to have
    inbox, workerSettings, ready,       \* the workers' task queues, settings and states
    pendingInit,    \* threadsPendingInit
    timers,         \* what the timed tasks were made from
    late,           \* how many refused sockets are to be closed
    flags,          \* doConfigReload, doLogFileReOpen, doQuitAction
    taskQueue,      \* how many workers have said that they are ready
    wake,           \* taskEventFd can be read
    signalling,     \* a signal handler has set a flag and not written yet
    running, started, errorExit,
    torn,           \* has a load thrown half way: now, before the last load, or never
    firstNames,     \* the first name that each group of bridges had
    signals, edits, arrivals, restarts

loadVars == <<env, shareFile, parser, shareNames, drawn, firstNames, edits>>
netVars == <<serving, sockets, backlog>>
threadVars == <<inbox, workerSettings, ready>>
askVars == <<flags, taskQueue, wake, signalling, signals>>
lifeVars == <<running, started, errorExit, restarts>>
mainLoopVars ==
    <<loadVars, netVars, threadVars, askVars, lifeVars, step, reload, active, old, batch, bridgeMap,
      assigned, pendingInit, timers, late, torn, arrivals>>

TaskFd == 0
NoSettings == [root |-> <<>>, plugin |-> <<>>, listeners |-> <<>>, bridges |-> <<>>]
NoTimers == [save |-> <<>>, plugin |-> <<>>]
Now == Situation[env]

\* What reloadTimers compares.
TimersOf(s) ==
    [save |-> Given(s.root, "save_state_interval", Small(3623)).number,
     plugin |-> Given(s.root, "plugin_timer_period", Small(60)).number]

MainInit ==
    /\ env \in DOMAIN Situation /\ shareFile = NoFile
    /\ step = "test" /\ reload = FALSE
    /\ parser = NoSettings /\ active = NoSettings /\ old = NoSettings
    /\ shareNames = <<>> /\ drawn = 0 /\ firstNames = <<>>
    /\ serving = <<>> /\ sockets = <<>> /\ backlog = {} /\ batch = <<>>
    /\ bridgeMap = <<>> /\ assigned = [t \in MainThreads |-> {}]
    /\ inbox = [t \in MainThreads |-> <<>>] /\ workerSettings = [t \in MainThreads |-> NoSettings]
    /\ ready = [t \in MainThreads |-> "none"] /\ pendingInit = 0
    /\ timers = NoTimers /\ late = 0
    /\ flags = {} /\ taskQueue = 0 /\ wake = FALSE /\ signalling = FALSE
    /\ running = TRUE /\ started = FALSE /\ errorExit = FALSE /\ torn = "never"
    /\ signals = 0 /\ edits = 0 /\ arrivals = 0 /\ restarts = 0

-----------------------------------------------------------------------------
(* loadConfig, in the steps between which the files may change. An exception ends  *)
(* the program at its start, and is logged after that.                          *)
Loading == {"test", "real", "listen", "bridges", "threads"}
Thrown == step' = IF reload THEN "others" ELSE "failed"

\* Half of it is done: settings have their new value and the rest may not follow.
ThrownHalfWay == Thrown /\ torn' = "now"

LoadedNow(test) == loadFile(ParsedFile(ConfigPath, Now.disk), shareNames, shareFile, drawn, test)
TakeLoaded(l) ==
    /\ shareNames' = l.names /\ shareFile' = l.file
    /\ drawn' = drawn + Cardinality(DOMAIN l.names \ DOMAIN shareNames)

TestLoad ==
    /\ step = "test"
    /\ \/ /\ LoadedNow(TRUE) = {} /\ Thrown
          /\ UNCHANGED <<shareNames, shareFile, drawn>>
       \/ /\ \E l \in LoadedNow(TRUE) : TakeLoaded(l)
          /\ step' = "real"
    /\ UNCHANGED <<env, parser, firstNames, edits, netVars, threadVars, askVars, lifeVars, reload, active,
                   old, batch, bridgeMap, assigned, pendingInit, timers, late, torn, arrivals>>

\* Names that bridges of a group had, for good: what was there first stays.
GroupNames(s) ==
    LET groups == {i \in DOMAIN s.bridges : s.bridges[i].group}
    IN  [p \in {PrefixOf(s.bridges[i].config) : i \in groups} |->
            s.bridges[CHOOSE i \in groups : PrefixOf(s.bridges[i].config) = p].share]

RealLoad ==
    /\ step = "real"
    /\ \/ /\ LoadedNow(FALSE) = {} /\ Thrown
          /\ UNCHANGED <<shareNames, shareFile, drawn, parser, firstNames>>
       \/ /\ \E l \in LoadedNow(FALSE) :
                /\ TakeLoaded(l) /\ parser' = l.settings
                /\ firstNames' = FirstOf(firstNames, GroupNames(l.settings))
          /\ step' = "listen"
    /\ UNCHANGED <<env, edits, netVars, threadVars, askVars, lifeVars, reload, active, old, batch,
                   bridgeMap, assigned, pendingInit, timers, late, torn, arrivals>>

WithListeners(s) ==
    IF s.listeners = <<>> THEN [s EXCEPT !.listeners = <<WithPort(<<>>, 1883)>>] ELSE s

\* One socket for each protocol, or none at all when one of them fails.
SocketsOf(s, i) ==
    LET b == s.listeners[i]
        protocols == IF Given(b, "inet_protocol", "ip4_ip6") = "ip4_ip6" THEN <<"ip4", "ip6">>
                     ELSE <<b.inet_protocol>>
        address == IF Given(b, "inet_protocol", "ip4_ip6") = "unix" THEN b.unix_socket_path ELSE b.port
    IN  IF address \in Now.busy THEN <<>>
        ELSE [j \in DOMAIN protocols |->
                 [listener |-> i, protocol |-> protocols[j], listening |-> reload]]
LoadsCert(b) == IsSsl(b) => testSsl(b, Now.disk) /\ testSslVerifyLocations(
                    b, {"client_verification_ca_file", "client_verification_ca_dir"}, Now.disk)

\* The sockets of the first n listeners: the old ones are closed, so their numbers are taken
\* again.
SocketsUpTo(s, n) == FlattenSeq([i \in 1..n |-> SocketsOf(s, i)])
NewListeners(s) ==
    [i \in DOMAIN s.listeners |->
        [turn |-> 0, given |-> [t \in MainThreads |-> 0], closed |-> 0]]

\* Old sockets stay open, but their listeners have gone: nothing accepts what comes in.
Orphaned ==
    /\ sockets' = [f \in DOMAIN sockets |-> [sockets[f] EXCEPT !.listener = 0]]
    /\ UNCHANGED backlog

Listen ==
    LET s == WithListeners(parser)
        all == Len(s.listeners)
        bad == {i \in 1..all : ~LoadsCert(s.listeners[i])}
        opened(n) == sockets' = SocketsUpTo(s, n) /\ backlog' = {}
    IN  /\ step = "listen"
        /\ old' = active /\ active' = s /\ serving' = NewListeners(s)
        /\ IF \E i \in 1..all : ~ListenerIsValid(s.listeners[i], Now.disk)
           THEN ThrownHalfWay /\ Orphaned
           ELSE IF bad # {}
           THEN ThrownHalfWay /\ opened((CHOOSE i \in bad : \A j \in bad : i <= j) - 1)
           ELSE /\ opened(all) /\ UNCHANGED torn
                /\ step' = IF ~reload /\ \E i \in 1..all : SocketsOf(s, i) = <<>>
                           THEN "failed" ELSE "bridges"
        /\ UNCHANGED <<loadVars, threadVars, askVars, lifeVars, reload, batch, bridgeMap, assigned,
                       pendingInit, timers, late, arrivals>>

\* The last configuration of each prefix; owner gives the worker it has.
ConfiguredWith(s, owner(_)) ==
    LET last(p) == CHOOSE i \in DOMAIN s.bridges :
                       /\ s.bridges[i].prefix = p
                       /\ \A j \in DOMAIN s.bridges : s.bridges[j].prefix = p => j <= i
    IN  [p \in {s.bridges[i].prefix : i \in DOMAIN s.bridges} |->
            [config |-> s.bridges[last(p)], doomed |-> FALSE, owner |-> owner(p)]]

\* Mutant: a bridge that is configured again is as good as new.
ConfiguredAnew(s) == LET owner(p) == {} IN ConfiguredWith(s, owner)

\* What is known of a bridge and stays: its worker (and its client id).
Configured(s) ==
    LET owner(p) == IF p \in DOMAIN bridgeMap THEN bridgeMap[p].owner ELSE {}
    IN  ConfiguredWith(s, owner)

\* sendBridgesToThreads: those that have no worker yet are spread.
WithOwner(map) ==
    LET new(group) == SetToSeq({p \in DOMAIN map : map[p].owner = {} /\ map[p].config.group = group})
        index(p) == (CHOOSE i \in DOMAIN new(map[p].config.group) : new(map[p].config.group)[i] = p) - 1
    IN  [p \in DOMAIN map |->
            IF map[p].owner = {}
            THEN [map[p] EXCEPT !.owner = {index(p) % Cardinality(MainThreads)}]
            ELSE map[p]]
SendBridgesToThreads(map) ==
    LET owned == WithOwner(map)
        toGive(t) == {p \in DOMAIN owned : owned[p].owner = {t} /\ ~owned[p].doomed}
        toRemove(t) == {p \in DOMAIN owned : owned[p].owner = {t} /\ owned[p].doomed}
    IN  /\ bridgeMap' = Restrict(owned, {p \in DOMAIN owned : ~owned[p].doomed})
        /\ assigned' = [t \in MainThreads |-> (assigned[t] \ toRemove(t)) \union toGive(t)]

LoadBridges ==
    LET doomed == [p \in DOMAIN bridgeMap |-> [bridgeMap[p] EXCEPT !.doomed = TRUE]]
        listed == Configured(active)
        new == [p \in DOMAIN listed \union DOMAIN bridgeMap |->
                   IF p \in DOMAIN listed THEN listed[p] ELSE doomed[p]]
    IN  /\ step = "bridges"
        /\ active' = [active EXCEPT !.bridges = <<>>]
        /\ IF HasStorage(active.root) /\ Now.corrupt
           THEN ThrownHalfWay /\ bridgeMap' = doomed /\ UNCHANGED assigned
           ELSE /\ step' = "threads" /\ UNCHANGED torn
                /\ IF reload THEN SendBridgesToThreads(new)
                   ELSE bridgeMap' = new /\ UNCHANGED assigned
        /\ UNCHANGED <<loadVars, netVars, threadVars, askVars, lifeVars, reload, old, batch, pendingInit,
                       timers, late, arrivals>>

\* Clearing the timed tasks closes the sockets that wait for that.
ReloadTimers(changed) ==
    IF changed THEN timers' = TimersOf(active) /\ late' = 0 ELSE UNCHANGED <<timers, late>>

TellThreads ==
    /\ step = "threads"
    /\ IF reload
       THEN /\ inbox' = [t \in MainThreads |-> Append(inbox[t], active)]
            /\ ReloadTimers(TimersOf(active) # TimersOf(old))
            /\ torn' = (IF torn = "never" THEN torn ELSE "before")
            /\ step' = "others"
       ELSE /\ UNCHANGED <<inbox, timers, late, torn>>
            /\ step' = "start"
    /\ UNCHANGED <<loadVars, netVars, askVars, lifeVars, reload, active, old, batch, bridgeMap, assigned,
                   pendingInit, arrivals, workerSettings, ready>>

-----------------------------------------------------------------------------
(* start(): the workers start before it is counted how many there are.            *)
StartThreads ==
    /\ step = "start" /\ step' = "count"
    /\ workerSettings' = [t \in MainThreads |-> active]
    /\ ready' = [t \in MainThreads |-> "starting"]
    /\ UNCHANGED <<loadVars, netVars, askVars, lifeVars, reload, active, old, batch, bridgeMap, assigned,
                   inbox, pendingInit, timers, late, torn, arrivals>>

CountThreads ==
    /\ step = "count" /\ step' = "wait"
    /\ pendingInit' = Cardinality(MainThreads)
    /\ SendBridgesToThreads(bridgeMap)
    /\ UNCHANGED <<loadVars, netVars, threadVars, askVars, lifeVars, reload, active, old, batch, timers,
                   late, torn, arrivals>>

\* A worker that is ready has the main thread count it; one that fails stops the broker.
queueThreadInitDecrement == taskQueue' = taskQueue + 1 /\ wake' = (wake \/ taskQueue = 0)
InitThread(t) ==
    /\ ready[t] = "starting"
    /\ \/ /\ ready' = [ready EXCEPT ![t] = "running"]
          /\ queueThreadInitDecrement /\ UNCHANGED <<running, flags>>
       \/ /\ MayFail /\ ready' = [ready EXCEPT ![t] = "failed"]
          /\ running' = FALSE /\ flags' = flags \ {"quit"}
          /\ UNCHANGED <<taskQueue, wake>>
    /\ UNCHANGED <<loadVars, netVars, inbox, workerSettings, signalling, signals, started, errorExit,
                   restarts, step, reload, active, old, batch, bridgeMap, assigned, pendingInit, timers,
                   late, torn, arrivals>>

\* ThreadData::reload: the settings are taken before anything can fail.
ReloadThread(t) ==
    /\ ready[t] = "running" /\ inbox[t] # <<>>
    /\ workerSettings' = [workerSettings EXCEPT ![t] = Head(inbox[t])]
    /\ inbox' = [inbox EXCEPT ![t] = Tail(@)]
    /\ UNCHANGED <<loadVars, netVars, ready, askVars, lifeVars, step, reload, active, old, batch,
                   bridgeMap, assigned, pendingInit, timers, late, torn, arrivals>>

-----------------------------------------------------------------------------
(* The loop.                                                                  *)
Ready == {f \in backlog : f \in DOMAIN sockets /\ sockets[f].listening}
         \union {f \in {TaskFd} : wake}

EpollWait ==
    /\ step = "wait" /\ running /\ batch = <<>> /\ Ready # {}
    /\ batch' \in SetToSeqs(Ready)
    /\ step' = "batch"
    /\ UNCHANGED <<loadVars, netVars, threadVars, askVars, lifeVars, reload, active, old, bridgeMap,
                   assigned, pendingInit, timers, late, torn, arrivals>>

Handled == batch' = Tail(batch) /\ step' = IF Len(batch) = 1 THEN "wait" ELSE "batch"

\* What is found under a descriptor that has gone is made by looking: a socket of nobody.
NoSocket == [listener |-> 0, protocol |-> "none", listening |-> FALSE]

\* The connection goes to a worker, or is closed, at once or later.
TakenFrom(i, how) ==
    LET l == serving[i]
        t == l.turn % Cardinality(MainThreads)
    IN  /\ how = "refuse" =>
               {"only_allow_from", "deny_from"} \cap DOMAIN active.listeners[i] # {}
        /\ how = "close" =>
               Given(active.listeners[i], "overload_mode",
                     Given(active.root, "overload_mode", "log")) = "close_new_clients"
        /\ serving' = [serving EXCEPT ![i] =
               CASE how = "refuse" -> l
                 [] how = "close" -> [turn |-> l.turn + 1, given |-> l.given, closed |-> l.closed + 1]
                 [] how = "give" -> [turn |-> l.turn + 1, given |-> [l.given EXCEPT ![t] = @ + 1],
                                     closed |-> l.closed]]
        /\ late' = IF how = "refuse" /\ late < MaxLate THEN late + 1 ELSE late

Accept ==
    LET fd == Head(batch)
    IN  /\ step = "batch" /\ fd # TaskFd /\ Handled
        /\ \/ /\ fd \notin DOMAIN sockets
              /\ sockets' = [f \in {fd} \union DOMAIN sockets |->
                              IF f = fd THEN NoSocket ELSE sockets[f]]
              /\ UNCHANGED <<serving, backlog, late>>
           \/ /\ fd \in DOMAIN sockets
              /\ IF fd \in backlog /\ sockets[fd].listener \in DOMAIN serving
                 THEN /\ \E how \in {"give", "close", "refuse"} : TakenFrom(sockets[fd].listener, how)
                      /\ backlog' = backlog \ {fd}
                 ELSE UNCHANGED <<serving, backlog, late>>
              /\ UNCHANGED sockets
        /\ UNCHANGED <<loadVars, threadVars, askVars, lifeVars, reload, active, old, bridgeMap, assigned,
                       pendingInit, timers, torn, arrivals>>

ReadEvent ==
    /\ step = "batch" /\ Head(batch) = TaskFd
    /\ wake' = FALSE /\ step' = "asked"
    /\ UNCHANGED <<loadVars, netVars, threadVars, flags, taskQueue, signalling, signals, lifeVars, reload, active,
                   old, batch, bridgeMap, assigned, pendingInit, timers, late, torn, arrivals>>

\* reloadConfig: the flag goes down before the file is read.
ReloadIfAsked ==
    /\ step = "asked"
    /\ IF "reload" \in flags
       THEN flags' = flags \ {"reload"} /\ reload' = TRUE /\ step' = "test"
       ELSE step' = "others" /\ UNCHANGED <<flags, reload>>
    /\ UNCHANGED <<loadVars, netVars, threadVars, taskQueue, wake, signalling, signals, lifeVars, active, old,
                   batch, bridgeMap, assigned, pendingInit, timers, late, torn, arrivals>>

\* Every socket listens, and a socket of nobody cannot.
DoListen ==
    IF NoSocket \in Range(sockets)
    THEN /\ \E done \in SUBSET {f \in DOMAIN sockets : sockets[f] # NoSocket} :
                sockets' = [f \in DOMAIN sockets |->
                               [sockets[f] EXCEPT !.listening = @ \/ f \in done]]
         /\ errorExit' = TRUE /\ flags' = (flags \ {"reopen"}) \union {"quit"} /\ wake' = TRUE
         /\ UNCHANGED <<started, timers, late>>
    ELSE /\ sockets' = [f \in DOMAIN sockets |-> [sockets[f] EXCEPT !.listening = TRUE]]
         /\ started' = TRUE /\ ReloadTimers(TRUE)
         /\ flags' = flags \ {"reopen", "quit"} /\ UNCHANGED <<errorExit, wake>>

\* Log files, quitting, and all tasks of the queue.
DoTheRest ==
    /\ step = "others" /\ Handled
    /\ running' = (running /\ "quit" \notin flags)
    /\ taskQueue' = 0 /\ pendingInit' = IF taskQueue < pendingInit THEN pendingInit - taskQueue ELSE 0
    /\ IF pendingInit > 0 /\ pendingInit' = 0 THEN DoListen
       ELSE /\ flags' = flags \ {"reopen", "quit"}
            /\ UNCHANGED <<sockets, started, timers, late, errorExit, wake>>
    /\ UNCHANGED <<loadVars, serving, backlog, threadVars, signalling, signals, restarts, reload, active,
                   old, bridgeMap, assigned, torn, arrivals>>

CloseLate ==
    /\ late > 0 /\ late' = late - 1 /\ step = "wait"
    /\ UNCHANGED <<loadVars, netVars, threadVars, askVars, lifeVars, step, reload, active, old, batch,
                   bridgeMap, assigned, pendingInit, timers, torn, arrivals>>

LeaveLoop ==
    /\ step = "wait" /\ ~running /\ step' = "left"
    /\ sockets' = <<>> /\ backlog' = {}
    /\ UNCHANGED <<loadVars, serving, threadVars, askVars, lifeVars, reload, active, old, batch, bridgeMap,
                   assigned, pendingInit, timers, late, torn, arrivals>>

-----------------------------------------------------------------------------
(* The world.                                                                 *)
Happens == signals + edits + arrivals + restarts < MaxEvents

\* queueConfigReload, queueReopenLogFile and queueQuit: the flag, then the descriptor.
Signal(f) ==
    /\ Happens /\ signals < MaxSignals /\ ~signalling
    /\ step \notin {"failed", "left"} /\ (step \in Loading => reload)
    /\ signals' = signals + 1 /\ flags' = flags \union {f} /\ signalling' = TRUE
    /\ UNCHANGED <<loadVars, netVars, threadVars, taskQueue, wake, lifeVars, step, reload, active, old, batch,
                   bridgeMap, assigned, pendingInit, timers, late, torn, arrivals>>
WakeUpThread ==
    /\ signalling /\ signalling' = FALSE /\ wake' = TRUE
    /\ UNCHANGED <<loadVars, netVars, threadVars, flags, taskQueue, signals, lifeVars, step, reload, active, old,
                   batch, bridgeMap, assigned, pendingInit, timers, late, torn, arrivals>>

Edit ==
    /\ Happens /\ edits < MaxEdits /\ env \in Edits /\ env' \in Edits \ {env} /\ edits' = edits + 1
    /\ UNCHANGED <<shareFile, parser, shareNames, drawn, firstNames, netVars, threadVars, askVars, lifeVars,
                   step, reload, active, old, batch, bridgeMap, assigned, pendingInit, timers, late, torn,
                   arrivals>>

Arrive(f) ==
    /\ Happens /\ arrivals < MaxArrivals /\ f \in DOMAIN sockets \ backlog /\ sockets[f].listening
    /\ arrivals' = arrivals + 1 /\ backlog' = backlog \union {f}
    /\ UNCHANGED <<loadVars, serving, sockets, threadVars, askVars, lifeVars, step, reload, active, old,
                   batch, bridgeMap, assigned, pendingInit, timers, late, torn>>

\* The program is started again: only the files are left.
Restart ==
    /\ step \in {"failed", "left"} /\ restarts < MaxRestarts /\ Happens
    /\ restarts' = restarts + 1 /\ UNCHANGED <<env, shareFile, drawn, edits, signals, arrivals>>
    /\ firstNames' = shareFile.names    \* what is not saved is gone
    /\ step' = "test" /\ reload' = FALSE
    /\ parser' = NoSettings /\ active' = NoSettings /\ old' = NoSettings /\ shareNames' = <<>>
    /\ serving' = <<>> /\ sockets' = <<>> /\ backlog' = {} /\ batch' = <<>> /\ bridgeMap' = <<>>
    /\ assigned' = [t \in MainThreads |-> {}] /\ inbox' = [t \in MainThreads |-> <<>>]
    /\ workerSettings' = [t \in MainThreads |-> NoSettings]
    /\ ready' = [t \in MainThreads |-> "none"] /\ pendingInit' = 0 /\ timers' = NoTimers /\ late' = 0
    /\ flags' = {} /\ taskQueue' = 0 /\ wake' = FALSE /\ signalling' = FALSE
    /\ running' = TRUE /\ started' = FALSE /\ errorExit' = FALSE /\ torn' = "never"

LoadStep == TestLoad \/ RealLoad \/ Listen \/ LoadBridges \/ TellThreads
LoopStep ==
    \/ StartThreads \/ CountThreads \/ EpollWait \/ Accept \/ ReadEvent \/ ReloadIfAsked \/ DoTheRest
    \/ LeaveLoop
WorkerStep == \E t \in MainThreads : InitThread(t) \/ ReloadThread(t)

\* Every 100 ms epoll_wait returns nothing; a program that has ended does nothing.
RestsOrIsOver ==
    /\ step \in {"failed", "left"} \/ (step = "wait" /\ running)
    /\ UNCHANGED mainLoopVars
MainNext ==
    \/ LoadStep \/ LoopStep \/ WorkerStep \/ WakeUpThread \/ CloseLate \/ Edit \/ Restart \/ RestsOrIsOver
    \/ \E f \in {"reload", "reopen", "quit"} : Signal(f)
    \/ \E f \in DOMAIN sockets : Arrive(f)
MainSpec == MainInit /\ [][MainNext]_mainLoopVars

\* The threads go on, and a signal handler that has started ends. A step of a load can
\* always be taken: that the main thread takes it is that loads end.
LoopFairness ==
    /\ WF_mainLoopVars(LoopStep)
    /\ \A t \in MainThreads : WF_mainLoopVars(InitThread(t) \/ ReloadThread(t))
    /\ WF_mainLoopVars(WakeUpThread)
MainFairness == LoopFairness /\ []<>(step \notin Loading)
FairMainSpec == MainSpec /\ MainFairness

-----------------------------------------------------------------------------
(* What is asked of the main thread and not done yet, it will be woken for: the    *)
(* flags of signals and the tasks of workers (mainapp.cpp:946, 1314).             *)
Handling == Loading \union {"asked", "others"}
RequestsAreSeen ==
    step \notin {"failed", "left"} =>
        /\ "reload" \in flags => wake \/ signalling \/ step = "asked"
        /\ flags \ {"reload"} # {} => wake \/ signalling \/ step \in Handling
        /\ taskQueue > 0 => wake \/ step \in Handling

(* Between two requests everything has the same settings: those of the main thread, *)
(* those the workers have or have queued, those of the timers and the sockets.      *)
(* Only a load that throws half way leaves it otherwise, and the timers even after   *)
(* the next one that does not (mainapp.cpp:1068, 1174, 1209).                    *)
Idle == step \in {"wait", "batch"}
SettingsAgree ==
    Idle /\ torn # "now" =>
        /\ \A t \in MainThreads : ready[t] # "failed" =>
               active = IF inbox[t] = <<>> THEN workerSettings[t] ELSE Last(inbox[t])
        /\ started /\ torn = "never" => timers = TimersOf(active)
        /\ \A f \in DOMAIN sockets : sockets[f] # NoSocket =>
               /\ sockets[f].listener \in DOMAIN active.listeners
               /\ started => sockets[f].listening

(* A bridge is in the hands of one worker, and between two requests each of the      *)
(* configuration is (mainapp.cpp:1124, 388).                                      *)
BridgesHaveOneOwner ==
    /\ \A t, u \in MainThreads : assigned[t] \cap assigned[u] # {} => t = u
    /\ Idle /\ torn # "now" => UNION Range(assigned) = DOMAIN bridgeMap

(* The connections of a bridge keep the name of their shared subscriptions, which    *)
(* says which session at the other end is whose, over reloads and restarts          *)
(* (bridgeconfig.h:35; configfileparser.cpp:1446).                               *)
ShareNamesLast ==
    \A i \in DOMAIN parser.bridges : parser.bridges[i].group =>
        parser.bridges[i].share = firstNames[PrefixOf(parser.bridges[i].config)]

(* The clients of a listener are spread evenly, but for those that were closed       *)
(* because of overload (mainapp.cpp:765, 813).                                    *)
WorkersTakeTurns ==
    \A i \in DOMAIN serving : \A t, u \in MainThreads :
        serving[i].given[t] <= serving[i].given[u] + 1 + serving[i].closed

MainThreadIsSound ==
    /\ RequestsAreSeen /\ SettingsAgree /\ BridgesHaveOneOwner /\ ShareNamesLast /\ WorkersTakeTurns
    /\ step = "test" => BlocksAreKept(ConfigPath, Now.disk)

(* What a signal asks for is done, unless the broker stops; once all workers are     *)
(* ready the broker is; settings that were loaded get to all workers, unless a later *)
(* load throws half way (mainapp.cpp:1174, 1314, 1170).                          *)
MainProgress ==
    /\ flags # {} ~> (flags = {} \/ ~running)
    /\ step = "wait" ~> (started \/ ~running)
    /\ (step = "threads" /\ reload) ~>
           (~running \/ \A t \in MainThreads :
                            inbox[t] = <<>> /\ (torn = "now" \/ workerSettings[t] = active))
=============================================================================
