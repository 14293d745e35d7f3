---------------------------- MODULE BridgeReconnect ----------------------------
(* One bridge: its configuration in the main thread, and in its worker thread  *)
(* the state, the DNS queries, the connections that are tried, and the         *)
(* session that outlives them (mainapp.cpp:351-410, 1118-1160,                *)
(* threaddata.cpp:257-361, 416-438, 756-802, 835-860, bridgeconfig.cpp,        *)
(* mqttpacket.cpp:1356-1455).                                                *)
(*                                                                           *)
(* Tasks of the worker are performed in the order in which they were queued.   *)
(* Time is the age of the last attempt.  Left out: TLS, topics, the server's   *)
(* limits, other bridges of the thread.                                      *)
EXTENDS Integers, Sequences, FiniteSets

CONSTANTS
    Versions,           \* configurations that the bridge can have: numbers from 1
    Lasting,            \* those with a local session expiry
    CleanStart,         \* those with a local clean start
    GroupChoices,       \* is it one of a group of connections to one server?
    BaseInterval,       \* age at which a new attempt is made after a failure
    LongInterval,       \* the same after many failures
    BackOffAfter,       \* how many are many
    MaxAddresses,       \* bound on the addresses of a DNS answer
    MaxReloads,         \* bound on changes of the configuration
    ReloadsOverlap,     \* may one come before the worker has handled the last?
    MaxFailures,        \* bound on what goes wrong in the network
    MaxTries            \* bound on connections

ASSUME BridgeAssumption ==
    /\ Versions \subseteq Nat \ {0} /\ Versions # {}
    /\ Lasting \subseteq Versions /\ CleanStart \subseteq Versions
    /\ GroupChoices \subseteq BOOLEAN /\ ReloadsOverlap \in BOOLEAN
    /\ 1 < BaseInterval /\ BaseInterval < LongInterval
    /\ {BaseInterval, LongInterval, BackOffAfter, MaxAddresses, MaxReloads, MaxFailures, MaxTries}
           \subseteq Nat \ {0}

VARIABLES
    grouped,
    conf,           \* the main thread's: version (0: none) and client id
    giveQueue,      \* acceptQueue.bridges
    btasks,         \* the worker's task queue, and whether a retry is delayed
    bridge,         \* clients.bridges[prefix]
    links,          \* connections, by number
    sessions,       \* by number
    registry,       \* sessionsById[client id]
    replaced,       \* states that a changed configuration has replaced
    reloads, failures, states

bridgeVars == <<grouped, conf, giveQueue, btasks, bridge, links, sessions, registry, replaced,
                reloads, failures, states>>
\* What the steps of the network leave alone.
mainVars == <<grouped, conf, giveQueue, replaced, reloads, states>>

-----------------------------------------------------------------------------
None == 0
Never == LongInterval       \* the age when there was no attempt yet

\* BridgeState.  Clients and the map refer to it by its number.
NewState(c, n) ==
    [number |-> n, version |-> c.version, id |-> c.id, session |-> None, counter |-> 0,
     age |-> Never, dns |-> "idle", results |-> 0]
NoBridge == NewState([version |-> 0, id |-> 0], 0)

NoConn == [stage |-> "none", state |-> None, session |-> None, queued |-> FALSE]
Links == DOMAIN links
Open(c) == links[c].stage \in {"connecting", "login", "up"}
ClientOf(s) == {c \in Links : Open(c) /\ sessions[s].client = c}

\* A weak pointer to a session is null once only weak ones are left.
SessionStays(s) ==
    \/ \E i \in DOMAIN registry : registry[i] = s
    \/ \E c \in Links : Open(c) /\ links[c].session = s
    \/ \E i \in DOMAIN btasks.queue : btasks.queue[i] = <<"disconnected", s>>

BridgeTypeOK ==
    /\ grouped \in BOOLEAN
    /\ conf \in [version : Versions \cup {0}, id : 0..(MaxReloads + 1)]
    /\ bridge.number \in 0..states /\ bridge.counter \in Nat /\ bridge.age \in 0..Never
    /\ bridge.dns \in {"idle", "asked", "answered", "failed", "late"}
    /\ bridge.results \in 0..MaxAddresses
    /\ bridge.session \in {None} \cup DOMAIN sessions
    /\ \A c \in Links : /\ links[c].stage \in {"none", "connecting", "login", "up", "gone"}
                        /\ links[c].queued \in BOOLEAN
    /\ \A s \in DOMAIN sessions : sessions[s].client \in Links /\ sessions[s].lasting \in BOOLEAN

BridgeInit ==
    /\ grouped \in GroupChoices
    /\ conf = [version |-> CHOOSE v \in Versions : \A w \in Versions : v <= w, id |-> 1]
    /\ giveQueue = <<NewState(conf, 1)>> /\ states = 1
    /\ btasks = [queue |-> <<<<"reconnect">>>>, retry |-> FALSE]
    /\ bridge = NoBridge
    /\ links = [c \in 1..MaxTries |-> NoConn]
    /\ sessions = <<>>
    /\ registry = [i \in 1..(MaxReloads + 1) |-> None]
    /\ replaced = {} /\ reloads = 0 /\ failures = 0

-----------------------------------------------------------------------------
Queued(task) == [btasks EXCEPT !.queue = Append(@, task)]

\* A reload: the configuration has changed, or the bridge is new or gone
\* (sendBridgesToThreads).  A bridge that comes back has a new client id.
Reload(v) ==
    /\ reloads < MaxReloads
    /\ conf.version # v
    /\ ReloadsOverlap \/ (btasks.queue = <<>> /\ giveQueue = <<>>)
    /\ reloads' = reloads + 1
    /\ conf' = [version |-> v, id |-> IF conf.version = 0 THEN reloads + 2 ELSE conf.id]
    /\ IF v = 0 THEN /\ btasks' = Queued(<<"remove">>)
                     /\ UNCHANGED <<giveQueue, states>>
       ELSE /\ states' = states + 1
            /\ giveQueue' = Append(giveQueue, NewState(conf', states + 1))
            /\ UNCHANGED btasks
    /\ UNCHANGED <<grouped, bridge, links, sessions, registry, replaced, failures>>

\* queueBridgeReconnect: every 5 seconds, and after a reload.  Bounded: not when
\* one is queued.
QueueReconnect ==
    /\ \A i \in DOMAIN btasks.queue : btasks.queue[i] # <<"reconnect">>
    /\ btasks' = Queued(<<"reconnect">>)
    /\ UNCHANGED <<mainVars, bridge, links, sessions, registry, failures>>

\* The delayed task that waits for a DNS answer.
Retry ==
    /\ btasks.retry
    /\ btasks' = [queue |-> Append(btasks.queue, <<"reconnect">>), retry |-> FALSE]
    /\ UNCHANGED <<mainVars, bridge, links, sessions, registry, failures>>

BridgeTick ==
    /\ bridge.age < Never
    /\ bridge' = [bridge EXCEPT !.age = @ + 1]
    /\ UNCHANGED <<mainVars, btasks, links, sessions, registry, failures>>

-----------------------------------------------------------------------------
(* bridgeReconnect.  It begins with acceptPendingBridges: b is the state that   *)
(* results from it.                                                          *)

Task == btasks.queue # <<>>
Performed == [btasks EXCEPT !.queue = Tail(@)]
WaitingForDns == [btasks EXCEPT !.queue = Tail(@), !.retry = TRUE]

\* A state replaces the one of another configuration.
RECURSIVE Accepted(_, _)
Accepted(b, given) ==
    IF given = <<>> THEN b
    ELSE Accepted(IF b.number = 0 \/ b.version # Head(given).version THEN Head(given) ELSE b,
                  Tail(given))

timeForNewReconnectAttempt(b) ==
    grouped \/ b.age >= IF b.counter > BackOffAfter THEN LongInterval
                        ELSE IF b.counter > 0 THEN BaseInterval ELSE 1

registerReconnect(b) == [b EXCEPT !.age = 0, !.counter = IF @ > BackOffAfter THEN @ ELSE @ + 1]

SessionOf(b) == IF b.session # None /\ SessionStays(b.session) THEN b.session ELSE None
Connected(b) == SessionOf(b) # None /\ ClientOf(b.session) # {}

\* There is nothing to do, or it is not time yet.
NothingToDo(b) ==
    /\ b.number = 0 \/ Connected(b) \/ ~timeForNewReconnectAttempt(b)
    /\ bridge' = b /\ btasks' = Performed
    /\ UNCHANGED <<links, sessions, registry>>

\* Mutant: a query that failed is not begun again.
ResolveOnce(b) ==
    /\ b.number # 0 /\ ~Connected(b) /\ timeForNewReconnectAttempt(b)
    /\ b.results = 0 /\ b.dns # "answered"
    /\ IF b.dns \in {"idle", "asked"}
       THEN bridge' = [b EXCEPT !.dns = "asked"] /\ btasks' = WaitingForDns
       ELSE bridge' = registerReconnect(b) /\ btasks' = Performed
    /\ UNCHANGED <<links, sessions, registry>>

\* Without an address a DNS query is begun, or waited for.  A failed one, and one
\* that took more than 5 seconds though its answer be there, is an exception.
Resolve(b) ==
    /\ b.number # 0 /\ ~Connected(b) /\ timeForNewReconnectAttempt(b)
    /\ b.results = 0 /\ b.dns # "answered"
    /\ IF b.dns \in {"idle", "asked"}
       THEN bridge' = [b EXCEPT !.dns = "asked"] /\ btasks' = WaitingForDns
       ELSE bridge' = registerReconnect([b EXCEPT !.dns = "idle"]) /\ btasks' = Performed
    /\ UNCHANGED <<links, sessions, registry>>

\* getBridgeSession: the session of the client id goes on, unless it ends with its
\* connection or is not wanted.
RegisteredSession(b) ==
    LET s == registry[b.id] IN
    IF s = None \/ b.version \in CleanStart \/ (s # None /\ ~sessions[s].lasting) THEN None ELSE s

\* A connection to the next address.
Attempt(b, results) ==
    LET c == CHOOSE d \in Links : links[d].stage = "none" /\ \A e \in 1..(d - 1) : links[e].stage # "none"
        known == IF SessionOf(b) # None THEN b.session ELSE RegisteredSession(b)
        s == IF known # None THEN known ELSE Len(sessions) + 1
    IN
    /\ b.number # 0 /\ ~Connected(b) /\ timeForNewReconnectAttempt(b)
    /\ \E d \in Links : links[d].stage = "none"
    /\ IF b.results > 0 THEN results = b.results ELSE b.dns = "answered"
    /\ bridge' = registerReconnect([b EXCEPT !.results = results - 1, !.session = s,
                                             !.dns = IF b.results > 0 THEN @ ELSE "idle"])
    /\ links' = [links EXCEPT ![c] = [stage |-> "connecting", state |-> b.number, session |-> s,
                                      queued |-> FALSE]]
    /\ sessions' = IF known = None
                   THEN Append(sessions, [client |-> c, lasting |-> FALSE, subscribed |-> FALSE,
                                          left |-> FALSE])
                   ELSE [sessions EXCEPT ![s].client = c, ![s].left = FALSE]
    /\ registry' = IF SessionOf(b) # None THEN registry ELSE [registry EXCEPT ![b.id] = s]
    /\ btasks' = Performed

bridgeReconnect ==
    LET b == Accepted(bridge, giveQueue) IN
    /\ Task /\ Head(btasks.queue) = <<"reconnect">>
    /\ giveQueue' = <<>>
    /\ replaced' = replaced \cup ({bridge.number} \ {b.number, 0})
    /\ NothingToDo(b) \/ Resolve(b) \/ \E n \in 1..MaxAddresses : Attempt(b, n)
    /\ UNCHANGED <<grouped, conf, reloads, failures, states>>

\* Mutant: its client stays.
removeBridgeOnly ==
    /\ Task /\ Head(btasks.queue) = <<"remove">>
    /\ bridge' = NoBridge
    /\ btasks' = Performed
    /\ UNCHANGED <<mainVars, links, sessions, registry, failures>>

\* removeBridge: the bridge is forgotten, and its client will be removed.
removeBridge ==
    LET c == IF SessionOf(bridge) = None THEN {} ELSE ClientOf(bridge.session) IN
    /\ Task /\ Head(btasks.queue) = <<"remove">>
    /\ bridge' = NoBridge
    /\ btasks' = [Performed EXCEPT !.queue = IF c = {} THEN @ ELSE Append(@, <<"removeClients">>)]
    /\ links' = [d \in Links |-> IF d \in c THEN [links[d] EXCEPT !.queued = TRUE] ELSE links[d]]
    /\ UNCHANGED <<mainVars, sessions, registry, failures>>

\* The clients leave the table, and their destructors queue the rest.
Removed(gone, queue) ==
    /\ links' = [c \in Links |-> IF c \in gone THEN [links[c] EXCEPT !.stage = "gone"] ELSE links[c]]
    /\ btasks' = [btasks EXCEPT !.queue =
                    queue \o [i \in 1..Cardinality(gone) |->
                                 <<"disconnected", links[CHOOSE c \in gone :
                                      Cardinality({d \in gone : d <= c}) = i].session>>]]

removeQueuedClients ==
    /\ Task /\ Head(btasks.queue) = <<"removeClients">>
    /\ Removed({c \in Links : Open(c) /\ links[c].queued}, Tail(btasks.queue))
    /\ UNCHANGED <<mainVars, bridge, sessions, registry, failures>>

\* clientDisconnectActions: a session that ends with its connection leaves the
\* registry, if it is still in it; another one waits for its expiry.
clientDisconnectActions ==
    LET s == Head(btasks.queue)[2] IN
    /\ Task /\ Head(btasks.queue)[1] = "disconnected"
    /\ btasks' = Performed
    /\ IF sessions[s].lasting
       THEN sessions' = [sessions EXCEPT ![s].left = TRUE] /\ UNCHANGED registry
       ELSE /\ registry' = [i \in DOMAIN registry |-> IF registry[i] = s THEN None ELSE registry[i]]
            /\ UNCHANGED sessions
    /\ UNCHANGED <<mainVars, bridge, links, failures>>

\* removeExpiredSessionsClients: a session whose client is gone expires.
ExpireSession(i) ==
    LET s == registry[i] IN
    /\ s # None /\ sessions[s].left /\ ClientOf(s) = {}
    /\ registry' = [registry EXCEPT ![i] = None]
    /\ UNCHANGED <<mainVars, btasks, bridge, links, sessions, failures>>

-----------------------------------------------------------------------------
(* DNS, the network and the server.                                          *)

DnsEnds(how) ==
    /\ bridge.dns = "asked"
    /\ how = "answered" \/ failures < MaxFailures
    /\ failures' = IF how = "answered" THEN failures ELSE failures + 1
    /\ bridge' = [bridge EXCEPT !.dns = how]
    /\ UNCHANGED <<mainVars, btasks, links, sessions, registry>>

\* An answer that is not looked at within the time limit is too late.
DnsIsLate ==
    /\ bridge.dns = "answered" /\ failures < MaxFailures
    /\ failures' = failures + 1
    /\ bridge' = [bridge EXCEPT !.dns = "late"]
    /\ UNCHANGED <<mainVars, btasks, links, sessions, registry>>

StateOf(c) == links[c].state = bridge.number

\* setBridgeConnected: addresses that were not tried are forgotten, CONNECT is
\* sent.  Without its state the client can not, and is removed.
EstablishConnection(c) ==
    /\ links[c].stage = "connecting"
    /\ IF StateOf(c)
       THEN /\ links' = [links EXCEPT ![c].stage = "login"]
            /\ bridge' = [bridge EXCEPT !.results = 0]
            /\ UNCHANGED btasks
       ELSE /\ Removed({c}, btasks.queue)
            /\ UNCHANGED bridge
    /\ UNCHANGED <<mainVars, sessions, registry, failures>>

\* handleConnAck of a success: a client whose state was replaced is set up no
\* further.
handleConnAck(c) ==
    /\ links[c].stage = "login"
    /\ links' = [links EXCEPT ![c].stage = "up"]
    /\ IF StateOf(c)
       THEN /\ bridge' = [bridge EXCEPT !.counter = 0, !.age = Never]
            /\ sessions' = [sessions EXCEPT ![bridge.session].lasting = bridge.version \in Lasting,
                                            ![bridge.session].subscribed = TRUE]
       ELSE UNCHANGED <<bridge, sessions>>
    /\ UNCHANGED <<mainVars, btasks, registry, failures>>

\* A connection fails, is refused, ends, or is silent for too long.
EndConnection(c) ==
    /\ Open(c) /\ failures < MaxFailures
    /\ failures' = failures + 1
    /\ Removed({c}, btasks.queue)
    /\ UNCHANGED <<mainVars, bridge, sessions, registry>>

BridgeWorkerStep ==
    \/ bridgeReconnect \/ removeBridge \/ removeQueuedClients \/ clientDisconnectActions

BridgeNext ==
    \/ \E v \in Versions \cup {0} : Reload(v)
    \/ QueueReconnect \/ Retry \/ BridgeTick
    \/ BridgeWorkerStep
    \/ \E i \in DOMAIN registry : ExpireSession(i)
    \/ \E how \in {"answered", "failed"} : DnsEnds(how)
    \/ DnsIsLate
    \/ \E c \in Links : EstablishConnection(c) \/ handleConnAck(c) \/ EndConnection(c)

\* The worker and the timers go on, and so do DNS and a server that is asked.
BridgeFairness ==
    /\ WF_bridgeVars(QueueReconnect) /\ WF_bridgeVars(Retry)
    /\ WF_bridgeVars(BridgeTick)
    /\ WF_bridgeVars(BridgeWorkerStep)
    /\ WF_bridgeVars(DnsEnds("answered"))
    /\ WF_bridgeVars(\E c \in Links : EstablishConnection(c) \/ handleConnAck(c))

BridgeSpec == BridgeInit /\ [][BridgeNext]_bridgeVars
FairBridgeSpec == BridgeSpec /\ BridgeFairness

-----------------------------------------------------------------------------
Serving(c) == Open(c) /\ ~links[c].queued

\* A configuration has one connection, whichever tasks are queued and addresses
\* left (threaddata.cpp:281: "if (client) continue;").
OneConnection == \A c, d \in Links : Serving(c) /\ Serving(d) /\ links[c].state = links[d].state => c = d

\* The connection of a bridge that is gone from the configuration is removed,
\* however far it had come (threaddata.cpp:772).  One whose configuration was
\* replaced is not: see OldConnectionEnds.
NoneWithoutBridge == \A c \in Links : Serving(c) => StateOf(c) \/ links[c].state \in replaced

\* A bridge that is up is the client of the session that it subscribed with, so
\* what is published reaches it and no older connection (mqttpacket.cpp:1392).
UpIsSubscribed ==
    \A c \in Links : links[c].stage = "up" /\ StateOf(c) =>
        /\ links[c].session = bridge.session
        /\ sessions[bridge.session].client = c /\ sessions[bridge.session].subscribed

BridgeIsSound == BridgeTypeOK /\ OneConnection /\ NoneWithoutBridge /\ UpIsSubscribed

\* A lasting session stays in the registry while its client is connected.
LastingIsRegistered ==
    \A c \in Links : links[c].stage = "up" /\ StateOf(c) /\ sessions[links[c].session].lasting
        => \E i \in DOMAIN registry : registry[i] = links[c].session

\* When the configuration of a bridge changed, its connection ends.
OldConnectionEnds == \A c \in 1..MaxTries : [](links[c].state \in replaced => <>~Serving(c))

\* Once the network is well and the configuration stays, the bridge is up with it,
\* or gone with it (mainapp.cpp:395; bridgeconfig.cpp:170; dnsresolver.cpp:83).
BridgeComesUp ==
    <>[](/\ conf.version = bridge.version
         /\ conf.version # 0 => \E c \in Links : links[c].stage = "up" /\ StateOf(c))
=============================================================================
