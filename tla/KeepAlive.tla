------------------------------ MODULE KeepAlive ------------------------------
(* Who is silent for too long is removed (threaddata.cpp:167-181, 345-353,     *)
(* 804-823, 989-1002, 1224-1306; client.cpp:653-663, 1177-1199): the clients  *)
(* of one worker thread, by their file descriptors, and the checks that are    *)
(* queued by the time they are due.  The main thread queues a task for the     *)
(* checks at an interval.  Other threads hold references: a client that is    *)
(* removed keeps its descriptor until the last one is gone.                   *)
(*                                                                           *)
(* Left out: a thread that falls behind: tasks are performed when they are     *)
(* queued. The check itself is a task of ThreadTasks.                        *)
EXTENDS ThreadTasks, Functions

CONSTANTS
    KaClients,      \* connections, each used once
    Fds,            \* file descriptors, used again
    KeepAlives,     \* the keep-alives that clients ask for; 0 is none
    DefaultKeepAlive, \* 10, before CONNECT
    UnauthDelay,    \* 30: till the check of a client that is not logged in
    MinDelay,       \* 5: the least time till a check
    CheckInterval,  \* 5: between two tasks of the main thread
    MaxTime         \* bound on the time

ASSUME KeepAlivesAssumption == KeepAlives \subseteq Nat /\ DefaultKeepAlive \in Nat \ {0}
ASSUME DelaysAssumption ==
    UnauthDelay \in Nat \ {0} /\ MinDelay \in Nat \ {0} /\ CheckInterval \in Nat \ {0}
ASSUME NoClientAssumption == "none" \notin KaClients

VARIABLES
    now,
    conns,      \* client -> the fields of Client
    by_fd,      \* file descriptor -> client, or "none"
    fdHeld,     \* clients that another thread has a reference to
    checks,     \* queuedKeepAliveChecks
    nextCheck   \* when the main thread queues the next check

kaVars == <<now, conns, by_fd, fdHeld, checks, nextCheck>>

-----------------------------------------------------------------------------
NotYet == [at |-> "none"]
Destroyed == [at |-> "destroyed"]
NoClient == "none"

KaTypeOK ==
    /\ now \in 0..MaxTime
    /\ conns \in [KaClients -> {NotYet, Destroyed} \cup
                     [at : {"connected", "loggedIn"}, outgoing : BOOLEAN, fd : Fds,
                      keepalive : KeepAlives \cup {DefaultKeepAlive}, lastActivity : 0..MaxTime,
                      since : 0..MaxTime, pinged : 0..MaxTime]]
    /\ by_fd \in [Fds -> KaClients \cup {NoClient}]
    /\ fdHeld \subseteq KaClients
    /\ checks \subseteq [client : KaClients, at : Nat, recheck : BOOLEAN]
    /\ nextCheck \in 0..(MaxTime + CheckInterval)

KaInit ==
    /\ now = 0
    /\ conns = [c \in KaClients |-> NotYet]
    /\ by_fd = [f \in Fds |-> NoClient]
    /\ fdHeld = {} /\ checks = {}
    /\ nextCheck = CheckInterval

-----------------------------------------------------------------------------
IsIn(c) == c \in Range(by_fd)

\* Mutant: the descriptor is closed when the client is removed.
FreeFdsOfRemoved == Fds \ {conns[c].fd : c \in {d \in KaClients : IsIn(d)}}

\* shared_ptr: the object lives, and its descriptor is open.
Alive(c) == conns[c] \notin {NotYet, Destroyed}
FreeFds == Fds \ {conns[c].fd : c \in {d \in KaClients : Alive(d)}}

\* Clients whose last reference goes are destroyed, and so are their checks:
\* the weak pointers lead nowhere.
Destroy(cs, cn) == [c \in KaClients |-> IF c \in cs THEN Destroyed ELSE cn[c]]
ChecksOf(cs) == {k \in checks : k.client \in cs}

OneAndAHalf(k) == k + (k \div 2)

keepAliveExpired(c) ==
    conns[c].keepalive # 0 /\ conns[c].lastActivity + OneAndAHalf(conns[c].keepalive) < now

\* getSecondsTillKeepAliveAction: 0 is for never.
SecondsTillAction(r, t) ==
    IF r.outgoing THEN r.keepalive
    ELSE IF r.at # "loggedIn" THEN UnauthDelay
    ELSE IF r.keepalive = 0 THEN 0
    ELSE LET left == r.lastActivity + OneAndAHalf(r.keepalive) + 2 - t
         IN  IF left < MinDelay THEN MinDelay ELSE left

\* queueClientNextKeepAliveCheck
NextCheck(c, r, keepRechecking) ==
    IF SecondsTillAction(r, now) = 0 THEN {}
    ELSE {[client |-> c, at |-> now + SecondsTillAction(r, now), recheck |-> keepRechecking]}

-----------------------------------------------------------------------------
\* The socket was accepted by the main thread (acceptPendingClients), or the
\* connection is a bridge's own (bridgeReconnect).
Accept(c, fd, outgoing, k) ==
    LET r == [at |-> "connected", outgoing |-> outgoing, fd |-> fd, lastActivity |-> now,
              keepalive |-> k, since |-> now, pinged |-> now]
    IN
    /\ conns[c] = NotYet /\ fd \in FreeFds
    /\ ~outgoing => k = DefaultKeepAlive
    /\ conns' = [conns EXCEPT ![c] = r]
    /\ by_fd' = [by_fd EXCEPT ![fd] = c]
    /\ checks' = checks \cup NextCheck(c, r, outgoing)
    /\ UNCHANGED <<now, fdHeld, nextCheck>>

\* readFdIntoBuffer
Activity(c) ==
    /\ IsIn(c)
    /\ conns' = [conns EXCEPT ![c].lastActivity = now]
    /\ UNCHANGED <<now, by_fd, fdHeld, checks, nextCheck>>

\* CONNECT: the plugin may keep the client waiting.
Connect(c, k) ==
    /\ IsIn(c) /\ conns[c].at = "connected" /\ ~conns[c].outgoing
    /\ conns' = [conns EXCEPT ![c].lastActivity = now, ![c].keepalive = k]
    /\ UNCHANGED <<now, by_fd, fdHeld, checks, nextCheck>>

\* registerClientAndKickExistingOne, before it counts as logged in; a bridge is
\* logged in by CONNACK.
LogIn(c) ==
    /\ IsIn(c) /\ conns[c].at = "connected"
    /\ conns' = [conns EXCEPT ![c].at = "loggedIn", ![c].since = now, ![c].pinged = now]
    /\ checks' = IF conns[c].outgoing THEN checks ELSE checks \cup NextCheck(c, conns[c], TRUE)
    /\ UNCHANGED <<now, by_fd, fdHeld, nextCheck>>

\* removeClient: another client may have the descriptor by now.
RemoveClient(c) ==
    LET gone == {c} \ fdHeld IN
    /\ IsIn(c)
    /\ by_fd' = [by_fd EXCEPT ![conns[c].fd] = NoClient]
    /\ conns' = Destroy(gone, conns)
    /\ checks' = checks \ ChecksOf(gone)
    /\ UNCHANGED <<now, fdHeld, nextCheck>>

Hold(c) ==
    /\ IsIn(c) /\ c \notin fdHeld
    /\ fdHeld' = fdHeld \cup {c}
    /\ UNCHANGED <<now, conns, by_fd, checks, nextCheck>>

Release(c) ==
    LET gone == {c} \ Range(by_fd) IN
    /\ c \in fdHeld
    /\ fdHeld' = fdHeld \ {c}
    /\ conns' = Destroy(gone, conns)
    /\ checks' = checks \ ChecksOf(gone)
    /\ UNCHANGED <<now, by_fd, nextCheck>>

-----------------------------------------------------------------------------
(* doKeepAliveCheck: slots that are due, in the order of their time.          *)
Due == {k \in checks : k.at <= now}
DueClients == {k.client : k \in Due}
ToRemove == {c \in DueClients : keepAliveExpired(c)}
ToRecheck == {k.client : k \in {d \in Due : d.recheck}} \ ToRemove

\* Mutant: the second check is the last.
RecheckedOnce == UNION {NextCheck(c, conns[c], FALSE) : c \in ToRecheck}
Rechecked == UNION {NextCheck(c, conns[c], TRUE) : c \in ToRecheck}

\* writePing
Pinged(c) == c \in DueClients /\ conns[c].outgoing /\ conns[c].at = "loggedIn"

\* erase(c->getFd()): whoever is there.
FdsAfter == [f \in Fds |-> IF \E c \in ToRemove : conns[c].fd = f THEN NoClient ELSE by_fd[f]]

doKeepAliveCheck ==
    LET pinged == [c \in KaClients |->
                      IF Pinged(c) THEN [conns[c] EXCEPT !.pinged = now] ELSE conns[c]]
        gone == {c \in Range(by_fd) \ {NoClient} : c \notin Range(FdsAfter) \cup fdHeld}
    IN
    /\ nextCheck = now
    /\ nextCheck' = now + CheckInterval
    /\ by_fd' = FdsAfter
    /\ conns' = Destroy(gone, pinged)
    /\ checks' = {k \in (checks \ Due) \cup Rechecked : k.client \notin gone}
    /\ UNCHANGED <<now, fdHeld>>

Tick ==
    /\ now < nextCheck /\ now < MaxTime
    /\ now' = now + 1
    /\ UNCHANGED <<conns, by_fd, fdHeld, checks, nextCheck>>

KaNext ==
    \/ \E c \in KaClients :
          \/ \E fd \in Fds, outgoing \in BOOLEAN, k \in KeepAlives \cup {DefaultKeepAlive} :
                Accept(c, fd, outgoing, k)
          \/ Activity(c)
          \/ \E k \in KeepAlives : Connect(c, k)
          \/ LogIn(c)
          \/ RemoveClient(c)
          \/ Hold(c)
          \/ Release(c)
    \/ doKeepAliveCheck
    \/ Tick

KaSpec == KaInit /\ [][KaNext]_kaVars

-----------------------------------------------------------------------------
(* When a client may have been silent for longer than that it is removed: one *)
(* and a half times its keep-alive and what the checks add, counted from its   *)
(* last packet; a bridge is looked at once per keep-alive, and the first check *)
(* after the login is later                                                   *)
(* (client.cpp:646, 1177; threaddata.cpp:222, subscriptionstore.cpp:326).      *)
Latest(r) == r.lastActivity + OneAndAHalf(r.keepalive) + CheckInterval
                + (IF r.outgoing THEN r.keepalive ELSE MinDelay)

SilentIsRemoved ==
    \A c \in KaClients :
        IsIn(c) /\ conns[c].at = "loggedIn" /\ conns[c].keepalive # 0 =>
            \/ now <= Latest(conns[c])
            \/ now <= conns[c].since + UnauthDelay + CheckInterval

(* Also a client that has sent its CONNECT and was never let in (client.cpp:646:*)
(* "it MUST disconnect the Network Connection to the Client as if the network  *)
(* had failed").                                                             *)
LimboIsRemoved ==
    \A c \in KaClients :
        IsIn(c) /\ conns[c].at = "connected" /\ conns[c].keepalive # 0 =>
            \/ now <= Latest(conns[c])
            \/ now <= conns[c].since + UnauthDelay + CheckInterval

(* The check removes a client that was not silent, say because its descriptor *)
(* belonged to another one before: a step that no behaviour may take          *)
(* (threaddata.cpp:1299).                                                    *)
RemovesActive ==
    /\ doKeepAliveCheck
    /\ \E c \in KaClients :
          /\ IsIn(c) /\ by_fd'[conns[c].fd] # c
          /\ now <= conns[c].lastActivity + OneAndAHalf(conns[c].keepalive)

(* A bridge that is logged in sends a ping once per keep-alive                *)
(* (threaddata.cpp:1269).                                                    *)
BridgeIsPinged ==
    \A c \in KaClients :
        IsIn(c) /\ conns[c].outgoing /\ conns[c].at = "loggedIn" /\ conns[c].keepalive # 0 =>
            now <= conns[c].pinged + conns[c].keepalive + CheckInterval

(* Every connection is looked at in time, over logins, changes of the          *)
(* keep-alive and checks that move (threaddata.cpp:167, 1224).                 *)
ChecksAreKept == SilentIsRemoved /\ BridgeIsPinged

(* What a worker has to do later is done once and at its time: keep-alive      *)
(* checks and removals (threaddata.cpp:1224), tasks at once and delayed ones   *)
(* (threaddata.cpp:1196, queuedtasks.cpp:65).                                 *)
WorkIsKept == ChecksAreKept /\ TasksAreKept

(* The check removes nobody but clients that were silent, whatever descriptors     *)
(* were used again, and a delayed task that was erased is not performed, unless it *)
(* had been collected with the one that erased it (threaddata.cpp:1299;           *)
(* queuedtasks.cpp:73).                                                       *)
NothingStrayIsDone == [][~RemovesActive /\ ~PerformsErased]_<<kaVars, taskVars>>
=============================================================================
