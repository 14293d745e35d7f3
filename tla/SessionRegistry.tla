--------------------------- MODULE SessionRegistry ---------------------------
(* Who owns the session of a client id: SubscriptionStore's sessionsById,    *)
(* pendingWillMessages and queuedSessionRemovals, the fields of Session that *)
(* they depend on, and the wills of the clients.  All connections of the     *)
(* model use one client id; other ids have sessions of their own.            *)
(*                                                                           *)
(* A connection is its number.  A session is the number of the connection    *)
(* that made it, a will the number of the client that announced it; 0 is a   *)
(* null pointer.  A section under a lock is a step.  With SingleThread every *)
(* handler and task runs to its end before the next, as with one worker      *)
(* thread.  Time is in seconds.                                              *)
EXTENDS Integers, FiniteSets

CONSTANTS
    MaxConns,     \* bound: connections made with the client id
    MaxTime,      \* bound: seconds
    Profiles,     \* what clients ask for when they connect
    MaxInterval,  \* the longest expiry interval and will delay they ask for
    NewExpiries,  \* session expiry intervals that a DISCONNECT may carry
    SingleThread, \* one worker thread
    Takeover      \* a client may connect while its earlier connection is open

Conns == 1..MaxConns
NoWill == -1
Interval == 0..MaxInterval

ASSUME RegistryBounds ==
    MaxConns \in Nat /\ MaxTime \in Nat /\ MaxInterval \in Nat
    /\ SingleThread \in BOOLEAN /\ Takeover \in BOOLEAN
ASSUME RegistryInputs ==
    /\ Profiles \subseteq [version : {3, 5}, clean : BOOLEAN, expiry : Interval,
                           will : Interval \cup {NoWill}]
    /\ NewExpiries \subseteq Interval

VARIABLES
    now,
    \* class SubscriptionStore
    sessionsById,           \* the session of the client id, or 0
    pendingWillMessages,    \* records of a time, a will and a session: weak pointers
    queuedSessionRemovals,  \* records of a time and a session: weak pointers
    \* class Session
    client,                 \* the connection assigned last: a weak pointer
    willPublish,
    destroyOnDisconnect, sessionExpiryInterval, removalQueuedAt,  \* -1: removal not queued
    \* class Client
    stage, profile, present,
    connSession,            \* Client::session
    clientWill,             \* Client::willPublish is set
    \* sections between two locks
    due,                    \* the will that sendQueuedWillMessages is about to send
    toRemove,               \* sessions that removeExpiredSessionsClients collected
    removing,               \* sessions that removeSession took out of sessionsById
    removedWill,            \* the will that removeSession read from such a session
    \* history
    kicked,                 \* the broker decided to disconnect it
    left,                   \* it sent DISCONNECT with reason 0
    willsSent,              \* how often the will of each client was published
    lastUsed                \* when the last client of a session went away

store == <<sessionsById, pendingWillMessages, queuedSessionRemovals>>
session == <<client, willPublish, destroyOnDisconnect, sessionExpiryInterval, removalQueuedAt>>
clients == <<stage, profile, present, connSession, clientWill>>
tasks == <<due, toRemove, removing, removedWill>>
history == <<kicked, left, willsSent, lastUsed>>
vars == <<now, store, session, clients, tasks, history>>

-----------------------------------------------------------------------------
NothingDue == [will |-> 0, session |-> 0]
NoProfile == [version |-> 5, clean |-> FALSE, expiry |-> 0, will |-> NoWill]

\* The stages in which the object of class Client exists.
Exists(k) == stage[k] \in {"connecting", "registered", "assigned", "live", "leaving"}

HasActiveClient(s) == client[s] # 0 /\ Exists(client[s])

\* Strong pointers to a session: the registry, clients, their disconnect
\* actions, and tasks in progress.
SessionAlive(s) ==
    \/ sessionsById = s
    \/ \E k \in Conns : connSession[k] = s /\ (Exists(k) \/ stage[k] \in {"closed", "willdone"})
    \/ s \in toRemove \cup removing
    \/ due.session = s

\* Strong pointers to a will: its client, the disconnect actions of the
\* client, a session, and a task or a removal that is about to send it.
WillAlive(w) ==
    \/ clientWill[w]
    \/ \E s \in Conns : willPublish[s] = w /\ SessionAlive(s)
    \/ due.will = w
    \/ \E s \in Conns : removedWill[s] = w

\* Session::getCurrentSessionExpiryInterval() = 0
ExpireNow(s) ==
    \/ sessionExpiryInterval[s] = 0
    \/ /\ removalQueuedAt[s] >= 0 /\ ~HasActiveClient(s)
       /\ now - removalQueuedAt[s] >= sessionExpiryInterval[s]

GetDestroyOnDisconnect(s) == destroyOnDisconnect[s] \/ ExpireNow(s)

Busy ==
    \/ \E k \in Conns : stage[k] \in {"connecting", "registered", "assigned", "willdone"}
    \/ due # NothingDue \/ toRemove # {} \/ removing # {}

ThreadFree == SingleThread => ~Busy

\* Bound: what is queued late comes due before the last second.
InTime == now + MaxInterval <= MaxTime

-----------------------------------------------------------------------------
(* CONNECT                                                                   *)

\* handleConnect up to the call of the authentication: the session present
\* flag for the CONNACK, looked up in a critical section of its own.
HandleConnect(k) ==
    /\ stage[k] = "unused"
    /\ \A j \in Conns : j < k => IF Takeover THEN stage[j] # "unused" ELSE stage[j] = "gone"
    /\ InTime /\ ThreadFree
    /\ \E p \in Profiles :
          /\ profile' = [profile EXCEPT ![k] = p]
          /\ clientWill' = [clientWill EXCEPT ![k] = p.will # NoWill]
          /\ present' = [present EXCEPT ![k] =
                ~p.clean /\ sessionsById # 0 /\ ~GetDestroyOnDisconnect(sessionsById)]
    /\ stage' = [stage EXCEPT ![k] = "connecting"]
    /\ UNCHANGED <<now, store, session, connSession, tasks, history>>

\* Mutant: the client that has the session is left alone.
RegisterWithoutKick(k) ==
    LET old == sessionsById
        new == IF old = 0 \/ profile[k].clean \/ GetDestroyOnDisconnect(old) THEN k ELSE old
    IN  /\ stage[k] = "connecting"
        /\ sessionsById' = new
        /\ connSession' = [connSession EXCEPT ![k] = new]
        /\ stage' = [stage EXCEPT ![k] = "registered"]
        /\ UNCHANGED <<now, pendingWillMessages, queuedSessionRemovals, session, profile,
                       present, clientWill, tasks, history>>

\* registerClientAndKickExistingOne: under sessions_lock the client that has
\* the session is told to go, and the session is taken up or replaced.
RegisterClientAndKickExistingOne(k) ==
    LET old == sessionsById
        new == IF old = 0 \/ profile[k].clean \/ GetDestroyOnDisconnect(old) THEN k ELSE old
    IN  /\ stage[k] = "connecting"
        /\ sessionsById' = new
        /\ kicked' = IF old # 0 /\ HasActiveClient(old)
                     THEN [kicked EXCEPT ![client[old]] = TRUE]
                     ELSE kicked
        /\ connSession' = [connSession EXCEPT ![k] = new]
        /\ stage' = [stage EXCEPT ![k] = "registered"]
        /\ UNCHANGED <<now, pendingWillMessages, queuedSessionRemovals, session, profile,
                       present, clientWill, tasks, left, willsSent, lastUsed>>

\* Mutant: the session keeps the will it had.
AssignKeepsWill(k) ==
    LET s == connSession[k]
    IN  /\ stage[k] = "registered"
        /\ \A j \in Conns : stage[j] = "assigned" => connSession[j] # s
        /\ client' = [client EXCEPT ![s] = k]
        /\ willPublish' = [willPublish EXCEPT ![s] = IF @ # 0 THEN @ ELSE IF clientWill[k] THEN k ELSE 0]
        /\ removalQueuedAt' = [removalQueuedAt EXCEPT ![s] = -1]
        /\ stage' = [stage EXCEPT ![k] = "assigned"]
        /\ UNCHANGED <<now, store, destroyOnDisconnect, sessionExpiryInterval, profile,
                       present, connSession, clientWill, tasks, history>>

\* The first part of Session::assignActiveConnection, under clientSwitchMutex,
\* which is held until the session has its properties.
AssignActiveConnection(k) ==
    LET s == connSession[k]
    IN  /\ stage[k] = "registered"
        /\ \A j \in Conns : stage[j] = "assigned" => connSession[j] # s
        /\ client' = [client EXCEPT ![s] = k]
        /\ willPublish' = [willPublish EXCEPT ![s] = IF clientWill[k] THEN k ELSE 0]
        /\ removalQueuedAt' = [removalQueuedAt EXCEPT ![s] = -1]
        /\ stage' = [stage EXCEPT ![k] = "assigned"]
        /\ UNCHANGED <<now, store, destroyOnDisconnect, sessionExpiryInterval, profile, present,
                       connSession, clientWill, tasks, history>>

\* Session::setSessionProperties
SetSessionProperties(k) ==
    LET s == connSession[k]
        p == profile[k]
    IN  /\ stage[k] = "assigned"
        /\ sessionExpiryInterval' = [sessionExpiryInterval EXCEPT ![s] = p.expiry]
        /\ destroyOnDisconnect' =
              [destroyOnDisconnect EXCEPT ![s] = IF p.version = 3 THEN p.clean ELSE p.expiry = 0]
        /\ stage' = [stage EXCEPT ![k] = "live"]
        /\ UNCHANGED <<now, store, client, willPublish, removalQueuedAt, profile, present,
                       connSession, clientWill, tasks, history>>

-----------------------------------------------------------------------------
(* A connection ends                                                         *)

\* Mutant: DISCONNECT leaves the will of the client.
HandleDisconnectKeepWill(k) ==
    LET s == connSession[k]
    IN  /\ stage[k] = "live"
        /\ InTime /\ ThreadFree
        /\ willPublish' = [willPublish EXCEPT ![s] = 0]
        /\ left' = [left EXCEPT ![k] = TRUE]
        /\ stage' = [stage EXCEPT ![k] = "leaving"]
        /\ UNCHANGED <<now, store, client, destroyOnDisconnect, sessionExpiryInterval,
                       removalQueuedAt, profile, present, connSession, clientWill, tasks,
                       kicked, willsSent, lastUsed>>

\* handleDisconnect with reason 0: a new expiry interval, which must not turn
\* 0 into another, and Client::clearWill.
HandleDisconnect(k) ==
    LET s == connSession[k]
    IN  /\ stage[k] = "live"
        /\ InTime /\ ThreadFree
        /\ \/ UNCHANGED <<sessionExpiryInterval, destroyOnDisconnect>>
           \/ \E e \in NewExpiries :
                 /\ sessionExpiryInterval[s] = 0 => e = 0
                 /\ sessionExpiryInterval' = [sessionExpiryInterval EXCEPT ![s] = e]
                 /\ destroyOnDisconnect' = [destroyOnDisconnect EXCEPT ![s] = e = 0]
        /\ clientWill' = [clientWill EXCEPT ![k] = FALSE]
        /\ willPublish' = [willPublish EXCEPT ![s] = 0]
        /\ left' = [left EXCEPT ![k] = TRUE]
        /\ stage' = [stage EXCEPT ![k] = "leaving"]
        /\ UNCHANGED <<now, store, client, removalQueuedAt, profile, present, connSession,
                       tasks, kicked, willsSent, lastUsed>>

\* The socket broke, or the client is leaving or was kicked: its thread drops
\* it from its list and ~Client queues the disconnect actions.
Close(k) ==
    /\ stage[k] \in {"live", "leaving"}
    /\ InTime \/ kicked[k] \/ stage[k] = "leaving"
    /\ ThreadFree
    /\ stage' = [stage EXCEPT ![k] = "closed"]
    /\ lastUsed' = IF client[connSession[k]] = k
                   THEN [lastUsed EXCEPT ![connSession[k]] = now]
                   ELSE lastUsed
    /\ UNCHANGED <<now, store, session, profile, present, connSession, clientWill, tasks,
                   kicked, left, willsSent>>

\* SubscriptionStore::sendWill
SendWill(w, s) ==
    /\ willPublish' = [willPublish EXCEPT ![s] = 0]
    /\ willsSent' = [willsSent EXCEPT ![w] = @ + 1]

\* clientDisconnectActions, its first half: queueOrSendWillMessage.  A delayed
\* will waits for pendingWillsMutex while the timer sends one.
DisconnectWill(k) ==
    /\ stage[k] = "closed"
    /\ ThreadFree
    /\ \/ /\ ~clientWill[k]
          /\ UNCHANGED <<pendingWillMessages, willPublish, willsSent>>
       \/ /\ clientWill[k] /\ profile[k].will > 0 /\ due = NothingDue
          /\ pendingWillMessages' = pendingWillMessages \cup
                {[at |-> now + profile[k].will, will |-> k, session |-> connSession[k]]}
          /\ UNCHANGED <<willPublish, willsSent>>
       \/ /\ clientWill[k] /\ profile[k].will = 0
          /\ SendWill(k, connSession[k])
          /\ UNCHANGED pendingWillMessages
    /\ stage' = [stage EXCEPT ![k] = "willdone"]
    /\ UNCHANGED <<now, sessionsById, queuedSessionRemovals, client, destroyOnDisconnect,
                   sessionExpiryInterval, removalQueuedAt, profile, present, connSession,
                   clientWill, tasks, kicked, left, lastUsed>>

\* removeSession, its critical section: only if the registry has this object.
RemoveSession(s) ==
    IF sessionsById = s
    THEN sessionsById' = 0 /\ removing' = removing \cup {s}
    ELSE UNCHANGED <<sessionsById, removing>>

\* Mutant: the removal of a session that outlives its client is not queued.
DisconnectSessionForget(k) ==
    LET s == connSession[k]
    IN  /\ stage[k] = "willdone"
        /\ IF GetDestroyOnDisconnect(s)
           THEN RemoveSession(s)
           ELSE UNCHANGED <<sessionsById, removing>>
        /\ clientWill' = [clientWill EXCEPT ![k] = FALSE]
        /\ stage' = [stage EXCEPT ![k] = "gone"]
        /\ UNCHANGED <<now, pendingWillMessages, queuedSessionRemovals, session, profile,
                       present, connSession, due, toRemove, removedWill, history>>

\* Mutant: the session is due for removal at once.
DisconnectSessionNow(k) ==
    LET s == connSession[k]
    IN  /\ stage[k] = "willdone"
        /\ IF GetDestroyOnDisconnect(s)
           THEN /\ RemoveSession(s)
                /\ UNCHANGED <<removalQueuedAt, queuedSessionRemovals>>
           ELSE /\ removalQueuedAt' = [removalQueuedAt EXCEPT ![s] = now]
                /\ queuedSessionRemovals' = queuedSessionRemovals \cup
                      {[at |-> now, session |-> s]}
                /\ UNCHANGED <<sessionsById, removing>>
        /\ clientWill' = [clientWill EXCEPT ![k] = FALSE]
        /\ stage' = [stage EXCEPT ![k] = "gone"]
        /\ UNCHANGED <<now, pendingWillMessages, client, willPublish, destroyOnDisconnect,
                       sessionExpiryInterval, profile, present, connSession, due, toRemove,
                       removedWill, history>>

\* The second half: removeSession or queueSessionRemoval.
DisconnectSession(k) ==
    LET s == connSession[k]
    IN  /\ stage[k] = "willdone"
        /\ IF GetDestroyOnDisconnect(s)
           THEN /\ RemoveSession(s)
                /\ UNCHANGED <<removalQueuedAt, queuedSessionRemovals>>
           ELSE /\ removalQueuedAt' = [removalQueuedAt EXCEPT ![s] = now]
                /\ queuedSessionRemovals' = queuedSessionRemovals \cup
                      {[at |-> now + sessionExpiryInterval[s], session |-> s]}
                /\ UNCHANGED <<sessionsById, removing>>
        /\ clientWill' = [clientWill EXCEPT ![k] = FALSE]
        /\ stage' = [stage EXCEPT ![k] = "gone"]
        /\ UNCHANGED <<now, pendingWillMessages, client, willPublish, destroyOnDisconnect,
                       sessionExpiryInterval, profile, present, connSession, due, toRemove,
                       removedWill, history>>

\* removeSession after its critical section, with no lock held: the will of
\* the session is read, and removeSession is done when there is none ...
ReadWillOfRemoved(s) ==
    /\ s \in removing /\ removedWill[s] = 0
    /\ removedWill' = [removedWill EXCEPT ![s] = willPublish[s]]
    /\ removing' = IF willPublish[s] = 0 THEN removing \ {s} ELSE removing
    /\ UNCHANGED <<now, store, session, clients, due, toRemove, history>>

\* Mutant: the delayed will of a removed session is forgotten.
SendWillOfRemovedForgets(s) ==
    /\ s \in removing /\ removedWill[s] # 0
    /\ removedWill' = [removedWill EXCEPT ![s] = 0]
    /\ removing' = removing \ {s}
    /\ UNCHANGED <<now, store, session, clients, due, toRemove, history>>

\* ... and then it is sent at once, also a delayed one, whatever has become of
\* the session meanwhile.
SendWillOfRemoved(s) ==
    /\ s \in removing /\ removedWill[s] # 0
    /\ SendWill(removedWill[s], s)
    /\ removedWill' = [removedWill EXCEPT ![s] = 0]
    /\ removing' = removing \ {s}
    /\ UNCHANGED <<now, store, client, destroyOnDisconnect, sessionExpiryInterval,
                   removalQueuedAt, clients, due, toRemove, kicked, left, lastUsed>>

-----------------------------------------------------------------------------
(* Timed tasks                                                               *)

\* What sendQueuedWillMessages asks of a queued will before it sends it.
WillStillWanted(p) ==
    WillAlive(p.will) /\ SessionAlive(p.session) /\ ~HasActiveClient(p.session)

\* sendQueuedWillMessages, one entry whose time has come.
PickDueWill ==
    /\ due = NothingDue
    /\ ThreadFree
    /\ \E p \in pendingWillMessages :
          /\ p.at <= now
          /\ pendingWillMessages' = pendingWillMessages \ {p}
          /\ due' = IF WillStillWanted(p) THEN [will |-> p.will, session |-> p.session]
                    ELSE NothingDue
    /\ UNCHANGED <<now, sessionsById, queuedSessionRemovals, session, clients, toRemove,
                   removing, removedWill, history>>

SendDueWill ==
    /\ due # NothingDue
    /\ SendWill(due.will, due.session)
    /\ due' = NothingDue
    /\ UNCHANGED <<now, store, client, destroyOnDisconnect, sessionExpiryInterval,
                   removalQueuedAt, clients, toRemove, removing, removedWill, kicked, left,
                   lastUsed>>

\* What removeExpiredSessionsClients asks of a session whose time has come.
MayRemove(s) == SessionAlive(s) /\ ~HasActiveClient(s)

\* removeExpiredSessionsClients, under queuedSessionRemovalsMutex ...
CollectExpired ==
    /\ toRemove = {}
    /\ ThreadFree
    /\ \E q \in queuedSessionRemovals : q.at <= now
    /\ queuedSessionRemovals' = {q \in queuedSessionRemovals : q.at > now}
    /\ toRemove' = {s \in Conns : MayRemove(s) /\
                       \E q \in queuedSessionRemovals : q.at <= now /\ q.session = s}
    /\ UNCHANGED <<now, sessionsById, pendingWillMessages, session, clients, due, removing,
                   removedWill, history>>

\* ... and after it, each session it collected.
RemoveExpired(s) ==
    /\ s \in toRemove
    /\ toRemove' = toRemove \ {s}
    /\ RemoveSession(s)
    /\ UNCHANGED <<now, pendingWillMessages, queuedSessionRemovals, session, clients, due,
                   removedWill, history>>

\* Nothing of a handler, a kick or a disconnect is left to do.
Settled ==
    /\ ~Busy
    /\ \A k \in Conns : stage[k] \in {"unused", "live", "gone"}
    /\ \A k \in Conns : stage[k] = "live" => ~kicked[k]

\* Bound: the last seconds are for what is queued.
Tick ==
    /\ now < MaxTime
    /\ ThreadFree
    /\ now + MaxInterval < MaxTime \/ Settled
    /\ now' = now + 1
    /\ UNCHANGED <<store, session, clients, tasks, history>>

-----------------------------------------------------------------------------
Init ==
    /\ now = 0
    /\ sessionsById = 0 /\ pendingWillMessages = {} /\ queuedSessionRemovals = {}
    /\ client = [s \in Conns |-> 0] /\ willPublish = [s \in Conns |-> 0]
    /\ destroyOnDisconnect = [s \in Conns |-> FALSE]
    /\ sessionExpiryInterval = [s \in Conns |-> MaxInterval]
    /\ removalQueuedAt = [s \in Conns |-> -1]
    /\ stage = [k \in Conns |-> "unused"]
    /\ profile = [k \in Conns |-> NoProfile]
    /\ present = [k \in Conns |-> FALSE]
    /\ connSession = [k \in Conns |-> 0] /\ clientWill = [k \in Conns |-> FALSE]
    /\ due = NothingDue /\ toRemove = {} /\ removing = {}
    /\ removedWill = [s \in Conns |-> 0]
    /\ kicked = [k \in Conns |-> FALSE] /\ left = [k \in Conns |-> FALSE]
    /\ willsSent = [k \in Conns |-> 0] /\ lastUsed = [s \in Conns |-> 0]

ConnectStep(k) ==
    \/ RegisterClientAndKickExistingOne(k)
    \/ AssignActiveConnection(k)
    \/ SetSessionProperties(k)

DisconnectStep(k) == DisconnectWill(k) \/ DisconnectSession(k)

WillTimer == PickDueWill \/ SendDueWill

\* The rest of removeSession.
FinishRemoval(s) == ReadWillOfRemoved(s) \/ SendWillOfRemoved(s)

RemovalTimer == CollectExpired \/ \E s \in Conns : RemoveExpired(s)

\* Everything the bounds allow has happened.
Finished ==
    /\ now = MaxTime /\ Settled
    /\ ~\E p \in pendingWillMessages : p.at <= now
    /\ ~\E q \in queuedSessionRemovals : q.at <= now
    /\ UNCHANGED vars

Next ==
    \/ \E k \in Conns :
          HandleConnect(k) \/ ConnectStep(k) \/ HandleDisconnect(k) \/ Close(k)
             \/ DisconnectStep(k)
    \/ \E s \in Conns : FinishRemoval(s)
    \/ WillTimer
    \/ RemovalTimer
    \/ Tick
    \/ Finished

Spec == Init /\ [][Next]_vars

\* Worker threads carry out handlers and tasks, the timers of the main thread
\* fire, and a client that was told to go is removed in the end.
Fairness ==
    /\ \A k \in Conns :
          /\ WF_vars(ConnectStep(k)) /\ WF_vars(DisconnectStep(k))
          /\ WF_vars(Close(k) /\ (kicked[k] \/ stage[k] = "leaving"))
    /\ \A s \in Conns : WF_vars(FinishRemoval(s))
    /\ WF_vars(WillTimer) /\ WF_vars(RemovalTimer) /\ WF_vars(Tick)

FairSpec == Spec /\ Fairness

-----------------------------------------------------------------------------
StoreType ==
    /\ sessionsById \in 0..MaxConns
    /\ pendingWillMessages \subseteq [at : 0..MaxTime, will : Conns, session : Conns]
    /\ queuedSessionRemovals \subseteq [at : 0..MaxTime, session : Conns]

SessionType ==
    /\ client \in [Conns -> 0..MaxConns] /\ willPublish \in [Conns -> 0..MaxConns]
    /\ destroyOnDisconnect \in [Conns -> BOOLEAN]
    /\ sessionExpiryInterval \in [Conns -> Interval]
    /\ removalQueuedAt \in [Conns -> -1..MaxTime]

ClientsType ==
    /\ stage \in [Conns -> {"unused", "connecting", "registered", "assigned", "live",
                            "leaving", "closed", "willdone", "gone"}]
    /\ profile \in [Conns -> Profiles \cup {NoProfile}]
    /\ present \in [Conns -> BOOLEAN]
    /\ connSession \in [Conns -> 0..MaxConns] /\ clientWill \in [Conns -> BOOLEAN]

TasksType ==
    /\ due \in [will : 0..MaxConns, session : 0..MaxConns]
    /\ toRemove \subseteq Conns /\ removing \subseteq Conns
    /\ removedWill \in [Conns -> 0..MaxConns]

HistoryType ==
    /\ kicked \in [Conns -> BOOLEAN] /\ left \in [Conns -> BOOLEAN]
    /\ willsSent \in [Conns -> Nat] /\ lastUsed \in [Conns -> 0..MaxTime]

(* Every variable has its type.  In particular nothing is queued for a time  *)
(* behind the last second, where it would never come due.                    *)
TypeOK ==
    /\ now \in 0..MaxTime
    /\ StoreType /\ SessionType /\ ClientsType /\ TasksType /\ HistoryType

\* A client that is connected and was not told to go.
Current(k) == stage[k] = "live" /\ ~kicked[k]

(* Two clients with the same id are never both connected for good: the       *)
(* second one kicks the first (subscriptionstore.cpp:323, MQTT-3.1.4-2).     *)
OneClientPerId == \A j, k \in Conns : Current(j) /\ Current(k) => j = k

(* The session of a connected client is the one in the registry, so that the *)
(* next connection with its id finds it, kicks it and resumes it             *)
(* (subscriptionstore.cpp:1243, "if it matches the object").   *)
CurrentSessionIsRegistered == \A k \in Conns : Current(k) => sessionsById = connSession[k]

\* No other connection had the session of k.
SoleUser(k) == \A j \in Conns \ {k} : connSession[j] # connSession[k]

(* A session that only one connection ever had leaves the registry for       *)
(* expiry only after a whole interval without a client                       *)
(* (subscriptionstore.cpp:1311).  A session that was resumed does not have   *)
(* that: an entry queued at an earlier disconnect removes it.                *)
NotExpiredEarly ==
    [][\A s \in Conns :
          SoleUser(s) /\ sessionsById = s /\ sessionsById' = 0 /\ ~destroyOnDisconnect[s]
             => now - lastUsed[s] >= sessionExpiryInterval[s]]_vars

(* The CONNACK said "session present" to exactly the clients that got the    *)
(* session of an earlier connection, although handleConnect looks the        *)
(* session up before registerClientAndKickExistingOne decides                *)
(* (mqttpacket.cpp:1279).                                                    *)
SessionPresentIsTrue ==
    \A k \in Conns : Current(k) => (present[k] <=> connSession[k] # k)

(* The will of a client whose session nobody resumes is published at most    *)
(* once, although its client, its session and the queue of delayed wills all *)
(* lead to it (subscriptionstore.cpp:398 "Avoid sending two immediate        *)
(* wills").                                                                  *)
WillAtMostOnce == \A k \in Conns : SoleUser(k) => willsSent[k] <= 1

(* With the handlers of one thread in turn, the registry keeps one client, its *)
(* session and its will together (subscriptionstore.cpp:310-372, 1236).       *)
RegistryIsSound ==
    /\ TypeOK
    /\ OneClientPerId
    /\ CurrentSessionIsRegistered
    /\ SessionPresentIsTrue
    /\ WillAtMostOnce

\* A removal holds the will of k: it read it from the session it removes.
HeldByRemoval(k) == \E s \in Conns : removedWill[s] = k

(* Whatever the threads do: when a client has sent DISCONNECT with reason 0, *)
(* nothing takes up its will any more.  If it is published after that, then  *)
(* by a removeSession that had read it before (subscriptionstore.cpp:1263    *)
(* and 1266, with no lock between them).                                     *)
NoWillAfterDisconnect ==
    [][\A k \in Conns : left[k] =>
          /\ willsSent'[k] > willsSent[k] => HeldByRemoval(k)
          /\ HeldByRemoval(k)' => HeldByRemoval(k)]_vars

\* A later connection picked up the session of k: it was assigned to it.
Resumed(k) ==
    \E j \in Conns : j > k /\ connSession[j] = connSession[k] /\ stage[j] # "registered"

(* The session of a connected client holds the will of that client, so that  *)
(* its delayed will survives it (the queue has weak pointers,                *)
(* subscriptionstore.cpp:482-487).                                           *)
SessionKeepsItsWill ==
    \A k \in Conns : Current(k) /\ clientWill[k] => willPublish[connSession[k]] = k

(* No will is sent after its client sent DISCONNECT with reason 0, and no    *)
(* delayed will after a new connection resumed the session before its time   *)
(* (subscriptionstore.cpp:434, MQTT-3.1.3-9; client.cpp:1217).               *)
NoUnwantedWill ==
    [][\A k \in Conns :
          willsSent'[k] > willsSent[k] =>
             /\ ~left[k]
             /\ profile[k].will > 0 => ~Resumed(k)]_vars

(* The will of a client whose connection ended without DISCONNECT comes out, *)
(* unless it has a delay and the session was resumed: at once, when the      *)
(* delay is over, or when the session ends (willtests.cpp:158, 256).         *)
WillComesOut ==
    \A k \in Conns :
        stage[k] = "closed" /\ ~left[k] /\ profile[k].will # NoWill
            ~> willsSent[k] > 0 \/ (profile[k].will > 0 /\ Resumed(k))

(* The same for a client that is not followed by another with its id.        *)
LastWillComesOut ==
    \A k \in Conns :
        stage[k] = "closed" /\ ~left[k] /\ profile[k].will # NoWill
            ~> \/ willsSent[k] > 0
               \/ profile[k].will > 0 /\ \E j \in Conns : j > k /\ stage[j] # "unused"

(* A session without a client does not stay: it is resumed, replaced or      *)
(* removed in the end (subscriptionstore.cpp:1449).                          *)
SessionEnds ==
    \A s \in Conns :
        sessionsById = s /\ ~HasActiveClient(s) ~> sessionsById # s \/ HasActiveClient(s)
=============================================================================
