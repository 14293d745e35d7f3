----------------------------- MODULE ClientLogin -----------------------------
(* How a client logs in (mqttpacket.cpp:575-641, 1154-1354, 1538-1683;        *)
(* threaddata.cpp:194-250, 388-418; threadloop.cpp:107-292; client.cpp:778,    *)
(* 1113, 1217, 1310-1350): one connection, the loop of its thread, and a      *)
(* plugin that may answer later, from another thread.  Packets that come      *)
(* while the plugin is busy are kept and handled after its answer.            *)
(*                                                                           *)
(* Left out: what a CONNECT may not contain, certificates, the session that   *)
(* is picked up (SessionRegistry), TLS.                                       *)
EXTENDS Integers, Sequences, FiniteSets, SequencesExt

CONSTANTS
    LoginConfigs,   \* [extended, will, willAllowed, mqtt5 : BOOLEAN]
    MaxLoginSends,  \* bound on the packets of the device
    MaxAuthCalls,   \* bound on the calls of the plugin
    MaxDeferred,    \* 64: packets kept before one more is an error
    MaxDropped      \* 200: packets dropped before the login

ASSUME LoginConfigsAssumption ==
    LoginConfigs \subseteq [extended : BOOLEAN, will : BOOLEAN, willAllowed : BOOLEAN,
                            mqtt5 : BOOLEAN]
ASSUME LoginBoundsAssumption == {MaxLoginSends, MaxAuthCalls, MaxDeferred, MaxDropped} \subseteq Nat

VARIABLES
    lconf,              \* one of LoginConfigs
    device,             \* what the device has sent, and what is not read
    login,              \* the fields of Client that the login is about
    afterAsync,         \* packetQueueAfterAsync
    asyncAuthResult,    \* the stored result, or "none"
    loginTasks,         \* the task queue of the thread
    calls,              \* calls of the plugin: made, and not answered
    ready,              \* what the loop is doing with the client
    loginOut,           \* packets written to the client
    flushed,            \* how many of them its socket has taken
    epollForOut,        \* does epoll wait for EPOLLOUT?
    handledApp,         \* packets handled after the login, in order
    willPublished       \* was the will published?

loginVars == <<lconf, device, login, afterAsync, asyncAuthResult, loginTasks, calls, ready,
               loginOut, flushed, epollForOut, handledApp, willPublished>>

-----------------------------------------------------------------------------
Kinds == {"CONNECT", "AUTH", "APP", "DISCONNECT"}
Results == {"success", "auth_continue", "login_denied"}
Waiting == [at |-> "epoll"]

LoginTypeOK ==
    /\ lconf \in LoginConfigs
    /\ device.sent \in 0..(MaxLoginSends + MaxAuthCalls)
    /\ device.unread \in Seq([kind : Kinds, n : 1..(MaxLoginSends + MaxAuthCalls)])
    /\ login \in [stage : {"NotInitiated", "SendPendingAppData", "Now"},
                  connectSeen : BOOLEAN, authenticated : BOOLEAN, asyncAuthenticating : BOOLEAN,
                  method : BOOLEAN, stagedWill : BOOLEAN, will : BOOLEAN, dropped : 0..MaxDropped + 1,
                  registered : BOOLEAN, removed : BOOLEAN]
    /\ asyncAuthResult \in Results \cup {"none"}
    /\ loginTasks \in Seq(Results \cup {"remove"})
    /\ calls.made \in 0..MaxAuthCalls /\ calls.open \in 0..calls.made
    /\ flushed \in 0..Len(loginOut)

LoginInit ==
    /\ lconf \in LoginConfigs
    /\ device = [sent |-> 0, auths |-> 0, unread |-> <<>>]
    /\ login = [stage |-> "NotInitiated", connectSeen |-> FALSE, authenticated |-> FALSE,
                asyncAuthenticating |-> FALSE, method |-> FALSE, stagedWill |-> FALSE,
                will |-> FALSE, dropped |-> 0, registered |-> FALSE, removed |-> FALSE]
    /\ afterAsync = <<>> /\ asyncAuthResult = "none"
    /\ loginTasks = <<>>
    /\ calls = [made |-> 0, open |-> 0]
    /\ ready = Waiting
    /\ loginOut = <<>> /\ flushed = 0 /\ epollForOut = FALSE
    /\ handledApp = <<>> /\ willPublished = FALSE

-----------------------------------------------------------------------------
(* The device.                                                               *)


DeviceSendsKind(kind) ==
    /\ device' = [sent |-> device.sent + 1, auths |-> device.auths + (IF kind = "AUTH" THEN 1 ELSE 0),
                  unread |-> Append(device.unread, [kind |-> kind, n |-> device.sent + 1])]
    /\ UNCHANGED <<lconf, login, afterAsync, asyncAuthResult, loginTasks, calls, ready, loginOut,
                   flushed, epollForOut, handledApp, willPublished>>

\* It sends what it likes, as long as it is connected.
DeviceSends ==
    /\ device.sent < MaxLoginSends /\ ~login.removed
    /\ \E kind \in Kinds : DeviceSendsKind(kind)

\* It answers an AUTH that it has received with one.
DeviceAnswers ==
    /\ device.sent < MaxLoginSends + MaxAuthCalls /\ ~login.removed
    /\ device.auths < Cardinality({i \in 1..flushed : loginOut[i] = "AUTH continue"})
    /\ DeviceSendsKind("AUTH")

-----------------------------------------------------------------------------
(* The plugin answers from its own thread: queueContinuationOfAuthentication.*)
PluginAnswers(r) ==
    /\ calls.open > 0
    /\ r = "auth_continue" => lconf.extended
    /\ calls' = [calls EXCEPT !.open = @ - 1]
    /\ loginTasks' = Append(loginTasks, r)
    /\ UNCHANGED <<lconf, device, login, afterAsync, asyncAuthResult, ready, loginOut, flushed,
                   epollForOut, handledApp, willPublished>>

-----------------------------------------------------------------------------
(* The loop: what epoll reports is put together while tasks are performed.    *)

\* setReadyForWriting(true)
Arm(stage) == epollForOut' = (epollForOut \/ stage # "Now")

setAsyncAuthResult(r) ==
    /\ asyncAuthResult' = r
    /\ Arm(login.stage)

\* removeClient, and the last reference goes: the destructor queues the will.
RemovedLogin(l) == [l EXCEPT !.stage = "Now", !.removed = TRUE, !.will = FALSE]

\* performAllImmediateTasks, task by task.
PerformTask ==
    /\ ready.at \in {"epoll", "result"} /\ loginTasks # <<>>
    /\ loginTasks' = Tail(loginTasks)
    /\ IF Head(loginTasks) = "remove"
       THEN /\ login' = RemovedLogin(login)
            /\ willPublished' = (willPublished \/ login.will)
            /\ UNCHANGED <<asyncAuthResult, epollForOut>>
       ELSE /\ setAsyncAuthResult(Head(loginTasks))
            /\ UNCHANGED <<login, willPublished>>
    /\ UNCHANGED <<lconf, device, afterAsync, calls, ready, loginOut, flushed, handledApp>>

\* An event of the client: packets to read, room to write, or both.
ClientReady ==
    /\ ready.at = "epoll" /\ ~login.removed
    /\ \E in, out \in BOOLEAN :
          /\ in \/ out
          /\ in => device.unread # <<>> /\ login.stage # "Now"
          /\ out => epollForOut
          /\ ready' = [at |-> "result", in |-> in, out |-> out, batch |-> <<>>]
    /\ UNCHANGED <<lconf, device, login, afterAsync, asyncAuthResult, loginTasks, calls, loginOut,
                   flushed, epollForOut, handledApp, willPublished>>

-----------------------------------------------------------------------------
(* The handlers.  Client is the record l; each writes what is given.          *)
Write(packets, stage) ==
    /\ loginOut' = loginOut \o packets
    /\ IF packets = <<>> THEN UNCHANGED epollForOut ELSE Arm(stage)

\* handleAfterAsyncQueue; a client that is going away handles nothing.
AfterAsync(l) == IF l.stage = "NotInitiated" THEN afterAsync ELSE <<>>
LoggedIn(l) ==
    [l EXCEPT !.authenticated = TRUE, !.registered = TRUE,
              !.will = l.stagedWill /\ lconf.willAllowed,
              !.stagedWill = l.stagedWill /\ ~lconf.willAllowed]

\* Mutant: what came meanwhile is left for later.
SucceedWithoutQueue(l) ==
    /\ login' = LoggedIn(l)
    /\ Write(<<"CONNACK success">>, l.stage)
    /\ UNCHANGED <<handledApp, afterAsync>>

\* The first success: the will if the ACL allows it, registering, CONNACK, and
\* then the packets that came meanwhile.
Succeed(l) ==
    /\ login' = [LoggedIn(l) EXCEPT !.asyncAuthenticating = FALSE]
    /\ Write(<<"CONNACK success">>, l.stage)
    /\ IF l.asyncAuthenticating
       THEN /\ handledApp' = handledApp \o AfterAsync(l)
            /\ afterAsync' = <<>>
       ELSE UNCHANGED <<handledApp, afterAsync>>

EndLogin(l) ==
    /\ login' = [l EXCEPT !.stage = IF @ = "Now" THEN @ ELSE "SendPendingAppData"]
    /\ Write(<<IF l.authenticated THEN "DISCONNECT" ELSE "CONNACK deny">>, l.stage)
    /\ UNCHANGED <<handledApp, afterAsync>>

continuationOfAuthentication(l, r) ==
    \/ /\ r = "auth_continue" \/ (r = "success" /\ l.authenticated)
       /\ login' = l
       /\ Write(<<IF r = "success" THEN "AUTH success" ELSE "AUTH continue">>, l.stage)
       /\ UNCHANGED <<handledApp, afterAsync>>
    \/ r = "success" /\ ~l.authenticated /\ Succeed(l)
    \/ r = "login_denied" /\ EndLogin(l)

\* The stored result is taken before anything is read.
TakeResult ==
    /\ ready.at = "result"
    /\ ready' = [ready EXCEPT !.at = "packets",
                              !.batch = IF ready.in THEN device.unread ELSE <<>>]
    /\ device' = IF ready.in THEN [device EXCEPT !.unread = <<>>] ELSE device
    /\ IF ready.out /\ asyncAuthResult # "none"
       THEN /\ continuationOfAuthentication(login, asyncAuthResult)
            /\ asyncAuthResult' = "none"
       ELSE UNCHANGED <<asyncAuthResult, login, afterAsync, loginOut, epollForOut, handledApp>>
    /\ UNCHANGED <<lconf, loginTasks, calls, flushed, willPublished>>

-----------------------------------------------------------------------------
(* Packets of one event, one after the other.                                *)
NextPacketIs(kind) ==
    /\ ready.at = "packets" /\ ready.batch # <<>> /\ Head(ready.batch).kind = kind
    /\ UNCHANGED <<lconf, device, asyncAuthResult, flushed>>
Handled ==
    /\ ready' = [ready EXCEPT !.batch = Tail(@)]
    /\ UNCHANGED willPublished
Active == login.stage = "NotInitiated"

\* The loop catches the exception: the other packets are forgotten.
ThrowProtocolError ==
    /\ ready' = Waiting
    /\ IF ~login.authenticated \/ lconf.mqtt5
       THEN /\ EndLogin(login)
            /\ UNCHANGED willPublished
       ELSE /\ login' = RemovedLogin(login)
            /\ willPublished' = (willPublished \/ login.will)
            /\ UNCHANGED <<loginOut, epollForOut, handledApp, afterAsync>>
    /\ UNCHANGED <<loginTasks, calls>>

\* loginCheck or extendedAuth: the plugin answers at once, or later.
AskPlugin(l) ==
    \/ /\ calls.made < MaxAuthCalls
       /\ calls' = [made |-> calls.made + 1, open |-> calls.open + 1]
       /\ login' = [l EXCEPT !.asyncAuthenticating = TRUE]
       /\ UNCHANGED <<loginOut, epollForOut, handledApp, afterAsync>>
    \/ /\ lconf.extended /\ calls.made < MaxAuthCalls
       /\ calls' = [calls EXCEPT !.made = @ + 1]
       /\ continuationOfAuthentication(l, "auth_continue")
    \/ /\ UNCHANGED calls
       /\ \E r \in {"success", "login_denied"} : continuationOfAuthentication(l, r)

\* A stale client: what is left in its buffer is not handled.
HandleNothing ==
    /\ \E kind \in Kinds : NextPacketIs(kind)
    /\ ~Active
    /\ Handled
    /\ UNCHANGED <<login, afterAsync, loginTasks, calls, loginOut, epollForOut, handledApp>>

ConnectedLogin ==
    [login EXCEPT !.connectSeen = TRUE, !.method = lconf.extended, !.stagedWill = lconf.will]

HandleConnect ==
    /\ NextPacketIs("CONNECT") /\ Active
    /\ IF login.connectSeen
       THEN ThrowProtocolError
       ELSE /\ AskPlugin(ConnectedLogin)
            /\ Handled
            /\ UNCHANGED loginTasks

\* Also to authenticate again.
HandleExtendedAuth ==
    /\ NextPacketIs("AUTH") /\ Active
    /\ IF ~login.method
       THEN ThrowProtocolError
       ELSE /\ AskPlugin(login)
            /\ Handled
            /\ UNCHANGED loginTasks

HandleDisconnect ==
    /\ NextPacketIs("DISCONNECT") /\ Active
    /\ \E success \in BOOLEAN :
          login' = [login EXCEPT !.stage = "Now", !.will = @ /\ ~success,
                                 !.stagedWill = @ /\ ~success]
    /\ loginTasks' = Append(loginTasks, "remove")
    /\ Handled
    /\ UNCHANGED <<afterAsync, calls, loginOut, epollForOut, handledApp>>

\* Publishing and the like: handled, kept, or dropped.
HandleApp ==
    /\ NextPacketIs("APP") /\ Active /\ login.authenticated
    /\ handledApp' = Append(handledApp, Head(ready.batch))
    /\ Handled
    /\ UNCHANGED <<login, afterAsync, loginTasks, calls, loginOut, epollForOut>>

DeferApp ==
    /\ NextPacketIs("APP") /\ Active /\ ~login.authenticated /\ login.asyncAuthenticating
    /\ IF Len(afterAsync) > MaxDeferred
       THEN ThrowProtocolError
       ELSE /\ afterAsync' = Append(afterAsync, Head(ready.batch))
            /\ Handled
            /\ UNCHANGED <<login, loginTasks, calls, loginOut, epollForOut, handledApp>>

DropApp ==
    /\ NextPacketIs("APP") /\ Active /\ ~login.authenticated /\ ~login.asyncAuthenticating
    /\ IF login.dropped > MaxDropped
       THEN ThrowProtocolError
       ELSE /\ login' = [login EXCEPT !.dropped = @ + 1]
            /\ Handled
            /\ UNCHANGED <<afterAsync, loginTasks, calls, loginOut, epollForOut, handledApp>>

\* writeBufIntoFd, and the client goes when everything is written.
EndOfEvent ==
    /\ ready.at = "packets" /\ ready.batch = <<>>
    /\ ready' = Waiting
    /\ IF ready.out
       THEN /\ flushed' = Len(loginOut)
            /\ epollForOut' = FALSE
            /\ login' = IF login.stage = "NotInitiated" THEN login ELSE RemovedLogin(login)
            /\ willPublished' = (willPublished \/ (login.will /\ login.stage # "NotInitiated"))
       ELSE UNCHANGED <<flushed, epollForOut, login, willPublished>>
    /\ UNCHANGED <<lconf, device, afterAsync, asyncAuthResult, loginTasks, calls, loginOut,
                   handledApp>>

\* The connection breaks: everything that was read is handled first.
SocketDisconnect ==
    /\ ready.at = "epoll" /\ ~login.removed /\ device.unread = <<>>
    /\ login' = RemovedLogin(login)
    /\ willPublished' = (willPublished \/ login.will)
    /\ UNCHANGED <<lconf, device, afterAsync, asyncAuthResult, loginTasks, calls, ready, loginOut,
                   flushed, epollForOut, handledApp>>

LoopStep ==
    \/ PerformTask
    \/ ClientReady
    \/ TakeResult
    \/ HandleNothing
    \/ HandleConnect
    \/ HandleExtendedAuth
    \/ HandleDisconnect
    \/ HandleApp
    \/ DeferApp
    \/ DropApp
    \/ EndOfEvent

LoginNext ==
    \/ DeviceSends
    \/ DeviceAnswers
    \/ \E r \in Results : PluginAnswers(r)
    \/ LoopStep
    \/ SocketDisconnect

LoginSpec == LoginInit /\ [][LoginNext]_loginVars

\* The loop goes on, and what epoll waits for is reported; the plugin answers in
\* the end, and so does the device when it is asked.
ReadyToWrite == ClientReady /\ ready'.out
LoginFairness ==
    /\ WF_loginVars(LoopStep)
    /\ SF_loginVars(PerformTask) /\ SF_loginVars(ReadyToWrite)
    /\ WF_loginVars(\E r \in Results : PluginAnswers(r))
    /\ WF_loginVars(DeviceAnswers)
FairLoginSpec == LoginSpec /\ LoginFairness

-----------------------------------------------------------------------------
(* Nothing is handled for a client that is not logged in, and it is told so   *)
(* before anything else but AUTH, and once: no CONNACK comes after the one    *)
(* that let it in, also when it asked before the plugin had answered, or       *)
(* authenticates again (threaddata.cpp:206-247).                             *)
OneConnack ==
    /\ handledApp # <<>> => login.authenticated
    /\ \A i, j \in 1..Len(loginOut) :
          i < j /\ loginOut[i] = "CONNACK success" =>
              loginOut[j] \notin {"CONNACK success", "CONNACK deny"}
    /\ \A j \in 1..Len(loginOut) :
          loginOut[j] \in {"AUTH success", "DISCONNECT"} =>
              \E i \in 1..(j - 1) : loginOut[i] = "CONNACK success"

(* Packets are handled in the order they were sent, those that waited for the *)
(* plugin before those that came after its answer (client.cpp:1321).          *)
HandledInOrder ==
    /\ \A i, j \in 1..Len(handledApp) : i < j => handledApp[i].n < handledApp[j].n
    /\ \A i \in 1..Len(handledApp), j \in 1..Len(afterAsync) : handledApp[i].n < afterAsync[j].n

(* A will is published only for a client that logged in with a will that it   *)
(* may publish, whatever ends the connection (client.cpp:1113, 1217).         *)
WillNeedsLogin == willPublished => login.authenticated /\ lconf.will /\ lconf.willAllowed

(* A login that is interrupted by the plugin ends as one that is not: one      *)
(* CONNACK, the packets in order, a will only when there was a login           *)
(* (threaddata.cpp:194, client.cpp:1310).                                    *)
LoginIsSound == OneConnack /\ HandledInOrder /\ WillNeedsLogin

(* A client that is about to be disconnected does nothing any more: it takes  *)
(* no session from another client (mqttpacket.cpp:581: "It may be a stale      *)
(* client. This is especially important for when a session is picked up by    *)
(* another client.").                                                        *)
StaleLogin == login.stage # "NotInitiated" /\ ~login.registered /\ login'.registered
StaleClientDoesNothing == [][~StaleLogin]_loginVars

(* Packets that wait for the plugin are handled in the end, or the client     *)
(* goes (threaddata.cpp:222, 400).                                           *)
DeferredEnds == afterAsync # <<>> ~> (afterAsync = <<>> \/ login.removed)
=============================================================================
