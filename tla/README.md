# A TLA+ verification of FlashMQ

FlashMQ is a multi-threaded MQTT broker in C++. This directory models the parts
of it that decide which client gets which message, checks the models on small
instances with TLC, and proves the results that matter most with TLAPS.

Contents: [the system](#1-the-system) · [the models](#2-the-models) ·
[runs](#3-the-runs) · [fairness](#4-fairness) · [proofs](#5-the-proofs) ·
[disagreements](#6-disagreements-found) · [not modelled](#7-what-is-not-modelled) ·
[plan](#8-plan) · [how to run](#9-how-to-run)

## 1. The system

The broker runs one main thread (listening sockets, timers, signals), one
background worker (saving state, name lookups) and `thread_count` worker
threads. A client belongs to one worker thread: only that thread reads its
socket and runs its packet handlers. A handler routes a PUBLISH to *other*
clients directly: it walks the shared subscription tree, and for every
subscriber calls `Session::writePacket` in the publisher's own thread. The
session, its QoS data, the subscription tree, the registry of clients and the
write buffer of a client are therefore shared and guarded by separate locks.
What a thread wants another one to do is put into that thread's task queue.

| component | state | operations | talks to |
|---|---|---|---|
| packet ids in use (`UsedIds`) | an array of 8 ids, or a bit vector of 65536, and a count of each | insert, erase, contains | owned by `QoSData` |
| session, outgoing QoS (`Session`, `QoSData`) | ids in use, queue of unacknowledged publishes, next id, send quota and its ceiling, QoS 2 ids waiting for PUBCOMP, weak pointer to the client | writePacket, the acknowledgement handlers, sendAllPendingQosData, setSessionProperties | publishers' threads, own client's thread |
| queue of unacknowledged publishes (`QoSPublishQueue`) | map by id, linked list, expiry index, byte count | queuePublish, erase, clearExpiredMessages | owned by `QoSData` |
| session, incoming QoS 2 | ids received and not yet released | add, in transit?, remove | own client's thread; after a take-over two threads |
| registry (`SubscriptionStore`) | sessions by id, clients by id, wills and session removals ordered by time | register and kick, remove, queue and send wills, expire | all threads |
| subscription tree, shared subscriptions | a node per topic level with subscribers, groups with a round-robin position, wildcard children | subscribe, unsubscribe, publish, purge | all threads; the walk holds shared pointers |
| retained messages | a node per topic level with a message and expiry; a count and a limit | set, give to a subscriber, expire, save and load | all threads; deferred when the lock is taken |
| wills | a staged and a set will per client, one per session, the time-ordered queue | stage, set, clear, queue, send | client, session and registry |
| worker thread (`ThreadData`) | task queue, clients by file descriptor, clients to remove, keep-alive checks by second, running flag | event loop, keep-alive, removal, wills and disconnects at the end | main thread, other workers |
| client connection (`Client`) | read and write buffers, topic aliases, disconnect stage, packets kept back while authentication is asynchronous | read, write, timers | its thread reads, any thread writes |
| circular buffer (`CirBuf`) | memory, head, tail | grow, write, advance, shrink | owned by the client |
| transport (`IoWrapper`) | WebSocket frames in and out, what TLS could not finish, the upgrade | read, write, decode | owned by the client |
| packets (`MqttPacket`, `Mqtt5PropertyBuilder`, `VariableByteInt`) | one packet | parse, handle, build | client, session, store |
| copies of a publish (`PublishCopyFactory`) | the packet that came in, a cache by layout | get a packet for a receiver | the walk, sessions |
| state files (`PersistenceFile` and the databases) | a file, its digest | write to a new file, sync, rename; load and verify | background worker, main thread at the start |
| bridges | connection state, retry delay, DNS query | reconnect, register, remove | main thread, one worker each |
| authentication, ACL (`Authentication`, `AclTree`) | plugin state, permission trees, password table | login, ACL checks, reload, asynchronous results | each worker has its own |
| configuration, main thread (`ConfigFileParser`, `MainApp`) | settings, listeners, bridges, timers, flags of signals | load, reload, start, listen, accept, stop | all threads |

**Hard behaviour.** (a) *Two threads, one session*: a publisher takes the
client pointer, then the QoS lock, then the lock of the write buffer, and the
client can change between any two of them. (b) *Take-over*: a client connects
with an id in use; the old connection is closed by its own thread later, and
until then both exist. (c) *Loss and retry*: what was in flight on a broken
connection is sent again on the next one, with new quota, and acknowledgements
of before and after count against the same ids. (d) *Counters at their limit*:
packet ids wrap at 65535, the quota is reset, the queue is bounded. (e)
*Deferred work*: retained messages, wills, session removals and keep-alive
checks are queued and carried out when the state they were queued for may have
changed. (f) *Restart* from state files. (g) *Reload* of a configuration that is
wrong half way.

The list of hazards in `PROJECT.json` gives the line of the code for each and
the properties that cover it.

## 2. The models

One module per component. The name of an action is the name of the function it
translates, or says what happens to it; `PROJECT.json` "map" has the lines.
Common to all: a section under a mutex is one step, what a handler does outside
of it is a step of its own; a weak pointer is null once no strong one is left;
the step of a model is never smaller than what another thread can see. Data is
abstracted to what the properties tell apart. Each module's header says what it
leaves out.

### Sessions and delivery

**`UsedIds`** (`usedids.{h,cpp}`) has `m_ids`, `m_ids_used`, `m_bits`, `m_bits_used` as
in the class, with every switch between the representations; **`IdSet`** is the
promise: a set. The number of ids that fit in a cell of the array and the array's
capacity are constants. Callers insert ids that are not used and erase ids that
are, as the asserts in `session.cpp` demand, plus the calls that change nothing.

**`QoSSession`** is the core: one `Session`, the connections of one device, the
threads that publish to it, and the device itself, which follows the protocol.

| code | in the model |
|---|---|
| `Session::writePacket`, session.cpp:201-304 | `BeginWrite` (client pointer taken, before the lock), `TakeId` or `DropForQuota` (the critical section), `WriteToClient` (after it) |
| `getNextPacketId` | `FirstFree`, `IdAvailable`, `NoIdAvailable`: the loop by its result, including the wrap at the largest id, the skipped 0 and the search that never ends |
| `clearExpiredMessagesFromQueue` | `Clearable`, part of both critical sections |
| `registerClientAndKickExistingOne` ... `sendConnackSuccess` | `Assign`, `SetSessionProperties`, `SendConnack` |
| `Session::sendAllPendingQosData` | `PickClient`, `CopyPending` (under the lock), `WritePending` (after it) |
| `handlePubAck`, `handlePubRec`, `handlePubComp` | the actions of these names; `StoreOutgoingQoS2` is the second critical section of `handlePubRec` |
| `removeClient` | `Close` |
| `SessionsAndSubscriptionsDB` save and load | `Restart` |
| the MQTT client | `DeviceConnected`, `DeviceReceivesQos1`, ... (external) |

A message is its number in publication order and the queue a function from id to
message; the linked list is ordered by arrival (`QoSPublishQueue`), so its order
is that of the numbers, except that two publishing threads can swap between
taking a number and taking the lock. The byte limit of the queue counts
messages. The write buffer and the network are one sequence, `out`, that a closed
connection loses. Time is the action `Expire`. Publishes of QoS 0 take no part.
The device answers in order and never acknowledges a packet it did not get.
`SingleThread` is `thread_count 1`: a handler ends before the next begins.
Without it the steps of all handlers interleave.

**`QoSPublishQueue`** (`qospacketqueue.{h,cpp}`) has the map `queue`, the doubly
linked list, the index `queueExpirations` and `qosQueueBytes`; **`PublishSeq`** is the
promise: the publishes in order of arrival, added at the end, removed anywhere,
with the bytes they take. `Alive` says what the strong pointers keep, `Lock` is
`weak_ptr::lock`. The packet id of a new publish is not in the queue: that is
`QueuedIdsAreUsed` of `QoSSession`, and the finding `ids_after_restart` shows when it is
not so; then the old publish stays in the list with nothing in the map, which
this module does not model.

**`IncomingQoS2`** is the other direction: PUBLISH and PUBREL from a device that
sends again what was not acknowledged, the ids a session keeps, a publish that is
refused, and packets of an old connection that are handled after the take-over.
`InThreads` lets two threads handle them at once.

**`PublishCopies`** (`publishcopyfactory.cpp`): one publish for receivers that differ in
protocol, QoS, retain handling, alias and identifier: which packet each one gets
and what its session stores.

### The registry

**`SessionRegistry`**: the connections that use one client id, the sessions they
made, and their wills. A session is the number of the connection that made it, a
will that of the client that announced it.

| code | in the model |
|---|---|
| `handleConnect`, up to authentication | `HandleConnect`: looks up "session present" |
| `registerClientAndKickExistingOne`, under `sessions_lock` | `RegisterClientAndKickExistingOne` |
| `assignActiveConnection`, `setSessionProperties` | `AssignActiveConnection`, `SetSessionProperties`; `clientSwitchMutex` keeps two connections out of the first |
| `handleDisconnect` with reason 0 | `HandleDisconnect` |
| socket closed, kicked, or left; `~Client` | `Close` |
| `clientDisconnectActions` | `DisconnectWill` (`queueOrSendWillMessage`), `DisconnectSession` (`removeSession` or `queueSessionRemoval`) |
| `removeSession` after its lock | `ReadWillOfRemoved`, `SendWillOfRemoved`: the will is read and sent in two steps |
| `sendQueuedWillMessages` | `PickDueWill`, `SendDueWill`: check and send are two steps |
| `removeExpiredSessionsClients` | `CollectExpired`, `RemoveExpired` |

Time is `now` in seconds; the bounds let nothing be queued for a time behind the
last second (`InTime`). A DISCONNECT with another reason is left out, the wills
sent when the broker stops are in `Shutdown`.

### The store

**`SubscriptionTree`**: subscribe and unsubscribe in two steps (walk to a node,
change it), sessions that end, the walk of a publish, and the purge that works
in slices and puts the rest off. A node that was taken out of the tree while
somebody held it is never seen again. **`SharedSubscribers`**: the members of one
share, the round robin with its wrap, the purge of members that are gone.
**`RetainedMessages`**: setting a message with a try-lock, queueing and trying again,
the expiry walk in slices, the count with its separate update, and the limit.
**`RetainedDelivery`**: the walk that gives retained messages to a new subscriber,
10 ms at a time or until it takes no more, while others set, clear and purge.

### Connections

**`CirBuf`** implements **`ByteQueue`**. **`ClientInput`**: bytes of the socket into the
buffer and packets out of it, its growth, and when reading is off. **`ClientOutput`**:
several threads write, aliases are taken and dropped, the stages of a disconnect,
and what epoll is asked for. **`ClientLogin`**: CONNECT, simple, asynchronous and
extended authentication, the packets that wait for the answer, the staged will.
**`WebSocketInput`** and **`TransportOutput`**: frames, TLS records and repeated writes
between three buffers, of which epoll knows only the socket.

**`PacketFields`**, **`PacketLayout`**: every packet FlashMQ writes and every parser, as
sequences of fields: a CONNECT of a bridge or client, the broker's answer with its
limits, subscriptions and publishes within them. The length is computed first
and written after, as in the code, and a text is a source and a length.

### Threads, files, main program

**`ThreadTasks`**: the queue with its wake-up and the delayed tasks. **`KeepAlive`**:
checks by time and file descriptor, removals, descriptors used again.
**`Shutdown`**: wills, disconnects, threads and the background worker in the order
of a quit. **`StateFile`**: a save with each of its failing steps, a crash or power
cut between any two, a damaged file, the load, and the clocks. **`BridgeReconnect`**:
reload, DNS, connections one after the other, the session that outlives them.
**`AclTree`**, **`Authorization`**: the tree of permissions and its search; the files that
are written while threads read them; the life of a plugin that may throw.
**`ConfigFile`**, **`MainLoop`**: every option with its limits, blocks, included files and
bridges, as the set of one result or none when the parser throws; the main thread
that loads, starts, listens, accepts, reloads and stops.

### Composition

Components that share state are in one module: `QoSSession` has what connection,
session and publishers do to each other, `SessionRegistry` what connections and
timers do. Those that share none are checked together in one run, a behaviour
exploring the part it starts with (`MCStore`, `MCConnection`, `MCLive`, `MCReconnect`,
`MCMainRegistry`); variables of the other parts stay as they were, so the state
spaces add up and do not multiply, and no property of one part depends on
another. What one module assumes of the other is a property that is checked
there: `QoSPublishQueue` and `QoSSession` rely on each other's as said above,
`QoSSession` on `ImplementsSet`, `ClientInput` on `ImplementsByteQueue`, and
`Authorization` on the exactness of the tree, which `AccessIsSound` compares with the
lines of the file.

## 3. The runs

| run | question | bounds |
|---|---|---|
| `qos_single` | one worker thread: is every unfinished id in use, does the search for an id end, does nothing leak, is a message dropped only while another is unfinished, are first deliveries in order, is nothing lost silently, does a message arrive at least once? | 4 ids, so that the fifth message gets the id of the first; 5 messages (odd ones QoS 2, 2 may expire), 3 connections, the third asks for a session that ends with it; Receive Maximum 1 or 2, queue of 2 |
| `qos_restart` | at most once over a restart from the state file | 3 ids, 3 messages, 3 connections, 1 restart, message 1 may be refused |
| `qos_threads` | quota and ids when the handlers of a publisher and of two connections interleave, one taking the other over | QoS 1, 2 ids that are used again, 4 messages, of which one may expire and one may be refused; 2 connections |
| `registry_takeover` | one worker thread: one client per id, its session registered, session present, wills at most once, nothing expires early, no will after DISCONNECT and no delayed one after the session was resumed; and the main thread over loads, reloads and a restart | 3 connections, 2 seconds, intervals of 0 or 1; 13 configurations, of which it changes between 3; 2 workers, 2 signals, 2 connections that arrive |
| `registry_threads` | what every interleaving of two connections and the timers leaves standing: nothing takes up a will after DISCONNECT, no session stays for ever | 2 connections, 2 seconds |
| `reconnect` | what comes of it in the end: the will of a client that comes back or does not, a bridge, wrapped bytes, what signals ask for | 2 connections and 3 seconds; 2 versions of a bridge, 1 failure; 2 configurations, 1 signal |
| `store` | do the walk and the purge reach exactly those who subscribed; shares, retained messages, the queue of a session, permissions, packets | 2 clients, 3 filters; 3 members; 3 topics and 2 threads; 3 interchangeable ids, 4 publishes and 2 seconds; ACL files of 2 lines; a bridge and a broker at the limits of what the settings allow |
| `connection` | login, buffers, incoming QoS 2, aliases, keep-alive, tasks, stop, state file, ids, WebSocket, TLS, bridge, copies | see `MCConnection.cfg`: two threads, clients or packets each, and every limit one to three times the smallest that matters |
| `progress` | what must happen in the end does | the parts of `store` and `connection` with liveness, smaller |
| `ids_after_restart`, `registry_two_clients`, `clock_2038` | each shows one disagreement of section 6 | the smallest that shows it |

What the properties say is written above each; the ones with several named parts
(`IdsAreSound`, `RegistryIsSound`, `StopInOrder`, ...) are conjunctions of what belongs
together.

Why the bounds suffice. *Ids*: in `qos_single` the counter wraps while two
ids are in flight, in `qos_threads` ids are used over and over. In `qos_restart` there are
only as many messages as ids: after a restart the ids of the loaded messages
are not in use (`ids_after_restart`), and the model does not follow what the queue
does when one is given again and `queue[id]` overwritten. A message is lost then, so
"nothing lost silently" and "at least once" are checked without a restart.
Messages overflow a queue of two and exhaust a Receive Maximum of two. Three connections give a resend of a resend. The Receive
Maximum is well below the number of ids: `IdSearchEnds` does not hold when it is not,
as the loop of `getNextPacketId` relies on free ids, and the quota that a reconnect
resets does not count the handshakes that wait for PUBCOMP. With two ids and a
Receive Maximum of 2 the search does not end; with 65535 it takes as many
unfinished messages. *Registry*: three connections make a take-over of a
take-over; one second is the only interval that is not 0, as what matters is
whether a timer fires before, at or after the next connection. *Queue*: of four
publishes one can be first, one last and two between, and with three ids one is
used again while the index still has the publish that had it before. *Tree*:
filters that share a level, end in `#` and start with `+`, and purges in slices of one
node. *Shares*: the counter overflows, with one or two entries; three do not divide the
number of its values, in the model as in 32 bits (section 6). *Buffers*: packets that fit, fill and exceed them. *Keep-alive*: time goes on
past the last check of a client that was added last. *Files*: two saves, so a
crash may hit the second. *Configurations*: each differs from the base in one
thing a reload has to follow, cannot be loaded for one reason, or has a number at
the limit the code checks.

What clients of a registry run ask for is `Profiles`. In `registry_takeover` no
connection resumes a session with expiry 0: that is `registry_two_clients`. In
`reconnect` and `registry_threads` every session is resumed or removed, never replaced
by a clean start, which loses the will (section 6). `NotExpiredEarly` and
`WillAtMostOnce` speak of sessions that no second connection had.

Each property has a mutant: a plausible mistake in one definition, written
directly before it, under which TLC finds the property violated. `PROJECT.json`
pairs them.

## 4. Fairness

Only liveness needs it. In all modules: weak fairness of the steps of handlers and
tasks that have begun (event loops poll all their sockets and tasks and hold no
lock while they wait) and of the timers, which the main thread queues again and
again. Nothing is assumed of clients (they need not connect, leave or break),
of crashes, expiry, failures, signals or edits of files, except where a property
says what the program owes a peer that goes on:

- `QoSSession`: the device reads its socket, answers, and connects again when it was
  disconnected; the last connection that the bound allows is not broken, as
  else no run would deliver anything in the end.
- `SessionRegistry`: `Close` of a client that was kicked or sent DISCONNECT, which
  `removeQueuedClients` (threaddata.cpp:731) sees to; the clock.
- `IncomingQoS2`: the device goes on with the handshake it has begun.
- `ClientLogin`: the plugin answers in the end, the device answers when asked. Strong
  fairness of performing a task and of writing: each turn of the loop does both,
  and in between they are not enabled.
- `ClientOutput`: strong fairness of writing a part of the buffer that is not
  empty: a socket whose peer reads becomes writable again and again.
- `RetainedMessages`: strong fairness of taking the lock: other threads hold it for
  a bounded time. `SubscriptionTree`: of the purge, likewise.
- `BridgeReconnect`: a DNS query is answered and a server that is asked replies, in
  attempts that the bound on failures does not make fail.
- `MainLoop`: a load ends, stated as `[]<>` "not loading", since a step of a load is
  always enabled.

In the runs of several parts the fairness of a part that does not run asks for
nothing: its steps are not enabled in its initial state, or the run says so
(`part = "bridge" => ...`).

## 5. The proofs

All theorems are for every value of the constants within the assumptions the
modules name: bounds are natural numbers, Receive Maximum is between 1 and the
largest id, as `handleConnect` ensures, 0 is no packet id. Further hypotheses are
part of a theorem's statement; each is needed, and section 6 or the theorem's entry
says what happens without it. An invariant is seldom inductive: the strengthening was
checked with TLC first, then proved with one lemma per action.

**`ContainerProofs`**, two data structures that implement what their users rely on:

- `UsedIds`: `RepresentationSound` (`Inv` is invariant), `EveryCallIsExact` (a call
  changes just its own id), `UsedIdsImplementsSet` (the refinement of `IdSet`, by `Inv`
  and the lemmas about the switch).
- `CirBufIsAQueue`: the circular buffer implements `ByteQueue` for every initial size
  (a power of two, as the settings round it up) and limit. `CirIInv` says that head and tail
  are within the memory and that no byte between them is junk; `Bytes` is the
  content as a function of memory, head and tail, and a lemma for each call says
  what becomes of it, also when the ring wraps or the memory is replaced.

**`QoSSessionProofs`**, with or without take-over, restarts, threads:

- `TypeCorrect`: `Spec => []TypeOK`.
- `QuotaSafe`: `Spec => []QuotaWithinReceiveMaximum`.

Both come from `IInv`. `TypeOK` alone is not inductive: `InQueueOrder` and `Releases`
choose a sequence ordered by message number, which exists only if no two ids of
what was copied carry the same message. So `IInv` adds that messages in the queue,
in the hands of writers and in each copied batch are distinct and already
published, and the bounds of the quota. `SortedExists` gives the sequence (over
cardinality, by a smallest counterexample), `KeptWithinQuota` that the walk over
the queue never keeps more than there is quota for.

**`QoSIdsProofs`** goes on from there, in layers, each proved from those before it:

1. `TurnsHold`: a connection opens only when the one before is closed, handlers do
   not overlap, and a session that is to be destroyed is not picked up again.
2. `IdsHold`: an id is on its way once at most, as a packet, as its
   acknowledgement or in the hands of a handler (`EachIdOnce`), and is in use as
   long as it is (`CarriedIdsAreUsed`); what is unfinished is in use (`UnfinishedUsed`).
3. `UnfinishedIdsStayUsed`: with one worker thread every unfinished id is in use,
   hence a new message never gets the id of an unfinished one, for QoS 1 and 2.
4. `QueuedIdsStayUsed`: the same for queued QoS 1 publishes with *any* number of
   threads, with take-overs and late acknowledgements. Here layer 2 does not hold,
   and the proof goes another way: every step that takes an id from `usedIds` also
   takes its publish from the queue.
5. `AccountHolds`: quota and number of ids in use together are never less than the
   ceiling of the quota. So `DropsOnlyWhenUnfinished`: a publish is refused only while
   another message is unfinished; over all acknowledgements, resends and
   reconnects no quota is lost. It needs two ids: with one, a search that starts at
   the id it tried last finds nothing.
6. `AtMostOnceToTheDevice`: a QoS 2 message reaches the application once at most.
   The device stores the id of a message it delivered for as long as the session may
   send it again (`DeliveredIsKnown`), and what is on its way is what the session
   stores for that id (`PublishMatchesHolds`).
7. `NothingIsLostSilently`: a QoS 1 message leaves the queue only when it was
   delivered, has expired, was refused or went with its session. The
   message whose id an acknowledgement on its way carries was delivered
   (`AcksAreEarned`).
8. `FirstDeliveriesInOrder`: messages are first delivered in the order of their
   publication, over reconnects, resends and expiry. Four facts carry it: the publishes
   on the way ascend (`PublishesAscend`; a resend is sorted, `InQueueOrderAscends`, and
   complete, `AllIsResent`); a publishing thread holds the newest message
   (`WritesToTheSession`); while the device is connected everything it does not have
   yet is on the way (`AllOnTheWay`); and no message that is still news to it has been
   passed by a later one (`NonePassed`). Messages that an ACL or the device may refuse
   are excluded, see section 6.

**`QoSPublishQueueProofs`**, for any packet ids, footprints and number of publishes:
`TypeCorrect`; `ListStaysInOrder`: the list has exactly the publishes of the map, in
order of arrival; `ClearIsThorough`: after `clearExpiredMessages` nothing in the queue
is expired. `IInv` adds that objects not yet made are linked nowhere (`FreshUnlinked`)
and that every publish in the map that can expire is in the index (`IndexComplete`).
`EraseKeepsOrder` and `AddKeepsOrder` carry it: what `next` and `prev` are for the
neighbours of the one publish that goes or comes.

**`SessionRegistryProofs`**, for any number of connections, any profiles, wills,
delays and intervals. The invariants come in layers, each proved with those before it.

*Every interleaving of the threads.*

1. `NoWillAfterLeaving`: once a client has sent DISCONNECT nothing takes up its will any
   more, and only a removal that had read it before may still send it (section 6).
   The property speaks of a step; the reason is where wills can be. `IInv` says of each
   such place (a session, the queue of delayed wills, the timer between check and
   send) that the will in it belongs to a client that did not leave, and of the
   queue and the timer that this client is gone, so that it cannot leave later. That
   a session holds only the will of a connection that was assigned to it
   (`SessionWills`) makes `clearWill` of the client's own session enough.
2. `TypeCorrect`. `Sound` adds where sessions are (`Placed`: whoever has a session has
   one that its maker has too), that connections begin in order, and `TimeLeft`:
   what is not over still has a whole interval before the last second of the model.
3. `NoneExpiresEarly`: a session that nobody resumed is not removed for expiry before
   its interval is over. `RemovalsJustified`: whatever leads to a removal (the queue,
   what the task collected, `removalQueuedAt`) exists only after a client of the
   session is gone, and comes due when the interval is over. If the session has only
   one user, that user is gone, so nothing can change the interval any more.

*One worker thread* (`SingleThread`).

4. `OneThreadInOrder`: one handler or task is in progress at a time, the client of a
   session is the last that was assigned to it, and the delayed will between check
   and send, or the one that a removal has read, is still the one in its session
   (`DueIsLast`, `RemovedIsLast`).
5. `UnwantedWillsAreNotSent`: no will is sent after its client sent DISCONNECT, and no
   delayed one after its session was resumed, neither by the timer nor when the
   session is removed.
6. `WillSentOnce`: the will of a client whose session nobody resumed is published at
   most once (`SentOnce`: once it was, it is no longer in the session).
7. `RegistryStaysSound`: one client per id, whose session is the one in the registry
   and whose CONNACK told the truth, and item 6. It needs `Stays`: no client takes
   up a session and asks that it ends with the connection. Without it the code breaks
   the property (`registry_two_clients`). With it a session that ends with its
   connection has one user (`EndsAlone`), so an old client that goes away never
   removes the session of the new one (`Registered`). `PresentIsRight` is what makes
   the answer of `handleConnect` the one of `registerClientAndKickExistingOne`.

*One worker thread, connections one after the other* (`~Takeover`).

8. `SessionHoldsItsWill`: the session of a connected client holds its will, because
   what a timer or a removal is about to end has no client (`NoneActive`).

*The main thread*, for any number of worker threads, configurations, signals, edits of the
files, reloads that throw, and restarts. `MainIsSound` but for the blocks of a file:

- `MainThreadStaysInOrder`: no request of a signal or worker is forgotten (`RequestsAreSeen`),
  between two requests everything has the same settings (`SettingsAgree`), each bridge has one worker
  (`BridgesHaveOneOwner`), and workers get clients in turn (`WorkersTakeTurns`). `MainIInv` says in
  which steps of a load the workers, timers, sockets and bridges still have what the last one left
  (`WorkersTold`, `TimersMade`, `SocketsFit`, `OwnersHave`), that nothing runs beside the first
  load (`AsAtFirst`), and that a bridge at a worker knows it as its owner (`OwnersKnown`). What
  a worker was given lies between its turns and those less the closed ones
  (`AllTurnsFit`), and the turns of two differ by one at most (`NextTurn`, about `\div` and `%`).
- `NamesOfBridgesLast`: the shared subscriptions of a bridge keep their name. Hypothesis
  `StorageStays`: no edit gives `storage_dir` or takes it away, as names are kept on disk or else
  only while the program runs. `NamesIInv` says where the first names are (`Kept`).

Assumed of the constants: `MainAssumption` (finitely many workers, numbered) and `ParsedAssumption`
(the parser gives lists and counts; it is a recursion over the lines of a file, and
TLC evaluates the assumption). `FlattenSeq` is recursive too: that the list of all
sockets or bridges has the elements of its parts is shown by a least counterexample
(`FlattenIsList`).

**`RoutingProofs`**, the way of a publish from the device that sends it to those who
subscribed, in three parts.

*The tree.* With one worker thread (`SubThreads = FALSE`), for any filters, topics and
clients, over purges, leafs that are put off, and sessions that end:

- `RoutingStaysExact`: the walk of `publishRecursively` hands a publish to the granted
  subscriptions that match, and to no other.
- `TreeStaysSound`: `NewMeansNew`, `DeferredAreInTree`, `TreeIsConnected`.
- `UncutWalkersSuffice` has any number of threads and the hypothesis `NoWalkerIsCut`:
  no purge takes out the node that a handler has walked to. So this
  is *all* that can go wrong with several threads, and it does (section 6).

`SubIInv` says that the tree has the beginnings of all its paths (`Closed`), that
what has subscribers is in it (`Contained`), that nodes and grants say the same (`Agrees`),
where handlers stand (`HeldInTree`), and that of two leafs put off none is
under the other (`DeferredApart`), as else the purge of one would take out the other.
`Walk` is a recursive function on the nodes it can visit. That such a function
exists is not known to the provers, so `WalkReaches` shows that what
the code does satisfies its equation and `WalksAgree` that nothing else does (by a
least path on which two differ); `WalkMatches` relates it to the match of filter and topic.

*A shared subscription.* `IndexStaysRight` (`GroupIInv`), with any number of threads: the
index leads to the entry of each member and nobody has two. `GroupStaysSound`, with one
publishing thread: a publish finds a member if one was there while it
looked. `WalkIsInOrder` says that the thread has looked at what the counter has gone
past. Hypothesis `CounterIsEven`: the counter has not overflowed, or the number of entries
divides the number of its values, which for 2^32 means a power of two. Across the
overflow it fails with three entries (section 6).

*Incoming QoS 2.* `ExactlyOnceHolds`: any number of ids, publishes, reconnects and
take-overs with packets of the old connection still to be handled. A publish is
routed at most once; one the device takes for received was routed, unless it
was refused; no id is kept for a publish that is over. Two hypotheses: handlers do
not interleave, and no PUBREC reports an error (MQTT 5 with a refusal), after
which the broker keeps the id (section 6). The invariant follows each publish
from the device over the network to the ids of the session and back.

**`ConnectionProofs`**, for every device, plugin, number of threads and bounds:

- `CopiesStayExact`: each receiver gets what it was promised, whoever was served before
  it. `CopyIInv`: a cached packet, and the one that came in once it can be used
  again, has nothing in it that belongs to one receiver (`Shareable`), other than fields that are
  written for each (`Stamped`).
- `LoginStaysSound`: nobody is let in twice or denied after it; packets are handled in
  the order in which they were sent, those that waited for the plugin included; a
  will needs a login that may publish it. `LoginIInv` says that what was handled, what waits,
  the batch in hand and what is unread are together in order (`InOrder`), and that
  packets wait only while the plugin is asked.
- `OutputStaysSound`: a packet without a topic never reaches the client before the one
  that told it the alias, and bytes never stay in the buffer with nobody waiting
  for the socket. `OutIInv`: an alias in use is known to the client or introduced
  earlier in the buffer (`AliasesReach`, `SkipsReach`); a thread that made a new one holds
  the alias lock until it is written (`WriterAgrees`).

**`WorkerProofs`**, for any number of clients, tasks, seconds and files:

- `WorkStaysKept`: silent clients are found in time, bridges pinged in time, tasks
  performed once and in order. `KaIInv`: each client to be checked has a check that comes in time for its
  silence (`Watches`), no time passes beyond a check, a descriptor belongs to
  one client. `ImmediateIInv`, `DelayedIInv`: what was pushed is performed, in hand or in
  the queue, in this order, and an erased task has no id.
- `NothingStrayIsEverDone`: the action property that goes with it.
- `SavesSurvive`: for any number of saves, rows, failing steps,
  crashes and power cuts: the file with the name is on disk as it was hashed, the last
  finished save is not lost, a damaged file is not loaded. `FileAlwaysSurvives` adds that
  a session goes on as if there had been no stop, while the clock stays below half the
  word (`clock_2038` is the other case). The invariant says what is true of the file that the
  directory names, in memory and on disk (`IsOnDisk`), at each step of a save.
- `SavesAreComplete`: if no write fails, that file has all its rows, and so has what is
  loaded; other steps may fail. `AllIsWritten` says which rows are there at each step of
  a save. With a write that fails it does not hold (section 6).
- `StopStaysInOrder`: a client that can be told DISCONNECT is told so before its
  thread ends, after the wills of all who stayed, and gets each once; the state is
  not saved by two threads. Hypotheses: clients are finitely many, and the wait for the
  wills does not expire (the other waits may): after its five seconds
  disconnects may overtake wills (section 6). `StopIInv` is about what a thread has
  still to do, its batch and its queue together (`Ahead`): wills, disconnects, the notices of
  clients and their collection are in order there (`JobsFit`); nothing is told or
  collected while disconnects are ahead (`NothingYet`); what a client was sent or will be
  (`Story`) has each will once and all before DISCONNECT (`WillsRight`); and a client that
  can be told was told, or the job to do so is ahead, and once its thread is to quit its
  buffer is written or its socket ready (`ClientsFit`).

**Only model-checked.**

- *Out of the prover's reach*: everything temporal (liveness, ENABLED); the refinement
  of `PublishSeq` (its mapping is recursive, its byte count a fold, and both ask for
  induction over data); `PacketsAreRead`, `HandshakeAgrees`, `AccessIsSound`, `RetainedIsSound`
  and `BridgeIsSound`, whose reference definitions are recursive or fold over sequences.
- *Depends on the bounds*: `IdsAreSound` as a whole, because of `IdSearchEnds` (number
  of ids) and `NothingLeaks` (no oversized publish). Its part about ids in use is proved.
- *Not yet proved*: `WrappingIsSound`, and of `MainIsSound` the last part, `BlocksAreKept`: what the parser makes of a file is induction over its lines.

## 6. Disagreements found

Three runs find what a line of the repository says is not so; `PROJECT.json` has
the lines and the quotes.

1. `ids_after_restart`: loading a session puts the unacknowledged publishes back but
   not their ids into `usedIds`, so a new message can get the id of an old one and
   take its place.
2. `registry_two_clients`: the disconnect actions of a replaced connection ask the
   session whether to destroy it after its successor has set `destroyOnDisconnect`;
   they remove the session in use, and a third connection kicks nobody.
3. `clock_2038`: `readInt64` widens a sign; a state file saved after January 2038 is
   read back with a time in the past.

The models show more. Each of the following was met while modelling; where a
property or constant is named, the run of that component shows it when it is
changed accordingly.

**Sessions and delivery**

- An oversized publish is not sent, but keeps id, quota and its place in the queue
  for as long as the connection lives (client.cpp:446, against the comments at
  client.cpp:397 and session.cpp:120). `NothingLeaks` with an oversized message.
- A PUBREC still read from a replaced connection stores an id that the new
  connection has already freed (session.cpp:493). `UnfinishedIdsAreUsed` with `Takeover`.
- A publisher that found no client, and queues its message only after the receiver
  has connected and its queue was walked, leaves it there until the next
  reconnect (session.cpp:225). `AtLeastOnce` with several threads.
- A session with a queue that is resumed with expiry 0 no longer takes acknowledged
  messages out of it, and the queue stays full (session.cpp:321).
- *Why `QueuedIdsStayUsed` has its hypotheses.* With QoS 2 and several threads:
  publishes written to a client between the quota reset of `setSessionProperties` and
  `sendAllPendingQosData` use up the quota; the latter finds none left, erases those
  in-flight publishes and frees their ids. The PUBREC that comes then stores an id
  that is not in use, a new publish takes it, and the late PUBCOMP frees it while it
  is queued (2 ids, 3 messages, Receive Maximum 1, 23 steps; with 65535 ids it needs a
  wrap-around). With a connection that ends the session racing another, two
  assigned connections set `destroyOnDisconnect` to true and back, and a PUBACK in
  between frees a queued id. A restart is finding 1.
- *Why `NothingIsLostSilently` is about QoS 1 and one thread.* A QoS 2 publish whose
  PUBREC was lost expires and is erased on reconnect while the device still stores
  its id; after the ids wrap, a new message with that id is taken for a duplicate,
  acknowledged, and gone (`qos_single` with `MayExpire = {1}`). With several threads a late PUBACK for a publish
  that was written before `CopyPending` and then expired removes the message that got
  its id (17 steps).
- *Why `FirstDeliveriesInOrder` excludes refusals.* A queued publish that the ACL
  refuses when `sendAllPendingQosData` writes is skipped but stays in the queue; later
  ones are delivered meanwhile, and it follows on the next reconnect, when the ACL
  allows it (`qos_single` with `MayBeRefused = {2}`, 39 steps).
- An incoming publish that is refused with an error in the PUBREC keeps its id
  (mqttpacket.cpp:2237-2299, against the comment near 2367): the next publish with
  that id is swallowed. `ExactlyOnce` with MQTT 5 and refusals.
- Two threads that handle the connections of a take-over route a publish twice
  (`InThreads = TRUE`: `RoutedAtMostOnce`).
- What a broker publishes to an absent client is stored without its subscription
  identifier (publishcopyfactory.cpp:142-168).

**Registry and wills**

- Two connections can pass `sessions_lock` one after the other before either is
  assigned, so neither sees the other (subscriptionstore.cpp:371; `registry_threads` with
  `OneClientPerId`).
- A session that was resumed and left again is removed by the entry of its earlier
  disconnect, before its interval is over (subscriptionstore.cpp:1312).
- `removeSession` reads the will of a session (subscriptionstore.cpp:1263) and sends it (1266)
  with no lock held. After the first interleaving above, or finding 2, the session still has a
  client; if another thread handles its DISCONNECT in between, the will is
  published after it (`registry_threads` with the property that no will of a client
  that has left is sent: 15 states).
- The timer checks that the session of a will has no client and sends it after one
  has connected (subscriptionstore.cpp:458).
- A clean start drops the last strong pointer to the old session and so to its
  delayed will, which is never sent (subscriptionstore.cpp:367; willtests.cpp:256
  expects it).
- A will goes out twice: the end of its session sends it, and disconnect actions that
  were queued before do so again (subscriptionstore.cpp:398). The immediate will of a
  replaced connection clears the will of its successor (subscriptionstore.cpp:402).
- When the broker stops: a client that logs in between `sendAllWills` and the stop loses
  its will; when the five seconds for the wills are over, disconnects may come first.
  Wills that were loaded with delay 0 are not saved again.

**Store**

- A subscription is lost when the purge takes out the node that another thread
  walked to (`SubThreads = TRUE`; man/flashmq.conf.5.dbk5:680). Nodes below `$` topics are
  never purged.
- Shared subscriptions: with two threads, or where the counter wraps, a publish can
  miss a member that is there (sharedsubscribers.cpp:65); a sender does not stick to
  its member when members change (sharedsubscribers.h:30).
- Retained messages that are put off are set in reverse order, so the last one does
  not win (subscriptionstore.cpp:944). The count is too high when a walk is put off.
  The limit on new nodes also refuses updates of topics that exist. The expiry
  clears a message without its mutex (`StoreIsLost`).

**Connections and threads**

- A packet of `max_packet_size` is never read when the largest buffer, the initial size
  times a power of two, has no room for it (client.cpp:337-355; `PacketsAreRead` with a
  larger `MaxIncomingPacket`; man/flashmq.conf.5.dbk5:256). With WebSocket the frame around
  a packet makes that more likely (`WebSocketIsRead`). TLS bytes stay behind at the limit. A pong
  without payload is dropped when exactly 10 bytes are free. The answer to an
  upgrade is framed if its first write was partial.
- CONNECT, PUBLISH and DISCONNECT in one go during asynchronous authentication lose
  the PUBLISH. The queue for it holds up to 65 packets.
- A client of keep-alive 0 with a full socket is never removed, and one that sent
  CONNECT and was never let in is checked once and then stays (client.cpp:646;
  `LimboIsRemoved`). When DISCONNECT does not fit the client stays in
  `SendPendingAppData`. Other threads may write after DISCONNECT.
- A delayed task that is erased by another one of the same batch is still performed
  (queuedtasks.cpp `performAll`; flashmq_public.h:315).
- A save that fails while writing (a full disk) leaves a partial file, which the
  destructor hashes and renames over the last good one; every start then fails
  with "unexpected end of file".

**Bridges and packets**

- When the configuration of a bridge changes, its old connection is not ended and goes
  on beside the new one (threaddata.cpp:845, against man/flashmq.conf.5.dbk5:1236;
  `OldConnectionEnds`). Two reloads that overlap can leave
  it down. `BridgeConfig::operator==` ignores the minimum TLS version.
- A bridge reads Maximum QoS of the CONNACK (mqttpacket.cpp:1041) but uses it for
  subscriptions only (:1417): publishing with more gets it disconnected.
- `clientid_prefix` may have 10 characters (configfileparser.cpp:781), the connections of
  a bridge append "_N", and the server refuses more than 12 (mqttpacket.cpp:812).
- Lax parsing: retain handling 3 and the reserved bits of SUBSCRIBE options are accepted,
  Maximum QoS 2 is read, 51 user properties are allowed, bytes after CONNECT ignored,
  strings longer than 65535 truncated. Duplicate filters of one SUBSCRIBE apply in
  reverse order. With MQTT 3.1 a denied subscription is reported as granted.

**Permissions**

- `loginCheck` asks the plugin after the password file denied, which the manual excludes
  (man/flashmq.conf.5.dbk5:79). A file that changes twice within a second is missed
  (plugin.cpp:717, 808; `SameSecond = TRUE`). `register_will` is checked as Read. An ACL file
  that becomes unreadable between the check and opening it loads an empty tree.
  A topic with a space makes the whole file invalid. The first line of a user in the
  password file counts. A reload that fails in a bridge's TLS leaves the plugin as
  it was although the log says that checks will fail (threaddata.cpp:1348).

**Configuration and main thread**

- A reload that throws after `settings = ...` (mainapp.cpp:1066) leaves the settings of
  the main thread different from those of threads and timers. The next one that
  works compares with the half of it, so timers never follow.
- If a listener becomes invalid between the test and the real load, its old sockets
  stay open and nobody accepts. A certificate that cannot be loaded after the
  sockets were cleared leaves the broker without listeners, although a comment says
  "Atomic loading, first test.".
- A signal to reload during the start makes sockets listen before the threads are
  ready. An event of a descriptor that has gone inserts an empty listener, on which
  a later start of listening throws.
- Bridge names are checked before connections are multiplied: "b" with three and a
  bridge "b_0" collide, and one disappears. The names of shares change when
  `storage_dir` does (bridgeconfig.h: "remain constant").
- Options: `tcp_nodelay` of a bridge is true whatever its value; `haproxy off` does not undo
  `on`; log level "error" becomes warning; `rebuild_subscription_tree_interval_seconds` is
  valid and ignored; several have no lower bound (buffer size 1, packet size and string
  length 0, negative expiry). An indented `include_dir` is ignored, and one that
  includes its own directory never ends. Without TLS listeners
  (`drop_on_absent_certificate`) the default plain listener on 1883 opens.

## 7. What is not modelled

- *Data*: UTF-8 and invalid characters, the content of payloads and properties, formats
  of rows in state files and older formats, the text of HTTP, masks of frames.
- *Libraries*: OpenSSL handshakes, epoll and the file system beyond how the code uses
  them (marked external in the map), plugins beyond their results and exceptions.
- *Plumbing*: the logger, statistics, string helpers, memory trim, fuzzing mode, PROXY
  headers. They keep no state that a property could be about.
- *Parts of components*, as `PROJECT.json` says: refusal of a session to another user,
  topics of a bridge, saving of the subscription tree, counters for `$SYS`.
- *Time of locks*: a section under a mutex is atomic, and a lock is always released.

## 8. Plan

The proof that would come next is that of `WrappingIsSound` (frames and TLS records
between three buffers).

Models that would come next: the topics of a bridge and its use of the counters of a
client session, and sessions of several users.

## 9. How to run

    tlc -workers 2 -config MCQoSSingle.cfg QoSSession
    tlc -workers 2 -config MCRegistryTakeover.cfg MCMainRegistry
    tlc -workers 2 -config MCStore.cfg MCStore
    tlapm QoSIdsProofs.tla

`PROJECT.json` "runs" names the module of each configuration. The longest takes about
two minutes; the proofs of `WorkerProofs` and `SessionRegistryProofs` take about eight, those of
`RoutingProofs` five, those of the other modules less.
