--------------------------- MODULE QoSPublishQueue ---------------------------
(* Class QoSPublishQueue: the publishes of a session that wait for an        *)
(* acknowledgement, in a map by packet id, in a doubly linked list in order  *)
(* of arrival, and in an index by expiry time.  All calls are made under the *)
(* mutex of the session's QoSData.                                           *)
(*                                                                           *)
(* An object of class QueuedPublish is its number in order of creation, 0 is *)
(* a null pointer.  head, tail and the map own the objects; the links and    *)
(* the index are weak pointers, which are null once the object is gone.      *)
EXTENDS Integers

CONSTANTS
    Ids,         \* packet ids
    Footprints,  \* bytes a publish takes
    MaxObjects,  \* bound: publishes queued
    MaxTime      \* bound: seconds

ASSUME QueueBounds == MaxObjects \in Nat /\ MaxTime \in Nat
ASSUME InputsAssumption == 0 \notin Ids /\ Footprints \subseteq Nat

Objects == 1..MaxObjects
Pointers == 0..MaxObjects
Never == 0
NoId == 0
Expiries == 0..MaxTime

VARIABLES
    head, tail, queue,   \* owners
    queueExpirations,    \* records of a time and an object
    qosQueueBytes,
    prev, next,          \* QueuedPublish: the links
    packetId, footprint, expires,
    made,                \* how many objects were created
    clearing,            \* inside clearExpiredMessages
    now

owners == <<head, tail, queue>>
links == <<prev, next>>
objects == <<packetId, footprint, expires, made>>
vars == <<owners, queueExpirations, qosQueueBytes, links, objects, clearing, now>>

Queued == {o \in Objects : \E id \in Ids : queue[id] = o}

Alive(o) == o # 0 /\ (o = head \/ o = tail \/ o \in Queued)

\* std::weak_ptr::lock
Lock(o) == IF Alive(o) THEN o ELSE 0

-----------------------------------------------------------------------------

AddToHeadOfLinkedList(o) ==
    /\ prev' = [prev EXCEPT ![o] = head]
    /\ next' = IF head # 0 THEN [next EXCEPT ![head] = o] ELSE next
    /\ head' = o
    /\ tail' = IF tail = 0 THEN o ELSE tail

AddToExpirationQueue(o, when) ==
    queueExpirations' =
        IF when # Never
        THEN queueExpirations \cup {[at |-> when, object |-> o]}
        ELSE queueExpirations

\* queuePublish, both of them.  The caller took the packet id from the ids
\* that are not in use.
QueuePublish(id, bytes, when) ==
    LET o == made + 1
    IN  /\ ~clearing /\ made < MaxObjects
        /\ queue[id] = 0
        /\ made' = o
        /\ packetId' = [packetId EXCEPT ![o] = id]
        /\ footprint' = [footprint EXCEPT ![o] = bytes]
        /\ expires' = [expires EXCEPT ![o] = when]
        /\ AddToHeadOfLinkedList(o)
        /\ qosQueueBytes' = qosQueueBytes + bytes
        /\ AddToExpirationQueue(o, when)
        /\ queue' = [queue EXCEPT ![id] = o]
        /\ UNCHANGED <<clearing, now>>

\* Mutant: the tail does not move on.
RelinkKeepsTail(o) ==
    LET p == Lock(prev[o])
        n == Lock(next[o])
        nextLinks == IF p # 0 THEN [next EXCEPT ![p] = next[o]] ELSE next
        prevLinks == IF n # 0 THEN [prev EXCEPT ![n] = prev[o]] ELSE prev
    IN  /\ next' = [nextLinks EXCEPT ![o] = 0]
        /\ prev' = [prevLinks EXCEPT ![o] = 0]
        /\ head' = IF head = o THEN p ELSE head
        /\ UNCHANGED tail

\* The neighbours of o are linked to each other.  The links of o go with it.
Relink(o) ==
    LET p == Lock(prev[o])
        n == Lock(next[o])
        nextLinks == IF p # 0 THEN [next EXCEPT ![p] = next[o]] ELSE next
        prevLinks == IF n # 0 THEN [prev EXCEPT ![n] = prev[o]] ELSE prev
    IN  /\ next' = [nextLinks EXCEPT ![o] = 0]
        /\ prev' = [prevLinks EXCEPT ![o] = 0]
        /\ head' = IF head = o THEN p ELSE head
        /\ tail' = IF tail = o THEN n ELSE tail

\* The map was the last to own the object, which is destroyed.
EraseFromMapAndRelinkList(o) ==
    /\ Relink(o)
    /\ queue' = [queue EXCEPT ![packetId[o]] = 0]
    /\ packetId' = [packetId EXCEPT ![o] = NoId]
    /\ footprint' = [footprint EXCEPT ![o] = 0]
    /\ expires' = [expires EXCEPT ![o] = Never]

SubtractQoSBytes(o) ==
    qosQueueBytes' = IF qosQueueBytes >= footprint[o] THEN qosQueueBytes - footprint[o] ELSE 0

\* erase, of a packet id that is in the queue
Erase(id) ==
    /\ ~clearing
    /\ queue[id] # 0
    /\ SubtractQoSBytes(queue[id])
    /\ EraseFromMapAndRelinkList(queue[id])
    /\ UNCHANGED <<queueExpirations, made, clearing, now>>

-----------------------------------------------------------------------------
(* clearExpiredMessages: a loop over the index, which looks at the clock     *)
(* every time.                                                               *)

FirstExpiration(x) ==
    x \in queueExpirations /\ \A y \in queueExpirations : x.at <= y.at

BeginClear ==
    /\ ~clearing
    /\ \E x \in queueExpirations : FirstExpiration(x) /\ x.at <= now
    /\ clearing' = TRUE
    /\ UNCHANGED <<owners, queueExpirations, qosQueueBytes, links, objects, now>>

\* One round: the entry goes, and its publish if it is still in the queue.
ClearOne ==
    /\ clearing
    /\ \E x \in queueExpirations :
          LET o == Lock(x.object)
          IN  /\ FirstExpiration(x) /\ x.at <= now
              /\ queueExpirations' = queueExpirations \ {x}
              /\ IF o # 0 /\ queue[packetId[o]] = o
                 THEN SubtractQoSBytes(o) /\ EraseFromMapAndRelinkList(o)
                 ELSE UNCHANGED <<owners, links, qosQueueBytes, packetId, footprint, expires>>
    /\ UNCHANGED <<made, clearing, now>>

EndClear ==
    /\ clearing
    /\ \A x \in queueExpirations : x.at > now
    /\ clearing' = FALSE
    /\ UNCHANGED <<owners, queueExpirations, qosQueueBytes, links, objects, now>>

Tick ==
    /\ now < MaxTime
    /\ now' = now + 1
    /\ UNCHANGED <<owners, queueExpirations, qosQueueBytes, links, objects, clearing>>

-----------------------------------------------------------------------------
Init ==
    /\ head = 0 /\ tail = 0 /\ queue = [id \in Ids |-> 0]
    /\ queueExpirations = {} /\ qosQueueBytes = 0
    /\ prev = [o \in Objects |-> 0] /\ next = [o \in Objects |-> 0]
    /\ packetId = [o \in Objects |-> NoId]
    /\ footprint = [o \in Objects |-> 0] /\ expires = [o \in Objects |-> Never]
    /\ made = 0 /\ clearing = FALSE /\ now = 0

\* Everything the bounds allow has happened.
Finished ==
    /\ made = MaxObjects /\ now = MaxTime
    /\ Queued = {} /\ queueExpirations = {} /\ ~clearing
    /\ UNCHANGED vars

Next ==
    \/ \E id \in Ids, bytes \in Footprints, when \in Expiries : QueuePublish(id, bytes, when)
    \/ \E id \in Ids : Erase(id)
    \/ BeginClear \/ ClearOne \/ EndClear
    \/ Tick
    \/ Finished

Spec == Init /\ [][Next]_vars

-----------------------------------------------------------------------------
(* Every variable has its type; the map has an object under its packet id.   *)
TypeOK ==
    /\ head \in Pointers /\ tail \in Pointers /\ queue \in [Ids -> Pointers]
    /\ queueExpirations \subseteq [at : 1..MaxTime, object : Objects]
    /\ qosQueueBytes \in Nat
    /\ prev \in [Objects -> Pointers] /\ next \in [Objects -> Pointers]
    /\ packetId \in [Objects -> Ids \cup {NoId}]
    /\ footprint \in [Objects -> Nat] /\ expires \in [Objects -> Expiries]
    /\ made \in Pointers /\ clearing \in BOOLEAN /\ now \in 0..MaxTime
    /\ \A id \in Ids : queue[id] # 0 => queue[id] <= made /\ packetId[queue[id]] = id

\* n is the first queued object after o, or 0 if there is none.
IsAfter(n, o) ==
    IF n = 0
    THEN \A m \in Queued : m <= o
    ELSE n \in Queued /\ n > o /\ \A m \in Queued : m <= o \/ n <= m

\* n is the last queued object before o, or 0 if there is none.
IsBefore(n, o) ==
    IF n = 0
    THEN \A m \in Queued : m >= o
    ELSE n \in Queued /\ n < o /\ \A m \in Queued : m >= o \/ n >= m

(* The linked list has the publishes of the map, in order of arrival: from   *)
(* the tail every step along next goes to the publish that was queued next,  *)
(* whatever was acknowledged or expired in between.  A walk to send them     *)
(* again (Session::sendAllPendingQosData) thus reaches all of them in order. *)
ListInOrder ==
    /\ IsAfter(tail, 0)
    /\ IsBefore(head, MaxObjects + 1)
    /\ \A o \in Queued : IsAfter(next[o], o) /\ IsBefore(prev[o], o)

(* After clearExpiredMessages no publish in the queue is expired: the index  *)
(* has every publish that can expire, in the order in which they do.         *)
NothingExpiredAfterClear ==
    [][clearing /\ ~clearing' => \A o \in Queued' : expires'[o] = Never \/ expires'[o] > now]_vars
=============================================================================
