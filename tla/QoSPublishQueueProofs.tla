------------------------ MODULE QoSPublishQueueProofs ------------------------
(* The linked list of QoSPublishQueue has the publishes of the map in order  *)
(* of arrival, and the index by expiry misses none, for any packet ids, any  *)
(* footprints and any number of publishes.                                   *)
EXTENDS QoSPublishQueue, TLAPS

-----------------------------------------------------------------------------
(* The map                                                                   *)

LEMMA QueuedInMap ==
    ASSUME TypeOK, NEW o \in Queued
    PROVE  /\ o \in Objects /\ o <= made
           /\ packetId[o] \in Ids /\ queue[packetId[o]] = o
<1>1. PICK id \in Ids : queue[id] = o
    BY DEF Queued
<1>2. o \in Objects /\ o # 0
    BY DEF Queued, Objects
<1> QED
    BY <1>1, <1>2 DEF TypeOK

\* What the links point to is alive: lock() is the pointer itself.
LEMMA LockOfLink ==
    ASSUME NEW n, n = 0 \/ n \in Queued
    PROVE  Lock(n) = n
<1>1. CASE n = 0
    BY <1>1 DEF Lock, Alive
<1>2. CASE n \in Queued
    <2>1. n # 0
        BY <1>2, QueueBounds DEF Queued, Objects
    <2> QED
        BY <1>2, <2>1 DEF Lock, Alive
<1> QED
    BY <1>1, <1>2

LEMMA LinksOfQueued ==
    ASSUME ListInOrder, NEW o \in Queued
    PROVE  Lock(next[o]) = next[o] /\ Lock(prev[o]) = prev[o]
<1>1. next[o] = 0 \/ next[o] \in Queued
    BY DEF ListInOrder, IsAfter
<1>2. prev[o] = 0 \/ prev[o] \in Queued
    BY DEF ListInOrder, IsBefore
<1> QED
    BY <1>1, <1>2, LockOfLink

-----------------------------------------------------------------------------
(* A publish leaves the queue                                                *)

LEMMA EraseLeavesRest ==
    ASSUME TypeOK, NEW o \in Queued, EraseFromMapAndRelinkList(o)
    PROVE  Queued' = Queued \ {o}
<1>1. \A id \in Ids : queue'[id] = IF id = packetId[o] THEN 0 ELSE queue[id]
    BY QueuedInMap DEF EraseFromMapAndRelinkList, TypeOK
<1>2. \A id \in Ids : queue[id] = o => id = packetId[o]
    BY QueuedInMap DEF TypeOK, Objects
<1>3. \A x \in Objects : x \in Queued' <=> x \in Queued /\ x # o
    BY <1>1, <1>2, QueuedInMap, QueueBounds DEF Queued, Objects
<1> QED
    BY <1>3 DEF Queued

LEMMA EraseKeepsTypes ==
    ASSUME TypeOK, ListInOrder, NEW o \in Queued, EraseFromMapAndRelinkList(o)
    PROVE  /\ head' \in Pointers /\ tail' \in Pointers /\ queue' \in [Ids -> Pointers]
           /\ prev' \in [Objects -> Pointers] /\ next' \in [Objects -> Pointers]
           /\ packetId' \in [Objects -> Ids \cup {NoId}]
           /\ footprint' \in [Objects -> Nat] /\ expires' \in [Objects -> Expiries]
           /\ \A id \in Ids : queue'[id] # 0 => queue'[id] <= made /\ packetId'[queue'[id]] = id
<1>0. o \in Objects /\ Lock(next[o]) = next[o] /\ Lock(prev[o]) = prev[o]
    BY QueuedInMap, LinksOfQueued
<1>1. next[o] \in Pointers /\ prev[o] \in Pointers
    BY <1>0 DEF TypeOK
<1>2. head' \in Pointers /\ tail' \in Pointers
    BY <1>0, <1>1 DEF EraseFromMapAndRelinkList, Relink, TypeOK
<1>3. prev' \in [Objects -> Pointers] /\ next' \in [Objects -> Pointers]
    BY <1>0, <1>1, QueueBounds DEF EraseFromMapAndRelinkList, Relink, TypeOK, Pointers
<1>a. 0 \in Pointers /\ Never \in Expiries
    BY QueueBounds DEF Pointers, Expiries, Never
<1>4. queue' \in [Ids -> Pointers]
    BY <1>a DEF EraseFromMapAndRelinkList, TypeOK
<1>5. /\ packetId' \in [Objects -> Ids \cup {NoId}]
      /\ footprint' \in [Objects -> Nat] /\ expires' \in [Objects -> Expiries]
    BY <1>a DEF EraseFromMapAndRelinkList, TypeOK
<1>6. ASSUME NEW id \in Ids, queue'[id] # 0
      PROVE  queue'[id] <= made /\ packetId'[queue'[id]] = id
    <2>1. queue'[id] = queue[id] /\ id # packetId[o]
        BY <1>6, QueuedInMap DEF EraseFromMapAndRelinkList, TypeOK
    <2>2. queue[id] <= made /\ packetId[queue[id]] = id /\ queue[id] # o
        BY <1>6, <2>1 DEF TypeOK
    <2>3. queue[id] \in Objects
        BY <1>6, <2>1 DEF TypeOK, Pointers, Objects
    <2> QED
        BY <1>0, <2>1, <2>2, <2>3 DEF EraseFromMapAndRelinkList, TypeOK
<1> QED
    BY <1>2, <1>3, <1>4, <1>5, <1>6

LEMMA EraseKeepsOrder ==
    ASSUME TypeOK, ListInOrder, NEW o \in Queued, EraseFromMapAndRelinkList(o)
    PROVE  ListInOrder'
<1> DEFINE p == prev[o]
           n == next[o]
<1>1. Queued' = Queued \ {o}
    BY EraseLeavesRest
<1>2. Lock(next[o]) = n /\ Lock(prev[o]) = p
    BY LinksOfQueued
<1>3. Queued \subseteq Objects /\ \A m \in Queued : m \in Int /\ 0 < m /\ m <= MaxObjects
    BY DEF Queued, Objects
<1>4. /\ \A m \in Queued : IsAfter(next[m], m) /\ IsBefore(prev[m], m)
      /\ IsAfter(tail, 0) /\ IsBefore(head, MaxObjects + 1)
    BY DEF ListInOrder
<1>5. 0 \notin Queued
    BY DEF Queued, Objects
<1>6. \A m \in Queued : m # o => next'[m] = IF m = p THEN n ELSE next[m]
    BY <1>2, <1>3, <1>5 DEF EraseFromMapAndRelinkList, Relink, TypeOK
<1>7. \A m \in Queued : m # o => prev'[m] = IF m = n THEN p ELSE prev[m]
    BY <1>2, <1>3, <1>5 DEF EraseFromMapAndRelinkList, Relink, TypeOK
<1>8. tail' = (IF tail = o THEN n ELSE tail) /\ head' = (IF head = o THEN p ELSE head)
    BY <1>2 DEF EraseFromMapAndRelinkList, Relink
<1> HIDE DEF p, n
<1>9. IsAfter(n, o) /\ IsBefore(p, o)
    BY <1>4 DEF p, n
<1>10. IsAfter(tail, 0)'
    <2>1. CASE tail = o
        BY <1>1, <1>3, <1>4, <1>8, <1>9, <2>1 DEF IsAfter
    <2>2. CASE tail # o
        BY <1>1, <1>4, <1>8, <2>2 DEF IsAfter
    <2> QED
        BY <2>1, <2>2
<1>11. IsBefore(head, MaxObjects + 1)'
    <2>1. CASE head = o
        BY <1>1, <1>3, <1>4, <1>8, <1>9, <2>1, QueueBounds DEF IsBefore
    <2>2. CASE head # o
        BY <1>1, <1>4, <1>8, <2>2 DEF IsBefore
    <2> QED
        BY <2>1, <2>2
<1>12. ASSUME NEW m \in Queued, m # o
       PROVE  IsAfter(next[m], m)'
    <2>1. CASE m = p
        BY <1>1, <1>3, <1>5, <1>6, <1>9, <1>12, <2>1 DEF IsAfter, IsBefore
    <2>2. CASE m # p
        <3>1. IsAfter(next[m], m)
            BY <1>4
        <3>2. next[m] # o
            BY <1>3, <1>9, <1>12, <2>2, <3>1 DEF IsAfter, IsBefore
        <3> QED
            BY <1>1, <1>6, <1>12, <2>2, <3>1, <3>2 DEF IsAfter
    <2> QED
        BY <2>1, <2>2
<1>13. ASSUME NEW m \in Queued, m # o
       PROVE  IsBefore(prev[m], m)'
    <2>1. CASE m = n
        BY <1>1, <1>3, <1>5, <1>7, <1>9, <1>13, <2>1 DEF IsAfter, IsBefore
    <2>2. CASE m # n
        <3>1. IsBefore(prev[m], m)
            BY <1>4
        <3>2. prev[m] # o
            BY <1>3, <1>9, <1>13, <2>2, <3>1 DEF IsAfter, IsBefore
        <3> QED
            BY <1>1, <1>7, <1>13, <2>2, <3>1, <3>2 DEF IsBefore
    <2> QED
        BY <2>1, <2>2
<1> QED
    BY <1>1, <1>10, <1>11, <1>12, <1>13 DEF ListInOrder

-----------------------------------------------------------------------------
(* A publish joins the queue                                                 *)

\* An object that was not made yet links to nothing.
FreshUnlinked == \A o \in Objects : o > made => next[o] = 0

LEMMA AddJoinsQueue ==
    ASSUME TypeOK, NEW id \in Ids, NEW bytes \in Footprints, NEW when \in Expiries,
           QueuePublish(id, bytes, when)
    PROVE  Queued' = Queued \cup {made + 1} /\ made + 1 \in Objects
<1>1. made + 1 \in Objects
    BY QueueBounds DEF QueuePublish, TypeOK, Pointers, Objects
<1>2. \A i \in Ids : queue'[i] = IF i = id THEN made + 1 ELSE queue[i]
    BY DEF QueuePublish, TypeOK
<1>3. \A x \in Objects : x \in Queued' <=> x \in Queued \/ x = made + 1
    BY <1>2 DEF QueuePublish, Queued, Objects
<1> QED
    BY <1>1, <1>3 DEF Queued

LEMMA AddKeepsTypes ==
    ASSUME TypeOK, NEW id \in Ids, NEW bytes \in Footprints, NEW when \in Expiries,
           QueuePublish(id, bytes, when)
    PROVE  TypeOK'
<1> DEFINE o == made + 1
<1>1. o \in Objects /\ o \in Pointers /\ made \in Nat
    BY QueueBounds, AddJoinsQueue DEF Objects, Pointers, TypeOK
<1>2. made' = o /\ head' = o /\ clearing' = clearing /\ now' = now
    BY DEF QueuePublish, AddToHeadOfLinkedList
<1>3. tail' \in Pointers
    BY <1>1 DEF QueuePublish, AddToHeadOfLinkedList, TypeOK
<1>4. queue' \in [Ids -> Pointers]
    BY <1>1 DEF QueuePublish, TypeOK
<1>5. queueExpirations' \subseteq [at : 1..MaxTime, object : Objects]
    BY <1>1, QueueBounds DEF QueuePublish, AddToExpirationQueue, TypeOK, Expiries, Never
<1>6. prev' \in [Objects -> Pointers] /\ next' \in [Objects -> Pointers]
    BY <1>1 DEF QueuePublish, AddToHeadOfLinkedList, TypeOK
<1>7. /\ packetId' \in [Objects -> Ids \cup {NoId}]
      /\ footprint' \in [Objects -> Nat] /\ expires' \in [Objects -> Expiries]
    BY <1>1, InputsAssumption DEF QueuePublish, TypeOK
<1>8. qosQueueBytes' \in Nat
    BY InputsAssumption DEF QueuePublish, TypeOK
<1>9. ASSUME NEW i \in Ids, queue'[i] # 0
      PROVE  queue'[i] <= made' /\ packetId'[queue'[i]] = i
    <2>1. CASE i = id
        BY <1>1, <1>2, <2>1 DEF QueuePublish, TypeOK
    <2>2. CASE i # id
        <3>1. queue'[i] = queue[i] /\ queue[i] <= made /\ packetId[queue[i]] = i
            BY <1>9, <2>2 DEF QueuePublish, TypeOK
        <3>2. queue[i] \in Objects /\ queue[i] # o
            BY <1>1, <1>9, <3>1 DEF TypeOK, Pointers, Objects
        <3> QED
            BY <1>1, <1>2, <3>1, <3>2 DEF QueuePublish, TypeOK, Objects
    <2> QED
        BY <2>1, <2>2
<1> QED
    BY <1>1, <1>2, <1>3, <1>4, <1>5, <1>6, <1>7, <1>8, <1>9 DEF TypeOK

LEMMA AddKeepsOrder ==
    ASSUME TypeOK, ListInOrder, FreshUnlinked,
           NEW id \in Ids, NEW bytes \in Footprints, NEW when \in Expiries,
           QueuePublish(id, bytes, when)
    PROVE  ListInOrder'
<1>0. PICK o : o = made + 1
    OBVIOUS
<1>1. Queued' = Queued \cup {o} /\ o \in Objects
    BY <1>0, AddJoinsQueue
<1>2. \A m \in Queued : m \in Objects /\ m \in Int /\ 0 < m /\ m < o /\ m <= MaxObjects
    BY <1>0, QueuedInMap, QueueBounds DEF Objects, TypeOK, Pointers
<1>3. /\ \A m \in Queued : IsAfter(next[m], m) /\ IsBefore(prev[m], m)
      /\ IsAfter(tail, 0) /\ IsBefore(head, MaxObjects + 1)
    BY DEF ListInOrder
<1>4. /\ next'[o] = 0 /\ prev'[o] = head
      /\ \A m \in Queued : next'[m] = (IF m = head THEN o ELSE next[m]) /\ prev'[m] = prev[m]
    <2>1. next[o] = 0
        BY <1>0, <1>1, QueueBounds DEF FreshUnlinked, TypeOK, Pointers
    <2>2. head # o
        BY <1>1, <1>2, <1>3, QueueBounds DEF IsBefore, Objects
    <2> QED
        BY <1>0, <1>1, <1>2, <2>1, <2>2 DEF QueuePublish, AddToHeadOfLinkedList, TypeOK
<1>5. head' = o /\ tail' = (IF tail = 0 THEN o ELSE tail)
    BY <1>0 DEF QueuePublish, AddToHeadOfLinkedList
<1>6. o \in Int /\ 0 < o /\ o <= MaxObjects
    BY <1>1, QueueBounds DEF Objects
<1>7. IsAfter(tail, 0)'
    BY <1>1, <1>2, <1>3, <1>5, <1>6 DEF IsAfter
<1>8. IsBefore(head, MaxObjects + 1)'
    BY <1>1, <1>2, <1>5, <1>6, QueueBounds DEF IsBefore
<1>9. IsAfter(next[o], o)' /\ IsBefore(prev[o], o)'
    BY <1>1, <1>2, <1>3, <1>4, <1>6, QueueBounds DEF IsAfter, IsBefore
<1>10. ASSUME NEW m \in Queued
       PROVE  IsAfter(next[m], m)' /\ IsBefore(prev[m], m)'
    <2>1. IsBefore(prev[m], m)'
        BY <1>1, <1>2, <1>3, <1>4, <1>6 DEF IsBefore
    <2>2. CASE m = head
        BY <1>1, <1>2, <1>3, <1>4, <1>6, <2>1, <2>2, QueueBounds DEF IsAfter, IsBefore
    <2>3. CASE m # head
        <3>1. next[m] # 0
            BY <1>2, <1>3, <2>3, QueueBounds DEF IsAfter, IsBefore
        <3> QED
            BY <1>1, <1>2, <1>3, <1>4, <1>6, <2>1, <2>3, <3>1 DEF IsAfter
    <2> QED
        BY <2>2, <2>3
<1> QED
    BY <1>1, <1>7, <1>8, <1>9, <1>10 DEF ListInOrder

-----------------------------------------------------------------------------
(* The inductive invariant                                                   *)

\* Every queued publish that can expire has its entry in the index.
IndexComplete ==
    \A o \in Queued :
        expires[o] # Never => [at |-> expires[o], object |-> o] \in queueExpirations

IInv == TypeOK /\ ListInOrder /\ FreshUnlinked /\ IndexComplete

LEMMA InitIInv == Init => IInv
<1> SUFFICES ASSUME Init PROVE IInv
    OBVIOUS
<1>1. Queued = {}
    BY DEF Init, Queued, Objects
<1>2. 0 \in Pointers /\ Never \in Expiries /\ 0 \in 0..MaxTime
    BY QueueBounds DEF Pointers, Expiries, Never
<1>3. TypeOK
    BY <1>2 DEF Init, TypeOK
<1> QED
    BY <1>1, <1>3 DEF Init, IInv, ListInOrder, IsAfter, IsBefore, FreshUnlinked, IndexComplete

\* Steps that leave the map, the list and the objects alone.
LEMMA SameQueue ==
    ASSUME IInv, UNCHANGED <<owners, links, objects, qosQueueBytes>>,
           queueExpirations' = queueExpirations, clearing' \in BOOLEAN, now' \in 0..MaxTime
    PROVE  IInv'
<1>1. Queued' = Queued
    BY DEF owners, Queued
<1>2. TypeOK'
    BY DEF IInv, TypeOK, owners, links, objects
<1>3. ListInOrder'
    BY <1>1 DEF IInv, ListInOrder, IsAfter, IsBefore, owners, links
<1> QED
    BY <1>1, <1>2, <1>3 DEF IInv, FreshUnlinked, IndexComplete, links, objects

LEMMA QueuePublishKeeps ==
    ASSUME IInv, NEW id \in Ids, NEW bytes \in Footprints, NEW when \in Expiries,
           QueuePublish(id, bytes, when)
    PROVE  IInv'
<1>0. TypeOK /\ ListInOrder /\ FreshUnlinked /\ IndexComplete
    BY DEF IInv
<1>1. PICK o : o = made + 1
    OBVIOUS
<1>2. Queued' = Queued \cup {o} /\ o \in Objects
    BY <1>0, <1>1, AddJoinsQueue
<1>3. TypeOK' /\ ListInOrder'
    BY <1>0, AddKeepsTypes, AddKeepsOrder
<1>4. FreshUnlinked'
    <2> SUFFICES ASSUME NEW x \in Objects, x > made'
                 PROVE  next'[x] = 0
        BY DEF FreshUnlinked
    <2>1. x > made /\ made' = made + 1
        BY <1>0 DEF QueuePublish, TypeOK, Pointers, Objects
    <2>2. head = 0 \/ head \in Queued
        BY <1>0 DEF ListInOrder, IsBefore
    <2>3. head <= made
        BY <1>0, <2>2, QueuedInMap DEF TypeOK, Pointers
    <2>4. x # head
        BY <1>0, <2>1, <2>3 DEF TypeOK, Pointers, Objects
    <2> QED
        BY <1>0, <2>1, <2>4 DEF FreshUnlinked, QueuePublish, AddToHeadOfLinkedList, TypeOK
<1>5. IndexComplete'
    <2> SUFFICES ASSUME NEW x \in Queued', expires'[x] # Never
                 PROVE  [at |-> expires'[x], object |-> x] \in queueExpirations'
        BY DEF IndexComplete
    <2>1. CASE x = o
        BY <1>0, <1>1, <1>2, <2>1 DEF QueuePublish, AddToExpirationQueue, TypeOK
    <2>2. CASE x # o
        BY <1>0, <1>1, <1>2, <2>2, QueuedInMap
        DEF IndexComplete, QueuePublish, AddToExpirationQueue, TypeOK
    <2> QED
        BY <2>1, <2>2
<1> QED
    BY <1>3, <1>4, <1>5 DEF IInv

\* A publish leaves the queue, and at most its own entry leaves the index.
LEMMA RemovalKeeps ==
    ASSUME IInv, NEW o \in Queued, EraseFromMapAndRelinkList(o), SubtractQoSBytes(o),
           UNCHANGED <<made, clearing, now>>, queueExpirations' \subseteq queueExpirations,
           \A x \in queueExpirations : x.object # o => x \in queueExpirations'
    PROVE  IInv'
<1>0. TypeOK /\ ListInOrder /\ FreshUnlinked /\ IndexComplete
    BY DEF IInv
<1>1. Queued' = Queued \ {o} /\ o \in Objects
    BY <1>0, EraseLeavesRest, QueuedInMap
<1>2. TypeOK'
    <2>1. qosQueueBytes' \in Nat
        BY <1>0, <1>1 DEF SubtractQoSBytes, TypeOK
    <2>2. queueExpirations' \subseteq [at : 1..MaxTime, object : Objects]
        BY <1>0 DEF TypeOK
    <2>3. made' \in Pointers /\ clearing' \in BOOLEAN /\ now' \in 0..MaxTime
        BY <1>0 DEF TypeOK
    <2> QED
        BY <1>0, <2>1, <2>2, <2>3, EraseKeepsTypes DEF TypeOK
<1>3. ListInOrder'
    BY <1>0, EraseKeepsOrder
<1>4. FreshUnlinked'
    <2> SUFFICES ASSUME NEW x \in Objects, x > made
                 PROVE  next'[x] = 0
        BY DEF FreshUnlinked
    <2>1. next[x] = 0
        BY <1>0 DEF FreshUnlinked
    <2>2. Lock(prev[o]) = 0 \/ Lock(prev[o]) \in Queued
        BY <1>0, LinksOfQueued DEF ListInOrder, IsBefore
    <2>3. Lock(prev[o]) # x
        BY <1>0, <2>2, QueuedInMap DEF TypeOK, Pointers, Objects
    <2> QED
        BY <1>0, <1>1, <2>1, <2>3 DEF EraseFromMapAndRelinkList, Relink, TypeOK
<1>5. IndexComplete'
    <2> SUFFICES ASSUME NEW x \in Queued, x # o, expires'[x] # Never
                 PROVE  [at |-> expires'[x], object |-> x] \in queueExpirations'
        BY <1>1 DEF IndexComplete
    <2>1. expires'[x] = expires[x]
        BY <1>0, QueuedInMap DEF EraseFromMapAndRelinkList, TypeOK
    <2> QED
        BY <1>0, <2>1 DEF IndexComplete
<1> QED
    BY <1>2, <1>3, <1>4, <1>5 DEF IInv

LEMMA EraseKeeps ==
    ASSUME IInv, NEW id \in Ids, Erase(id)
    PROVE  IInv'
<1>1. queue[id] \in Queued
    BY DEF Erase, Queued, IInv, TypeOK, Pointers, Objects
<1> QED
    BY <1>1, RemovalKeeps DEF Erase

\* The entry goes from the index, and its publish from the queue if it has it.
LEMMA ClearOneKeeps ==
    ASSUME IInv, ClearOne
    PROVE  IInv'
<1>0. TypeOK /\ ListInOrder /\ FreshUnlinked /\ IndexComplete
    BY DEF IInv
<1>1. PICK x \in queueExpirations :
          LET o == Lock(x.object)
          IN  /\ queueExpirations' = queueExpirations \ {x}
              /\ IF o # 0 /\ queue[packetId[o]] = o
                 THEN SubtractQoSBytes(o) /\ EraseFromMapAndRelinkList(o)
                 ELSE UNCHANGED <<owners, links, qosQueueBytes, packetId, footprint, expires>>
    BY DEF ClearOne, FirstExpiration
<1>2. x.object \in Objects /\ UNCHANGED <<made, clearing, now>>
    BY <1>0 DEF ClearOne, TypeOK
<1>3. CASE x.object \in Queued
    <2>1. Lock(x.object) = x.object /\ x.object # 0
        BY <1>2, <1>3, LockOfLink DEF Objects
    <2>2. queue[packetId[x.object]] = x.object
        BY <1>0, <1>3, QueuedInMap
    <2>3. SubtractQoSBytes(x.object) /\ EraseFromMapAndRelinkList(x.object)
        BY <1>1, <2>1, <2>2
    <2> QED
        BY <1>1, <1>2, <1>3, <2>3, RemovalKeeps
<1>4. CASE x.object \notin Queued
    <2>1. (head = 0 \/ head \in Queued) /\ (tail = 0 \/ tail \in Queued)
        BY <1>0 DEF ListInOrder, IsAfter, IsBefore
    <2>2. Lock(x.object) = 0
        BY <1>4, <2>1 DEF Lock, Alive
    <2>3. UNCHANGED <<owners, links, objects, qosQueueBytes>>
        BY <1>1, <1>2, <2>2 DEF objects
    <2>4. Queued' = Queued
        BY <2>3 DEF owners, Queued
    <2>5. TypeOK'
        BY <1>0, <1>1, <1>2, <2>3 DEF TypeOK, owners, links, objects
    <2>6. ListInOrder'
        BY <1>0, <2>3, <2>4 DEF ListInOrder, IsAfter, IsBefore, owners, links
    <2>7. FreshUnlinked'
        BY <1>0, <2>3 DEF FreshUnlinked, links, objects
    <2>8. IndexComplete'
        BY <1>0, <1>1, <1>4, <2>3, <2>4 DEF IndexComplete, objects
    <2> QED
        BY <2>5, <2>6, <2>7, <2>8 DEF IInv
<1> QED
    BY <1>3, <1>4

LEMMA StepKeepsIInv == IInv /\ [Next]_vars => IInv'
<1> SUFFICES ASSUME IInv, [Next]_vars PROVE IInv'
    OBVIOUS
<1>0. clearing \in BOOLEAN /\ now \in 0..MaxTime
    BY DEF IInv, TypeOK
<1>1. ASSUME NEW id \in Ids, NEW bytes \in Footprints, NEW when \in Expiries,
             QueuePublish(id, bytes, when)
      PROVE  IInv'
    BY <1>1, QueuePublishKeeps
<1>2. ASSUME NEW id \in Ids, Erase(id) PROVE IInv'
    BY <1>2, EraseKeeps
<1>3. CASE BeginClear
    BY <1>0, <1>3, SameQueue DEF BeginClear
<1>4. CASE ClearOne
    BY <1>4, ClearOneKeeps
<1>5. CASE EndClear
    BY <1>0, <1>5, SameQueue DEF EndClear
<1>6. CASE Tick
    <2>1. now' \in 0..MaxTime
        BY <1>0, <1>6, QueueBounds DEF Tick
    <2> QED
        BY <1>0, <1>6, <2>1, SameQueue DEF Tick
<1>7. CASE UNCHANGED vars
    BY <1>0, <1>7, SameQueue DEF vars
<1> QED
    BY <1>1, <1>2, <1>3, <1>4, <1>5, <1>6, <1>7 DEF Next, Finished

THEOREM InvariantHolds == Spec => []IInv
<1> QED
    BY InitIInv, StepKeepsIInv, PTL DEF Spec

(* Every variable keeps its type, and the map has each publish under its own *)
(* packet id (qospacketqueue.cpp:82-103, 190, 209).                          *)
THEOREM TypeCorrect == Spec => []TypeOK
<1>1. IInv => TypeOK
    BY DEF IInv
<1> QED
    BY <1>1, InvariantHolds, PTL

(* The linked list has exactly the publishes of the map, in order of         *)
(* arrival, after any acknowledgements and expirations.                      *)
THEOREM ListStaysInOrder == Spec => []ListInOrder
<1>1. IInv => ListInOrder
    BY DEF IInv
<1> QED
    BY <1>1, InvariantHolds, PTL

NoneExpired ==
    clearing /\ ~clearing' => \A o \in Queued' : expires'[o] = Never \/ expires'[o] > now

(* When clearExpiredMessages returns, no publish in the queue is expired.    *)
THEOREM ClearIsThorough == Spec => NothingExpiredAfterClear
<1>1. IInv /\ [Next]_vars => [NoneExpired]_vars
    <2> SUFFICES ASSUME IInv, Next, clearing, ~clearing', NEW o \in Queued', expires'[o] # Never
                 PROVE  expires'[o] > now
        BY DEF NoneExpired
    <2>1. EndClear
        BY DEF Next, QueuePublish, Erase, BeginClear, ClearOne, Tick, Finished, vars
    <2>2. o \in Queued /\ expires' = expires
        BY <2>1 DEF EndClear, Queued, owners, objects
    <2>3. [at |-> expires[o], object |-> o] \in queueExpirations
        BY <2>2 DEF IInv, IndexComplete
    <2> QED
        BY <2>1, <2>2, <2>3 DEF EndClear
<1>2. Spec => [][NoneExpired]_vars
    BY <1>1, InvariantHolds, PTL DEF Spec
<1> QED
    BY <1>2 DEF NothingExpiredAfterClear, NoneExpired
=============================================================================
