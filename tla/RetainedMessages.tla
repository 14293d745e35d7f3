-------------------------- MODULE RetainedMessages --------------------------
(* Setting retained messages and expiring them (subscriptionstore.h:79,      *)
(* subscriptionstore.cpp:932-1136, 1395, 1624, 1823; threaddata.cpp:617,     *)
(* 865).  A thread walks to a node under the lock of the tree, keeps a        *)
(* shared pointer and writes the message without that lock.  When the lock is *)
(* taken the message may be queued and set later.  The expiry walks the tree *)
(* for 10 ms at a time and puts the rest off.                                *)
(*                                                                           *)
(* Nodes are paths, the root is <<>>.  The purge leaves a node alone while    *)
(* somebody has a pointer to it, so a path names one node as long as it is    *)
(* used.  A message is the number of its publish; 0 is no message, and the    *)
(* empty payload.  Left out: '$' topics, the maximum payload size, logging.   *)
EXTENDS Integers, FiniteSets, Sequences, SequencesExt, Functions

CONSTANTS
    RetTopics,      \* topics, sequences of levels
    RetThreads,     \* worker threads
    RetConfigs,     \* configurations: see rconf
    MaxSets,        \* bound on the publishes
    MaxQueued       \* bound on a thread's queue

ASSUME RetTopicsAssumption == RetTopics \subseteq Seq(STRING) \ {<<>>}
ASSUME MaxSetsAssumption == MaxSets \in Nat

RetPaths == UNION {{SubSeq(t, 1, n) : n \in 0..Len(t)} : t \in RetTopics}
Config == [threads : SUBSET RetThreads, mayExpire : BOOLEAN,
           deferTimeout : BOOLEAN,      \* set_retained_message_defer_timeout is not 0
           limit : Nat, depth : Nat]    \* retained_messages_node_creation_limit
ASSUME RetConfigsAssumption == RetConfigs \subseteq Config

VARIABLES
    rconf,          \* one of RetConfigs
    nodes,          \* the paths of the nodes in the tree
    message,        \* path -> publish number
    expired,        \* the nodes whose message has expired
    lately,         \* the nodes whose messageSetAt is within the node lifetime
    setter,         \* thread -> how far its setRetainedMessage is
    queued,         \* thread -> queuedRetainedMessages
    leafs,          \* deferredRetainedMessageNodeToPurge
    messageCount,   \* retainedMessageCount
    walkCount,      \* retainedMessageDeferredCounter
    published,      \* how many publishes there were
    candidates,     \* topic -> what may be its message when all is set
    counting        \* may the count be trusted?

retVars == <<rconf, nodes, message, expired, lately, setter, queued, leafs,
             messageCount, walkCount, published, candidates, counting>>

-----------------------------------------------------------------------------
Free == [at |-> "idle"]
Jobs == [topic : RetTopics, value : 0..MaxSets]
Stages == [at : {"walk", "create", "store", "count"}, topic : RetTopics,
           value : 0..MaxSets, fromQueue : BOOLEAN, node : RetPaths, diff : -1..1]

RetTypeOK ==
    /\ rconf \in RetConfigs
    /\ nodes \subseteq RetPaths
    /\ message \in [RetPaths -> 0..MaxSets]
    /\ expired \subseteq RetPaths
    /\ lately \subseteq RetPaths
    /\ setter \in [RetThreads -> Stages \cup {Free}]
    /\ queued \in [RetThreads -> Seq(Jobs)]
    /\ leafs \in Seq(RetPaths)
    /\ messageCount \in Int
    /\ walkCount \in Nat
    /\ published \in 0..MaxSets
    /\ candidates \in [RetTopics -> SUBSET (0..MaxSets)]
    /\ counting \in BOOLEAN

RetInit ==
    /\ rconf \in RetConfigs
    /\ nodes = {<<>>}
    /\ message = [p \in RetPaths |-> 0]
    /\ expired = {}
    /\ lately = {}
    /\ setter = [t \in RetThreads |-> Free]
    /\ queued = [t \in RetThreads |-> <<>>]
    /\ leafs = <<>>
    /\ messageCount = 0
    /\ walkCount = 0
    /\ published = 0
    /\ candidates = [t \in RetTopics |-> {0}]
    /\ counting = TRUE

-----------------------------------------------------------------------------
Above(p, q) == Len(p) <= Len(q) /\ SubSeq(q, 1, Len(p)) = p
Below(p) == {q \in nodes : Above(p, q)}
ParentOf(p) == SubSeq(p, 1, Len(p) - 1)

\* recursiveChildCount: the constructor of a node adds one to all above it,
\* its destructor takes one off.
recursiveChildCount(p) == Cardinality(Below(p)) - 1

\* The deepest node on the way to the topic that is there.
LastNodeOf(topic) ==
    LET on == {n \in 0..Len(topic) : SubSeq(topic, 1, n) \in nodes}
    IN  SubSeq(topic, 1, CHOOSE n \in on : \A m \in on : m <= n)

\* setRetainedLimitReached at the levels that the walk comes by, in mode
\* "reject": the limit refuses existing topics below that node as well.
LimitReached(topic, levels) ==
    /\ rconf.depth < levels
    /\ recursiveChildCount(SubSeq(topic, 1, rconf.depth)) >= rconf.limit

NodePointers == {setter[t].node : t \in {u \in RetThreads : setter[u].at \in {"create", "store"}}}

AllSet == \A t \in RetThreads : setter[t] = Free /\ queued[t] = <<>>

\* The first thing a publish with retain does (mqttpacket.cpp:2272): set it now,
\* or after those that are queued.
trySetRetainedMessages(t, topic, value) ==
    /\ t \in rconf.threads /\ setter[t] = Free
    /\ published < MaxSets
    /\ published' = published + 1
    /\ candidates' = [candidates EXCEPT ![topic] = IF AllSet THEN {value} ELSE @ \cup {value}]
    /\ IF queued[t] = <<>>
       THEN /\ setter' = [setter EXCEPT ![t] =
                             [at |-> "walk", topic |-> topic, value |-> value,
                              fromQueue |-> FALSE, node |-> <<>>, diff |-> 0]]
            /\ UNCHANGED queued
       ELSE /\ Len(queued[t]) < MaxQueued
            /\ queued' = [queued EXCEPT ![t] = <<[topic |-> topic, value |-> value]>> \o @]
            /\ UNCHANGED setter
    /\ UNCHANGED <<rconf, nodes, message, expired, lately, leafs, messageCount, walkCount,
                   counting>>

\* setQueuedRetainedMessages, one message of the list.
setQueuedRetainedMessages(t) ==
    /\ setter[t] = Free /\ queued[t] # <<>>
    /\ setter' = [setter EXCEPT ![t] =
                     [at |-> "walk", topic |-> Head(queued[t]).topic,
                      value |-> Head(queued[t]).value,
                      fromQueue |-> TRUE, node |-> <<>>, diff |-> 0]]
    /\ UNCHANGED <<rconf, nodes, message, expired, lately, queued, leafs, messageCount,
                   walkCount, published, candidates, counting>>

-----------------------------------------------------------------------------

\* The end of setRetainedMessage that returns true.
Done(t) ==
    /\ setter' = [setter EXCEPT ![t] = Free]
    /\ queued' = IF setter[t].fromQueue THEN [queued EXCEPT ![t] = Tail(@)] ELSE queued

\* The limit is reached: the message is not set, whatever was there stays.
Reject(t) ==
    /\ Done(t)
    /\ candidates' = [candidates EXCEPT ![setter[t].topic] = @ \cup {message[setter[t].topic]}]

\* tryrdlock or trywrlock fails: emplace_front, or stay where it was.
LockIsTaken(t) ==
    /\ rconf.deferTimeout
    /\ setter[t].at \in {"walk", "create"}
    /\ setter[t].fromQueue \/ Len(queued[t]) < MaxQueued
    /\ setter' = [setter EXCEPT ![t] = Free]
    /\ queued' = IF setter[t].fromQueue THEN queued
                 ELSE [queued EXCEPT ![t] =
                          <<[topic |-> setter[t].topic, value |-> setter[t].value]>> \o @]
    /\ UNCHANGED <<rconf, nodes, message, expired, lately, leafs, messageCount, walkCount,
                   published, candidates, counting>>

\* The search under the read lock.
SearchNode(t) ==
    LET job == setter[t]
        last == LastNodeOf(job.topic)
        levels == IF last = job.topic THEN Len(last) ELSE Len(last) + 1
    IN
    /\ job.at = "walk"
    /\ IF LimitReached(job.topic, levels)
       THEN Reject(t)
       ELSE /\ setter' = [setter EXCEPT
                             ![t].at = IF last = job.topic THEN "store" ELSE "create",
                             ![t].node = last]
            /\ UNCHANGED <<queued, candidates>>
    /\ UNCHANGED <<rconf, nodes, message, expired, lately, leafs, messageCount, walkCount,
                   published, counting>>

\* The rest of the way under the write lock, node by node until the limit.
NewNodes(topic, from) ==
    LET missing == (Len(from) + 1)..Len(topic)
        top == SubSeq(topic, 1, rconf.depth)
        before(n) == Cardinality({SubSeq(topic, 1, m) : m \in missing \cap (rconf.depth + 1)..(n - 1)}
                                 \ nodes)
        room(n) == n <= rconf.depth \/
                   (IF top \in nodes THEN recursiveChildCount(top) ELSE 0) + before(n) < rconf.limit
    IN  {SubSeq(topic, 1, n) : n \in {m \in missing : \A k \in missing : k <= m => room(k)}}

CreateNodes(t) ==
    LET job == setter[t]
        new == NewNodes(job.topic, job.node)
    IN
    /\ job.at = "create"
    /\ nodes' = nodes \cup new
    /\ IF job.topic \in nodes \cup new
       THEN /\ setter' = [setter EXCEPT ![t].at = "store", ![t].node = job.topic]
            /\ UNCHANGED <<queued, candidates>>
       ELSE Reject(t)
    /\ UNCHANGED <<rconf, message, expired, lately, leafs, messageCount, walkCount, published,
                   counting>>

-----------------------------------------------------------------------------
\* RetainedMessageNode::addPayload, under messageSetMutex only.
Diff(old, new) == (IF new # 0 THEN 1 ELSE 0) - (IF old # 0 THEN 1 ELSE 0)

addPayload(t, kept) ==
    LET job == setter[t]
        p == job.node
    IN
    /\ job.at = "store"
    /\ message' = [message EXCEPT ![p] = kept]
    /\ expired' = expired \ {p}
    /\ lately' = IF job.value = 0 THEN lately ELSE lately \cup {p}
    /\ setter' = [setter EXCEPT ![t].at = "count", ![t].node = <<>>,
                                ![t].diff = Diff(message[p], job.value)]
    /\ UNCHANGED <<rconf, nodes, queued, leafs, messageCount, walkCount, published>>

StoreMessage(t) == addPayload(t, setter[t].value) /\ UNCHANGED <<candidates, counting>>

\* The expiry, in another thread, has just seen the old message expired and
\* now resets the new one: it holds the write lock, but not messageSetMutex.
StoreIsLost(t) ==
    /\ setter[t].at = "store" /\ setter[t].node \in expired
    /\ \E u \in rconf.threads \ {t} : setter[u] = Free
    /\ addPayload(t, 0)
    /\ counting' = FALSE
    /\ candidates' = [candidates EXCEPT ![setter[t].topic] = @ \cup {0}]

\* retainedMessageCount.fetch_add(diff)
CountMessage(t) ==
    /\ setter[t].at = "count"
    /\ messageCount' = messageCount + setter[t].diff
    /\ Done(t)
    /\ UNCHANGED <<rconf, nodes, message, expired, lately, leafs, walkCount, published, candidates,
                   counting>>

-----------------------------------------------------------------------------
\* Time passes: a message expires, or the lifetime of a node ends.
MessageExpires(p) ==
    /\ rconf.mayExpire /\ message[p] # 0 /\ p \notin expired
    /\ expired' = expired \cup {p}
    /\ UNCHANGED <<rconf, nodes, message, lately, setter, queued, leafs, messageCount, walkCount,
                   published, candidates, counting>>

LifetimeEnds(p) ==
    /\ p \in lately
    /\ lately' = lately \ {p}
    /\ UNCHANGED <<rconf, nodes, message, expired, setter, queued, leafs, messageCount, walkCount,
                   published, candidates, counting>>

\* What a walk of expireRetainedMessages has visited when its 10 ms end, in the
\* loop over the children of at: the nodes down to at, and all of some of the
\* other children on the way.
OnTheWay(start, at) == {q \in nodes : Above(start, q) /\ Above(q, at)}
Children(S) == {q \in nodes : q # <<>> /\ ParentOf(q) \in S}
Visits(start, at, completed) == OnTheWay(start, at) \cup UNION {Below(q) : q \in completed}

\* Mutant: a node whose pointer is held by a setter is erased as well.
UnusedEvenIfHeld(p, visited) ==
    /\ ParentOf(p) \in visited
    /\ p \notin lately
    /\ message[p] = 0 \/ (p \in visited /\ p \in expired)

\* The node has no message and nobody who uses it.
Unused(p, visited) ==
    /\ ParentOf(p) \in visited
    /\ p \notin NodePointers
    /\ p \notin lately
    /\ message[p] = 0 \/ (p \in visited /\ p \in expired)

Erasable(start, visited) ==
    {q \in Below(start) \ {start} : \A r \in Below(q) : Unused(r, visited)}

\* Nodes that the walk leaves for later: it ran out of time in or before them.
LeftOver(start, at, visited, gone) ==
    {q \in Children(visited) \ (gone \cup NodePointers) :
        /\ q \notin visited \/ (q \in OnTheWay(start, at) /\ q # start)
        /\ \/ \E r \in Below(q) \ {q} : r \notin gone
           \/ message[q] # 0 /\ ~(q \in visited /\ q \in expired)}

expireRetainedMessages(start, count, rest) ==
    \E at \in Below(start) :
    \E completed \in SUBSET (Children(OnTheWay(start, at)) \ OnTheWay(start, at)) :
        LET visited == Visits(start, at, completed)
            gone == Erasable(start, visited)
            late == LeftOver(start, at, visited, gone)
            reset == visited \cap expired
            counted == count + Cardinality({p \in visited \ reset : message[p] # 0})
        IN
        /\ message' = [p \in RetPaths |-> IF p \in reset THEN 0 ELSE message[p]]
        /\ expired' = expired \ reset
        /\ candidates' = [t \in RetTopics |-> IF t \in reset THEN candidates[t] \cup {0}
                                                             ELSE candidates[t]]
        /\ nodes' = nodes \ gone
        /\ \E order \in SetToSeqs(late) :
               leafs' = SelectSeq(rest, LAMBDA p : p \notin gone) \o order
        /\ walkCount' = counted
        /\ messageCount' = IF leafs' = <<>> THEN counted ELSE messageCount
        /\ counting' = /\ visited = nodes /\ late = {}
                       /\ \A t \in RetThreads : setter[t].at # "count"

\* A worker thread runs the task.
SomeThreadIsFree == \E t \in rconf.threads : setter[t] = Free

BeginExpiry ==
    /\ SomeThreadIsFree
    /\ leafs = <<>>
    /\ expireRetainedMessages(<<>>, 0, <<>>)
    /\ UNCHANGED <<rconf, lately, setter, queued, published>>

ContinueExpiry ==
    /\ SomeThreadIsFree
    /\ leafs # <<>>
    /\ expireRetainedMessages(Head(leafs), walkCount, Tail(leafs))
    /\ UNCHANGED <<rconf, lately, setter, queued, published>>

-----------------------------------------------------------------------------
SetStep(t) ==
    \/ SearchNode(t)
    \/ CreateNodes(t)
    \/ StoreMessage(t)
    \/ StoreIsLost(t)
    \/ CountMessage(t)

RetNext ==
    \/ \E t \in RetThreads :
          \/ \E topic \in RetTopics : trySetRetainedMessages(t, topic, published + 1)
          \/ \E topic \in RetTopics : trySetRetainedMessages(t, topic, 0)
          \/ setQueuedRetainedMessages(t)
          \/ SetStep(t)
          \/ LockIsTaken(t)
    \/ \E p \in RetPaths : MessageExpires(p) \/ LifetimeEnds(p)
    \/ BeginExpiry
    \/ ContinueExpiry

RetSpec == RetInit /\ [][RetNext]_retVars

-----------------------------------------------------------------------------
(* When every message has been set, a topic has one that was published last,  *)
(* or since messages began to be queued (subscriptionstore.cpp:992).          *)
SetMessageIsThere == AllSet => \A t \in RetTopics : message[t] \in candidates[t]

(* With one thread the message of a topic is the one that was published last, *)
(* deferred or not: "Only do direct setting when there are none queued, to    *)
(* avoid out of order races, which would result in the wrong ultimate value"  *)
(* (subscriptionstore.cpp:944).                                              *)
LastMessageWins ==
    (AllSet /\ ~rconf.mayExpire /\ Cardinality(rconf.threads) = 1) =>
        \A t \in RetTopics : 0 \in candidates[t] \/ \A v \in candidates[t] : v <= message[t]

(* A message is in the tree: the expiry never takes away a node with a        *)
(* message, or the node to which a thread has a pointer, as setRetainedMessage *)
(* asserts (subscriptionstore.cpp:1079, 1646).                               *)
MessagesAreInTree ==
    /\ <<>> \in nodes
    /\ \A p \in nodes \ {<<>>} : ParentOf(p) \in nodes
    /\ \A p \in RetPaths : message[p] # 0 => p \in nodes
    /\ NodePointers \subseteq nodes

(* No more nodes are made below the enforcement depth than the limit allows   *)
(* (subscriptionstore.cpp:969, 1089).                                        *)
LimitIsKept ==
    \A p \in nodes : Len(p) = rconf.depth => recursiveChildCount(p) <= rconf.limit

(* The count for $SYS is that of the messages, but for those that are being    *)
(* counted, unless the last expiry was put off or ran into the setting of a   *)
(* message (subscriptionstore.cpp:1121, 1440).                               *)
CountIsRight ==
    LET pending == SumFunction([t \in RetThreads |->
                       IF setter[t].at = "count" THEN setter[t].diff ELSE 0])
    IN  counting => messageCount + pending = Cardinality({p \in RetPaths : message[p] # 0})

(* Publishers, their queues and the expiry work on the tree at the same time:  *)
(* what is set stays, and nothing grows past its limit                         *)
(* (subscriptionstore.cpp:992, 1395).                                        *)
RetainedAreSound == SetMessageIsThere /\ MessagesAreInTree /\ LimitIsKept /\ CountIsRight

(* What was queued is set in the end: after its time limit the thread waits   *)
(* for the lock instead of trying it (threaddata.cpp:876).                    *)
QueuedIsSet == \A t \in RetThreads : queued[t] # <<>> ~> queued[t] = <<>>

RetFairness ==
    \A t \in RetThreads :
        /\ WF_retVars(setQueuedRetainedMessages(t))
        /\ SF_retVars(SearchNode(t))
        /\ SF_retVars(CreateNodes(t))
        /\ WF_retVars(StoreMessage(t) \/ StoreIsLost(t))
        /\ WF_retVars(CountMessage(t))
=============================================================================
