-------------------------- MODULE SubscriptionTree --------------------------
(* The subscription tree (subscriptionstore.h:51, subscriptionstore.cpp:44,  *)
(* 141, 507, 1139, 1341).  A node is named by its path from one of the two    *)
(* roots; whoever walked to a node keeps a shared pointer to it and goes on   *)
(* without the tree's lock, so the node may be taken out of the tree before   *)
(* it is used.  What a node that was taken out holds is never seen again,     *)
(* even if a new node is made at its path.                                    *)
(*                                                                           *)
(* Left out: the QoS and the identifier of a subscription, the routing        *)
(* groups of bridges, the counters for $SYS, and which member of a shared     *)
(* group is chosen (SharedSubscribers).                                      *)
EXTENDS Integers, FiniteSets, Sequences, SequencesExt

CONSTANTS
    SubClients,     \* client ids
    Filters,        \* the topic filters they use, sequences of levels
    Topics,         \* the topics that are published
    DollarLevels,   \* the first levels that begin with '$'
    SplitSize,      \* cleanSubscriptions: 15
    MaxSlots,       \* bound on the slots in use
    MaxRecent,      \* bound on the nodes that are in their grace period
    SubThreads,     \* is there more than one worker thread?
    Broker          \* a sender that is no client

\* isValidSubscribePath (utils.cpp:95), isValidUtf8 (mqttpacket.cpp:2814), and a '$'
\* is no wildcard.
ASSUME FiltersAssumption ==
    /\ Filters \subseteq Seq(STRING) \ {<<>>}
    /\ \A f \in Filters : \A i \in 1..(Len(f) - 1) : f[i] # "#"
ASSUME TopicsAssumption ==
    /\ Topics \subseteq Seq(STRING) \ {<<>>}
    /\ \A t \in Topics : \A i \in 1..Len(t) : t[i] \notin {"+", "#"}
ASSUME DollarLevelsAssumption == DollarLevels \subseteq STRING \ {"+", "#"}
ASSUME SplitSizeAssumption == SplitSize \in Nat
ASSUME SubThreadsAssumption == SubThreads \in BOOLEAN
ASSUME BrokerAssumption == Broker \notin SubClients

VARIABLES
    tree,       \* the paths of the nodes that are in the tree
    slot,       \* node, client -> the entry in node.subscribers
    shares,     \* the nodes with a shared group
    member,     \* node -> the clients with a live entry in that group
    recent,     \* the nodes whose lastUpdate is within subscriptionNodeLifetime
    deferred,   \* deferredSubscriptionLeafsForPurging
    held,       \* client -> the node its handler has a pointer to, and why
    granted     \* the subscriptions that were made and not ended

subVars == <<tree, slot, shares, member, recent, deferred, held, granted>>

-----------------------------------------------------------------------------
\* A path starts with the name of its root.
Root == <<"root">>
RootDollar == <<"rootDollar">>

RootOf(levels) == IF levels[1] \in DollarLevels THEN RootDollar ELSE Root
PathOf(levels) == RootOf(levels) \o levels

PathsTo(levels) == {SubSeq(PathOf(levels), 1, n) : n \in 1..Len(PathOf(levels))}
Paths == {Root, RootDollar} \cup UNION {PathsTo(f) : f \in Filters}

Parent(p) == SubSeq(p, 1, Len(p) - 1)
Under(p, q) == Len(p) <= Len(q) /\ SubSeq(q, 1, Len(p)) = p
Wildcard(p) == p[Len(p)] \in {"+", "#"}

ChildrenIn(p) == {q \in tree : Len(q) = Len(p) + 1 /\ Under(p, q)}

SlotStates == {"none", "normal", "noLocal", "expired"}
Live(p, c) == slot[p][c] \in {"normal", "noLocal"}
Used(p) == \E c \in SubClients : slot[p][c] # "none"

NoNode == [op |-> "none"]
Holds == [op : {"add", "remove"}, node : Paths, share : BOOLEAN,
          kind : {"normal", "noLocal"}, attached : BOOLEAN]

SubTypeOK ==
    /\ tree \subseteq Paths
    /\ slot \in [Paths -> [SubClients -> SlotStates]]
    /\ shares \subseteq Paths
    /\ member \in [Paths -> SUBSET SubClients]
    /\ recent \subseteq Paths
    /\ deferred \in Seq(Paths)
    /\ held \in [SubClients -> Holds \cup {NoNode}]
    /\ granted \subseteq [node : Paths, client : SubClients, share : BOOLEAN,
                          kind : {"normal", "noLocal"}]

SubInit ==
    /\ tree = {Root, RootDollar}
    /\ slot = [p \in Paths |-> [c \in SubClients |-> "none"]]
    /\ shares = {}
    /\ member = [p \in Paths |-> {}]
    /\ recent = {}
    /\ deferred = <<>>
    /\ held = [c \in SubClients |-> NoNode]
    /\ granted = {}

-----------------------------------------------------------------------------
SlotsUsed == Cardinality({pc \in Paths \X SubClients : slot[pc[1]][pc[2]] # "none"})
             + Cardinality(shares)

\* A thread finishes what it is doing before it takes on something else.
ThreadIsFree == SubThreads \/ \A c \in SubClients : held[c] = NoNode

\* getDeepestNode(subtopics): the nodes that are missing on the way are made.
\* A new node has never been updated: lastUpdate is the epoch.
GetDeepestNode(c, f, share, kind) ==
    /\ ThreadIsFree /\ held[c] = NoNode
    /\ share => kind = "normal"           \* No Local with a share: ProtocolError
    /\ SlotsUsed < MaxSlots /\ Cardinality(recent) < MaxRecent
    /\ tree' = tree \cup PathsTo(f)
    /\ held' = [held EXCEPT ![c] = [op |-> "add", node |-> PathOf(f), share |-> share,
                                    kind |-> kind, attached |-> TRUE]]
    /\ UNCHANGED <<slot, shares, member, recent, deferred, granted>>

\* getDeepestNode(subtopics, true): gives up on a dead end.
FindNode(c, f, share) ==
    /\ ThreadIsFree /\ held[c] = NoNode
    /\ PathOf(f) \in tree /\ Cardinality(recent) < MaxRecent
    /\ held' = [held EXCEPT ![c] = [op |-> "remove", node |-> PathOf(f), share |-> share,
                                    kind |-> "normal", attached |-> TRUE]]
    /\ UNCHANGED <<tree, slot, shares, member, recent, deferred, granted>>

-----------------------------------------------------------------------------
Grant(c) == [node |-> held[c].node, client |-> c, share |-> held[c].share,
             kind |-> held[c].kind]

WithoutGrant(c) ==
    {g \in granted : ~(g.node = held[c].node /\ g.client = c /\ g.share = held[c].share)}

\* The AddSubscriptionType that addSubscriber returns.
AddSubscriptionType(c) ==
    LET h == held[c]
        existing == h.attached /\ IF h.share THEN c \in member[h.node] ELSE Live(h.node, c)
    IN  IF existing THEN "ExistingSubscription" ELSE "NewSubscription"

\* What addSubscriber writes to a node that is still in the tree.
addSubscriberToNode(c) ==
    LET h == held[c] IN
    /\ recent' = recent \cup {h.node}
    /\ IF h.share
       THEN /\ shares' = shares \cup {h.node}
            /\ member' = [member EXCEPT ![h.node] = @ \cup {c}]
            /\ UNCHANGED slot
       ELSE /\ slot' = [slot EXCEPT ![h.node][c] = h.kind]
            /\ UNCHANGED <<shares, member>>

\* SubscriptionNode::addSubscriber.  The SUBACK leaves after this step: only
\* the thread of the client writes its buffer to the socket.
addSubscriber(c) ==
    /\ held[c].op = "add"
    /\ IF held[c].attached
       THEN addSubscriberToNode(c)
       ELSE UNCHANGED <<slot, shares, member, recent>>
    /\ granted' = WithoutGrant(c) \cup {Grant(c)}
    /\ held' = [held EXCEPT ![c] = NoNode]
    /\ UNCHANGED <<tree, deferred>>

\* What removeSubscriber writes.  The entry in a shared group is only reset:
\* the group stays until it is purged.
removeSubscriberFromNode(c) ==
    LET h == held[c] IN
    /\ recent' = recent \cup {h.node}
    /\ IF h.share
       THEN /\ member' = [member EXCEPT ![h.node] = @ \ {c}]
            /\ UNCHANGED slot
       ELSE /\ slot' = [slot EXCEPT ![h.node][c] = "none"]
            /\ UNCHANGED member

removeSubscriber(c) ==
    /\ held[c].op = "remove"
    /\ IF held[c].attached
       THEN removeSubscriberFromNode(c)
       ELSE UNCHANGED <<slot, member, recent>>
    /\ granted' = WithoutGrant(c)
    /\ held' = [held EXCEPT ![c] = NoNode]
    /\ UNCHANGED <<tree, shares, deferred>>

\* The session of the client is destroyed: weak pointers to it expire.
EndSession(c) ==
    /\ ThreadIsFree /\ held[c] = NoNode
    /\ \E g \in granted : g.client = c
    /\ slot' = [p \in Paths |-> [slot[p] EXCEPT ![c] = IF @ = "none" THEN @ ELSE "expired"]]
    /\ member' = [p \in Paths |-> member[p] \ {c}]
    /\ granted' = {g \in granted : g.client # c}
    /\ UNCHANGED <<tree, shares, recent, deferred, held>>

\* subscriptionNodeLifetime passes.
GraceEnds(p) ==
    /\ p \in recent
    /\ recent' = recent \ {p}
    /\ UNCHANGED <<tree, slot, shares, member, deferred, held, granted>>

-----------------------------------------------------------------------------
\* SubscriptionNode::empty()
EmptyNode(p) == ChildrenIn(p) = {} /\ ~Used(p) /\ p \notin shares

\* A node with many children leaves those that hold something for later.
Split(p) == Cardinality({q \in ChildrenIn(p) : ~Wildcard(q)}) > SplitSize
Deferrable(p) == Len(p) > 1 /\ ~Wildcard(p) /\ Split(Parent(p)) /\ ~EmptyNode(p)

\* The nodes whose cleanSubscriptions runs when start's does.
Cleaned(start) ==
    {q \in tree : /\ Under(start, q)
                  /\ \A n \in (Len(start) + 1)..Len(q) : ~Deferrable(SubSeq(q, 1, n))}

\* The children that are put off by one of those nodes.
PutOff(start) == {q \in tree : q # start /\ Deferrable(q) /\ Parent(q) \in Cleaned(start)}

\* The node counts something of its own, when its expired entries are gone.
HoldsOn(p) ==
    \/ p \in recent
    \/ \E c \in SubClients : Live(p, c)
    \/ p \in shares /\ member[p] # {}

\* The nodes below start whose count is 0, which their parent erases.
\* Mutant: a node that was put off counts nothing.
ErasedWithDeferred(start) ==
    {q \in tree \ {start} : Under(start, q) /\ ~\E r \in Cleaned(start) : Under(q, r) /\ HoldsOn(r)}
Erased(start) ==
    {q \in Cleaned(start) \ {start} :
        ~\E r \in tree : Under(q, r) /\ (HoldsOn(r) \/ Deferrable(r))}

\* SubscriptionNode::cleanSubscriptions on start.
cleanSubscriptions(start) ==
    /\ tree' = tree \ Erased(start)
    /\ slot' = [p \in Paths |-> [c \in SubClients |->
                    IF p \in Cleaned(start) /\ slot[p][c] = "expired" THEN "none"
                                                                     ELSE slot[p][c]]]
    /\ shares' = shares \ {p \in Cleaned(start) : member[p] = {}}
    /\ held' = [c \in SubClients |->
                    IF held[c] # NoNode /\ held[c].node \in Erased(start)
                    THEN [held[c] EXCEPT !.attached = FALSE] ELSE held[c]]
    /\ UNCHANGED <<member, recent, granted>>

\* purgeSubscriptionTree is a task of one worker thread, under the unique lock.
PurgeTree ==
    /\ ThreadIsFree
    /\ deferred = <<>>
    /\ cleanSubscriptions(Root)
    /\ \E order \in SetToSeqs(PutOff(Root)) : deferred' = order

\* One of the deferred leafs; the code does as many as it can in 10 ms.
PurgeDeferred ==
    /\ ThreadIsFree
    /\ deferred # <<>>
    /\ LET p == Head(deferred) IN
       IF p \in tree
       THEN /\ cleanSubscriptions(p)
            /\ \E order \in SetToSeqs(PutOff(p)) : deferred' = Tail(deferred) \o order
       ELSE /\ deferred' = Tail(deferred)
            /\ UNCHANGED <<tree, slot, shares, member, recent, held, granted>>

purgeSubscriptionTree == PurgeTree \/ PurgeDeferred

-----------------------------------------------------------------------------
Subscribe(c) ==
    \E f \in Filters, share \in BOOLEAN, kind \in {"normal", "noLocal"} :
        GetDeepestNode(c, f, share, kind)
Unsubscribe(c) == \E f \in Filters, share \in BOOLEAN : FindNode(c, f, share)
FinishRequest(c) == addSubscriber(c) \/ removeSubscriber(c)

SubNext ==
    \/ \E c \in SubClients : Subscribe(c) \/ Unsubscribe(c) \/ FinishRequest(c) \/ EndSession(c)
    \/ \E p \in Paths : GraceEnds(p)
    \/ purgeSubscriptionTree

SubSpec == SubInit /\ [][SubNext]_subVars

-----------------------------------------------------------------------------
\* publishRecursively, from a node that matches the first levels of the topic.
PoundOf(p) == {Append(p, "#")} \cap tree
Within(path) == {p \in Paths : Len(p) <= Len(path)}

\* Mutant: the walk does not look for '#' at the node where the topic ends.
WalkWithoutParentLevel(t) ==
    LET path == PathOf(t)
        visit[p \in Within(path)] ==
            IF Len(p) = Len(path) THEN {p}
            ELSE IF ChildrenIn(p) = {} THEN {}
            ELSE LET next == {Append(p, "+"), Append(p, path[Len(p) + 1])} \cap tree
                 IN  PoundOf(p) \cup UNION {visit[q] : q \in next}
    IN  visit[RootOf(t)]

Walk(t) ==
    LET path == PathOf(t)
        visit[p \in Within(path)] ==
            IF Len(p) = Len(path) THEN {p} \cup PoundOf(p)
            ELSE IF ChildrenIn(p) = {} THEN {}
            ELSE LET next == {Append(p, "+"), Append(p, path[Len(p) + 1])} \cap tree
                 IN  PoundOf(p) \cup UNION {visit[q] : q \in next}
    IN  visit[RootOf(t)]

\* queuePacketAtSubscribers: a client reaches nobody on a topic with '$'.
NodesReached(t, sender) ==
    IF sender # Broker /\ t[1] \in DollarLevels THEN {} ELSE Walk(t)

\* publishNonRecursively at each of those nodes.
Receivers(t, sender) ==
    {pc \in NodesReached(t, sender) \X SubClients :
        slot[pc[1]][pc[2]] \in (IF pc[2] = sender THEN {"normal"} ELSE {"normal", "noLocal"})}
GroupsReached(t, sender) == {p \in NodesReached(t, sender) \cap shares : member[p] # {}}

-----------------------------------------------------------------------------
(* The rules of MQTT, to compare with.                                       *)
LevelsMatch(f, t, n) == \A i \in 1..n : f[i] \in {t[i], "+"}

Matches(f, t) ==
    /\ f[1] \in {"+", "#"} => t[1] \notin DollarLevels
    /\ IF f[Len(f)] = "#"
       THEN Len(f) - 1 <= Len(t) /\ LevelsMatch(f, t, Len(f) - 1)
       ELSE Len(f) = Len(t) /\ LevelsMatch(f, t, Len(f))

MayReach(t, sender) == sender = Broker \/ t[1] \notin DollarLevels

GrantsFor(t, sender) ==
    {g \in granted : /\ MayReach(t, sender)
                     /\ Matches(Tail(g.node), t)
                     /\ g.kind = "noLocal" => g.client # sender}

(* A publish goes to the subscriptions that were granted and match, each      *)
(* once, and to no other; a shared group is reached when one of its members   *)
(* is subscribed (subscriptionstore.cpp:507, 606, 655).                       *)
RoutingIsExact ==
    \A t \in Topics, sender \in SubClients \cup {Broker} :
        LET grants == GrantsFor(t, sender) IN
        /\ Receivers(t, sender) = {<<g.node, g.client>> : g \in {x \in grants : ~x.share}}
        /\ GroupsReached(t, sender) = {g.node : g \in {x \in grants : x.share}}

(* Retain handling 1 sends the retained messages only for a subscription      *)
(* that was not there: addSubscriber says so exactly when the client had no   *)
(* such subscription (subscriptionstore.cpp:83, mqttpacket.cpp:1882).         *)
NewMeansNew ==
    \A c \in SubClients :
        held[c].op = "add" =>
            (AddSubscriptionType(c) = "NewSubscription" <=> WithoutGrant(c) = granted)

(* A leaf that the purge put off is in the tree until its turn comes, so the  *)
(* weak pointer to it is good (subscriptionstore.cpp:1361).                   *)
DeferredAreInTree == \A i \in 1..Len(deferred) : deferred[i] \in tree

(* Every node hangs from its parent: erasing a node never takes away a node   *)
(* with subscribers below it (subscriptionstore.cpp:1167).                    *)
TreeIsConnected ==
    /\ {Root, RootDollar} \subseteq tree
    /\ \A p \in tree : Len(p) > 1 => Parent(p) \in tree
    /\ \A p \in Paths : (Used(p) \/ p \in shares) => p \in tree

(* What the tree keeps while subscribers walk to nodes, sessions end and the   *)
(* purge works through it bit by bit (subscriptionstore.cpp:59, 1139, 1341).   *)
TreeIsSound == NewMeansNew /\ DeferredAreInTree /\ TreeIsConnected

-----------------------------------------------------------------------------
(* The purge is a task that the main thread queues again and again, and the   *)
(* grace period of a node that nobody touches ends.                           *)
SubFairness ==
    /\ SF_subVars(purgeSubscriptionTree)
    /\ \A p \in Paths : WF_subVars(GraceEnds(p))
    /\ \A c \in SubClients : WF_subVars(FinishRequest(c))

Wanted(p) ==
    \E q \in Paths : /\ Under(p, q)
                     /\ \/ \E c \in SubClients : Live(q, c)
                        \/ member[q] # {}
                        \/ \E c \in SubClients : held[c] # NoNode /\ held[c].node = q

(* Nodes in which nobody is interested any more are taken out of the tree     *)
(* (subscriptionstore.cpp:1138, man/flashmq.conf.5.dbk5:683).                 *)
UnwantedNodesGo ==
    \A p \in Paths \ {Root, RootDollar} :
        p[1] = "root" => (p \in tree ~> (p \notin tree \/ Wanted(p)))

(* The same for every node, as the documentation has it.                     *)
AllUnwantedNodesGo ==
    \A p \in Paths \ {Root, RootDollar} : p \in tree ~> (p \notin tree \/ Wanted(p))
=============================================================================
