-------------------------- MODULE RetainedDelivery --------------------------
(* Sending the retained messages that match a new subscription               *)
(* (subscriptionstore.cpp:689-925).  The tree is walked for 10 ms at a time,  *)
(* or until the client takes no more; what is left is put off, one entry per  *)
(* node, and tried again later, while other threads set, clear and purge      *)
(* messages.                                                                 *)
(*                                                                           *)
(* A node is its path, the root is <<>>.  Every level of the filter takes one *)
(* level of the path, so an entry is its node: the levels that are left       *)
(* follow from it.  Left out: ACL checks and the reasons to drop a message    *)
(* other than a full buffer or quota.                                        *)
EXTENDS Integers, FiniteSets, Sequences, SequencesExt

CONSTANTS
    KnownTopics,    \* topics of retained messages
    SubFilters,     \* filters of the subscription
    MaxRequeue,     \* 100
    NodeLimit,      \* retained_messages_node_limit
    MaxChanges      \* bound on the changes by other threads

ASSUME MaxRequeueAssumption == MaxRequeue \in Nat \ {0}
ASSUME NodeLimitAssumption == NodeLimit \in Nat
ASSUME KnownTopicsAssumption == KnownTopics \subseteq Seq(STRING) \ {<<>>}

KnownPaths == UNION {{SubSeq(t, 1, n) : n \in 0..Len(t)} : t \in KnownTopics}

VARIABLES
    there,          \* the nodes of the tree
    withMessage,    \* those with a message
    filter,         \* the filter, <<>> before the subscription
    todo,           \* the deque of put off deliveries
    task,           \* "none", "running", "queued", "ended", "gave up" or "stopped"
    requeue_count,
    total_node_count,
    processed,      \* nodes of this batch
    dropped,        \* has this batch met a full client?
    copies,         \* node -> how often its message was sent
    stayed,         \* the nodes that had a message all the time
    changes

delVars == <<there, withMessage, filter, todo, task, requeue_count, total_node_count,
             processed, dropped, copies, stayed, changes>>

-----------------------------------------------------------------------------
DelTypeOK ==
    /\ there \subseteq KnownPaths /\ withMessage \subseteq there
    /\ filter \in SubFilters \cup {<<>>}
    /\ todo \in Seq(KnownPaths)
    /\ task \in {"none", "running", "queued", "ended", "gave up", "stopped"}
    /\ requeue_count \in 0..MaxRequeue
    /\ total_node_count \in Nat /\ processed \in Nat
    /\ dropped \in BOOLEAN
    /\ copies \in [KnownPaths -> Nat]
    /\ stayed \subseteq KnownPaths
    /\ changes \in 0..MaxChanges

DelInit ==
    /\ withMessage \in SUBSET KnownTopics
    /\ there = UNION {{SubSeq(t, 1, n) : n \in 0..Len(t)} : t \in withMessage} \cup {<<>>}
    /\ filter = <<>> /\ todo = <<>> /\ task = "none"
    /\ requeue_count = 0 /\ total_node_count = 0 /\ processed = 0 /\ dropped = FALSE
    /\ copies = [p \in KnownPaths |-> 0]
    /\ stayed = {}
    /\ changes = 0

-----------------------------------------------------------------------------
OnPath(p, q) == Len(p) <= Len(q) /\ SubSeq(q, 1, Len(p)) = p
Up(p) == SubSeq(p, 1, Len(p) - 1)

Pound == filter[Len(filter)] = "#"
Fits(p, n) == \A i \in 1..n : filter[i] \in {p[i], "+"}

\* The nodes that the recursion comes to, and those whose message it sends.
IsVisited(p) ==
    IF Pound THEN Fits(p, IF Len(p) < Len(filter) THEN Len(p) ELSE Len(filter) - 1)
             ELSE Len(p) <= Len(filter) /\ Fits(p, Len(p))
IsTarget(p) ==
    IF Pound THEN Len(p) >= Len(filter) - 1 /\ Fits(p, Len(filter) - 1)
             ELSE Len(p) = Len(filter) /\ Fits(p, Len(filter))

Visitable == {p \in there : IsVisited(p)}
ToVisit(S) == {p \in Visitable \ {<<>>} : Up(p) \in S}
SubtreeOf(p) == {q \in Visitable : OnPath(p, q)}
PathBetween(p, q) == {r \in Visitable : OnPath(p, r) /\ OnPath(r, q)}

\* giveClientRetainedMessages
Give(f) ==
    /\ task = "none"
    /\ filter' = f
    /\ todo' = << <<>> >>
    /\ task' = "running"
    /\ stayed' = withMessage
    /\ UNCHANGED <<there, withMessage, requeue_count, total_node_count, processed, dropped,
                   copies, changes>>

\* What a walk from the first entry leaves behind: it has visited all of done,
\* and the entries of later are put off.
Walked(done, later, more) ==
    /\ copies' = [p \in KnownPaths |->
                     IF p \in done \cap withMessage /\ IsTarget(p) THEN copies[p] + 1
                                                                   ELSE copies[p]]
    /\ processed' = processed + Cardinality(done) - 1
    /\ \E order \in SetToSeqs(later) : todo' = Tail(todo) \o order
    /\ dropped' = more
    /\ UNCHANGED <<there, withMessage, filter, task, requeue_count, total_node_count, stayed,
                   changes>>

VisitedBy(start, at, completed) == PathBetween(start, at) \cup UNION {SubtreeOf(q) : q \in completed}

SideBranches(start, at) == ToVisit(PathBetween(start, at)) \ PathBetween(start, at)

\* The walk ends, or its time does in the loop over the children of at.
WalkUntilTime ==
    LET start == Head(todo) IN
    \E at \in SubtreeOf(start) :
    \E completed \in SUBSET SideBranches(start, at) :
        LET done == VisitedBy(start, at, completed)
        IN  Walked(done, ToVisit(done) \ done, FALSE)

\* The client does not take the message of a node: the node is put off, and
\* with it all below it, and the rest of every loop on the way.
\* Mutant: the node and its children are put off.
PutOffTwice(start, full, done) == (ToVisit(done) \ done) \cup {full} \cup ToVisit({full})
PutOffAtDrop(start, full, done) == (ToVisit(done) \ done) \cup {full}

WalkUntilFull ==
    LET start == Head(todo) IN
    \E full \in {p \in SubtreeOf(start) \cap withMessage : IsTarget(p)} :
        LET way == PathBetween(start, full) \ {full} IN
        \E completed \in SUBSET (ToVisit(way) \ (way \cup {full})) :
            LET done == way \cup UNION {SubtreeOf(q) : q \in completed}
            IN  IF done = {}
                THEN /\ todo' = Append(Tail(todo), full)
                     /\ dropped' = TRUE
                     /\ UNCHANGED <<there, withMessage, filter, task, requeue_count,
                                    total_node_count, processed, copies, stayed, changes>>
                ELSE Walked(done, PutOffAtDrop(start, full, done), TRUE)

\* One turn of the loop in giveClientRetainedMessagesInitiateDeferred.
GiveOne ==
    /\ task = "running"
    /\ todo # <<>> /\ ~dropped
    /\ \/ Head(todo) \in there /\ (WalkUntilTime \/ WalkUntilFull)
       \/ /\ Head(todo) \notin there
          /\ todo' = Tail(todo)
          /\ UNCHANGED <<there, withMessage, filter, task, requeue_count, total_node_count,
                         processed, dropped, copies, stayed, changes>>

\* The end of that function: again, with the counts so far, or no more.
\* Mutant: the count of the tries is bound by value and lost.
RequeueCountLost == 1
RequeueCount == (IF processed > 0 THEN 0 ELSE requeue_count) + 1

EndBatch ==
    /\ task = "running"
    /\ LET total == total_node_count + processed
           again == RequeueCount < MaxRequeue /\ total < NodeLimit
       IN  /\ task' = IF todo = <<>> THEN "ended" ELSE IF again THEN "queued" ELSE "gave up"
           /\ total_node_count' = total
    /\ requeue_count' = IF todo = <<>> THEN requeue_count ELSE RequeueCount
    /\ processed' = 0
    /\ dropped' = FALSE
    /\ UNCHANGED <<there, withMessage, filter, todo, copies, stayed, changes>>

\* The delayed or immediate task runs; its weak pointer to the session is good.
RunAgain ==
    /\ task = "queued"
    /\ task' = "running"
    /\ UNCHANGED <<there, withMessage, filter, todo, requeue_count, total_node_count, processed,
                   dropped, copies, stayed, changes>>

SubscriberLeaves ==
    /\ task = "queued"
    /\ task' = "stopped"
    /\ UNCHANGED <<there, withMessage, filter, todo, requeue_count, total_node_count, processed,
                   dropped, copies, stayed, changes>>

-----------------------------------------------------------------------------
(* Other threads, between the walks.                                         *)
OtherThread(newThere, newMessages) ==
    /\ task \in {"running", "queued"} /\ changes < MaxChanges
    /\ there' = newThere /\ withMessage' = newMessages
    /\ stayed' = stayed \cap newMessages
    /\ changes' = changes + 1
    /\ UNCHANGED <<filter, task, requeue_count, total_node_count, processed, dropped, copies>>

MessageIsSet(t) ==
    /\ t \notin withMessage
    /\ OtherThread(there \cup {SubSeq(t, 1, n) : n \in 0..Len(t)}, withMessage \cup {t})
    /\ UNCHANGED todo

\* The message is cleared or expires.
MessageGoes(t) ==
    /\ t \in withMessage
    /\ OtherThread(there, withMessage \ {t})
    /\ UNCHANGED todo

\* The purge: weak pointers to the node expire.
NodeGoes(p) ==
    /\ p \in there \ {<<>>} /\ \A q \in there : OnPath(p, q) => q = p
    /\ p \notin withMessage
    /\ OtherThread(there \ {p}, withMessage)
    /\ todo' = SelectSeq(todo, LAMBDA q : q # p)

DelNext ==
    \/ \E f \in SubFilters : Give(f)
    \/ GiveOne
    \/ EndBatch
    \/ RunAgain
    \/ SubscriberLeaves
    \/ \E p \in KnownPaths : MessageIsSet(p) \/ MessageGoes(p) \/ NodeGoes(p)

DelSpec == DelInit /\ [][DelNext]_delVars
DelFairness == WF_delVars(GiveOne) /\ WF_delVars(EndBatch) /\ WF_delVars(RunAgain)

-----------------------------------------------------------------------------
(* No retained message is sent twice for one subscription, however often the  *)
(* walk is put off (subscriptionstore.cpp:731).                              *)
NoneTwice == \A p \in KnownPaths : copies[p] <= 1

(* When nothing is left, every matching message that was there all the time   *)
(* has been sent, and no other topic has (subscriptionstore.cpp:842).         *)
AllAreSent ==
    /\ task = "ended" => \A p \in stayed : IsTarget(p) => copies[p] = 1
    /\ \A p \in KnownPaths : copies[p] > 0 => IsTarget(p)

(* A message that was not sent and is still there is under an entry of the    *)
(* deque, which the task that is queued or running holds                      *)
(* (subscriptionstore.cpp:744, 780).                                         *)
NothingForgotten ==
    task \in {"running", "queued", "gave up"} =>
        \A p \in stayed : IsTarget(p) /\ copies[p] = 0 =>
            \E i \in 1..Len(todo) : OnPath(todo[i], p)

(* A new subscription gets every retained message once, however the walk is    *)
(* put off and whatever other threads change (subscriptionstore.cpp:689).     *)
GivenOnce == NoneTwice /\ AllAreSent /\ NothingForgotten

(* The deliveries end, also when the client stays full (subscriptionstore.cpp:869). *)
GivingEnds == (task = "running") ~> (task \in {"ended", "gave up", "stopped"})
=============================================================================
