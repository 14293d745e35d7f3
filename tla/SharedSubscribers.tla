-------------------------- MODULE SharedSubscribers --------------------------
(* class SharedSubscribers (sharedsubscribers.h, sharedsubscribers.cpp): the  *)
(* members of one shared subscription and the choice of the one that gets a   *)
(* publish.  Publishers hold the lock of the node shared, so several of them  *)
(* walk the members at the same time and use one counter that is not atomic;  *)
(* subscribers hold it exclusively and the purge excludes the publishers.     *)
EXTENDS Integers, FiniteSets, Sequences, SequencesExt

CONSTANTS
    Members,        \* client ids
    ShareThreads,   \* threads that publish
    CounterMax,     \* roundRobinCounter is an int: CounterMax + 1 wraps
    MaxMembers      \* bound on the length of members

ASSUME MembersAssumption == Members \cap {"reset", "expired", "nobody"} = {}
ASSUME CounterMaxAssumption == CounterMax \in Nat
ASSUME MaxMembersAssumption == MaxMembers \in Nat \ {0}

VARIABLES
    members,            \* std::vector<Subscription>: the client, "reset" or "expired"
    index,              \* client id -> position in members; a set of pairs
    roundRobinCounter,
    walker,             \* thread -> how far its getNext() is
    outcome             \* the last getNext() that ended

shareVars == <<members, index, roundRobinCounter, walker, outcome>>

-----------------------------------------------------------------------------
Gone == {"reset", "expired"}
LiveAt(i) == members[i] \notin Gone
LiveMembers == {members[i] : i \in 1..Len(members)} \ Gone

\* A conversion to size_t makes a negative counter a large number: size_t has
\* twice the bits of the counter.
CounterValues == (-CounterMax - 1)..CounterMax
SizeValues == (2 * (CounterMax + 1)) * (2 * (CounterMax + 1))
ToSize(n) == IF n < 0 THEN n + SizeValues ELSE n
Increment(n) == IF n = CounterMax THEN -CounterMax - 1 ELSE n + 1

Idle == [at |-> "idle"]
Walking(at, i, counter, served) ==
    [at |-> at, i |-> i, counter |-> counter, served |-> served]
Walkers ==
    {Idle} \cup
    [at : {"read", "write"}, i : 0..MaxMembers, counter : CounterValues,
     served : SUBSET Members]

ShareTypeOK ==
    /\ members \in UNION {[1..n -> Members \cup Gone] : n \in 0..MaxMembers}
    /\ index \subseteq Members \X (1..MaxMembers)
    /\ roundRobinCounter \in CounterValues
    /\ walker \in [ShareThreads -> Walkers]
    /\ outcome \in [got : Members \cup {"nobody", "none yet"}, served : SUBSET Members]

ShareInit ==
    /\ members = <<>>
    /\ index = {}
    /\ roundRobinCounter \in {0, CounterMax}
    /\ walker = [t \in ShareThreads |-> Idle]
    /\ outcome = [got |-> "none yet", served |-> {}]

NobodyWalks == \A t \in ShareThreads : walker[t] = Idle

-----------------------------------------------------------------------------

\* operator[], and the assignment of the new Subscription.
SubscribeShared(c) ==
    /\ NobodyWalks
    /\ \/ \E i \in 1..Len(members) :
             /\ <<c, i>> \in index
             /\ members' = [members EXCEPT ![i] = c]
             /\ UNCHANGED index
       \/ /\ \A i \in 1..Len(members) : <<c, i>> \notin index
          /\ Len(members) < MaxMembers
          /\ members' = Append(members, c)
          /\ index' = index \cup {<<c, Len(members) + 1>>}
    /\ UNCHANGED <<roundRobinCounter, walker, outcome>>

\* erase(clientid): the entry is reset and keeps its place in the index.
\* Mutant: the entry is taken out of the vector.
EraseMemberAndShift(c) ==
    /\ NobodyWalks
    /\ \E i \in 1..Len(members) :
           /\ <<c, i>> \in index
           /\ members' = RemoveAt(members, i)
           /\ index' = index \ {<<c, i>>}
    /\ UNCHANGED <<roundRobinCounter, walker, outcome>>

EraseMember(c) ==
    /\ NobodyWalks
    /\ \E i \in 1..Len(members) :
           /\ <<c, i>> \in index
           /\ members' = [members EXCEPT ![i] = "reset"]
    /\ UNCHANGED <<index, roundRobinCounter, walker, outcome>>

\* The session of a member is destroyed: its weak pointer expires, also while
\* publishers walk.
MemberSessionEnds(c) ==
    /\ \E i \in 1..Len(members) :
           /\ members[i] = c
           /\ members' = [members EXCEPT ![i] = "expired"]
    /\ walker' = [t \in ShareThreads |->
                     IF walker[t] = Idle THEN Idle
                     ELSE [walker[t] EXCEPT !.served = @ \ {c}]]
    /\ UNCHANGED <<index, roundRobinCounter, outcome>>

\* purgeAndReIndex(): the live members in the order in which the map of ids is
\* walked, which is no particular order.
purgeAndReIndex ==
    /\ NobodyWalks
    /\ members # <<>>
    /\ \E order \in SetToSeqs({ci \in index : LiveAt(ci[2])}) :
           /\ members' = [i \in 1..Len(order) |-> members[order[i][2]]]
           /\ index' = {<<order[i][1], i>> : i \in 1..Len(order)}
    /\ UNCHANGED <<roundRobinCounter, walker, outcome>>

-----------------------------------------------------------------------------
\* getNext() of a thread, one read and one write of the counter at a time.
\* "served" are the members that were live all the time.
StartGetNext(t) ==
    /\ walker[t] = Idle
    /\ members # <<>>
    /\ walker' = [walker EXCEPT ![t] = Walking("read", 0, 0, LiveMembers)]
    /\ UNCHANGED <<members, index, roundRobinCounter, outcome>>

ReadCounter(t) ==
    /\ walker[t].at = "read"
    /\ walker[t].i < Len(members)
    /\ walker' = [walker EXCEPT ![t] = Walking("write", @.i, roundRobinCounter, @.served)]
    /\ UNCHANGED <<members, index, roundRobinCounter, outcome>>

MemberAt(n) == 1 + (ToSize(n) % Len(members))

\* Writes the counter and looks at the member.
LookAtMember(t) ==
    LET pos == MemberAt(walker[t].counter) IN
    /\ walker[t].at = "write"
    /\ roundRobinCounter' = Increment(walker[t].counter)
    /\ IF pos \in 1..Len(members) /\ LiveAt(pos)
       THEN /\ outcome' = [got |-> members[pos], served |-> walker[t].served]
            /\ walker' = [walker EXCEPT ![t] = Idle]
       ELSE /\ walker' = [walker EXCEPT ![t] = Walking("read", @.i + 1, @.counter, @.served)]
            /\ UNCHANGED outcome
    /\ UNCHANGED <<members, index>>

\* return nullptr: nobody of this group gets the publish.
NoMemberFound(t) ==
    /\ walker[t].at = "read"
    /\ walker[t].i = Len(members)
    /\ outcome' = [got |-> "nobody", served |-> walker[t].served]
    /\ walker' = [walker EXCEPT ![t] = Idle]
    /\ UNCHANGED <<members, index, roundRobinCounter>>

GetNextStep(t) == StartGetNext(t) \/ ReadCounter(t) \/ LookAtMember(t) \/ NoMemberFound(t)

ShareNext ==
    \/ \E c \in Members : SubscribeShared(c) \/ EraseMember(c) \/ MemberSessionEnds(c)
    \/ purgeAndReIndex
    \/ \E t \in ShareThreads : GetNextStep(t)

ShareSpec == ShareInit /\ [][ShareNext]_shareVars

-----------------------------------------------------------------------------
\* getFirst() and getNext(hash): "nobody" when all are gone.
getFirst ==
    LET live == {i \in 1..Len(members) : LiveAt(i)} IN
    IF live = {} THEN "nobody" ELSE members[CHOOSE i \in live : \A j \in live : i <= j]

getNextOfHash(hash) ==
    LET n == Len(members)
        member(i) == members[1 + ((hash + i) % n)]
        found == {i \in 0..(n - 1) : member(i) \notin Gone}
    IN  IF found = {} THEN "nobody"
        ELSE member(CHOOSE i \in found : \A j \in found : i <= j)

(* The positions of the index are those of its client: operator[] and erase   *)
(* use them without a look at the entry, and assert that they are in the      *)
(* vector (sharedsubscribers.cpp:29, 103).                                    *)
IndexIsRight ==
    /\ \A ci \in index : ci[2] <= Len(members) /\ members[ci[2]] \in {ci[1]} \cup Gone
    /\ \A a, b \in index : (a[1] = b[1] \/ a[2] = b[2]) => a = b
    /\ \A i \in 1..Len(members) : \E c \in Members : <<c, i>> \in index

(* A client is never twice in a group, so it gets one copy of a publish at    *)
(* most (sharedsubscribers.cpp:28).                                           *)
OneEntryPerMember ==
    \A i, j \in 1..Len(members) : (LiveAt(i) /\ members[i] = members[j]) => i = j

(* A publish finds a member as long as one is subscribed all the time.  With  *)
(* two publishers, one takes the other's turn; with one it holds, across the  *)
(* overflow of the counter only when the number of entries is a power of two, *)
(* because it has to divide 2^32 (sharedsubscribers.cpp:68).                  *)
MemberIsFound == outcome.got = "nobody" => outcome.served = {}

(* A shared subscription serves its members, over entries that are reset or    *)
(* expired, purges and the overflow of the counter (sharedsubscribers.cpp:28). *)
GroupIsSound == IndexIsRight /\ OneEntryPerMember /\ MemberIsFound

(* The publishes of one sender stick to one member for as long as the members *)
(* stay the same (sharedsubscribers.h:30).                                    *)
SenderSticksToMember ==
    [][\A hash \in 0..(MaxMembers - 1) :
          (LiveMembers # {} /\ LiveMembers' = LiveMembers)
              => getNextOfHash(hash)' = getNextOfHash(hash)]_shareVars
=============================================================================
