---------------------------- MODULE RoutingProofs ----------------------------
(* From the sender to the subscribers: the tree hands a publish to exactly     *)
(* the subscriptions that match, for any clients, filters and topics, as long *)
(* as no purge takes out the node that a handler has walked to; a shared      *)
(* group finds a member, for any number of members and entries, as long as    *)
(* one thread publishes and its counter has not overflowed; and a QoS 2       *)
(* publish is taken over exactly once, for any number of publishes, packet    *)
(* ids and connections, when one thread handles both connections of a         *)
(* take-over and no PUBREC reports an error.                                  *)
EXTENDS SubscriptionTree, SharedSubscribers, IncomingQoS2, FiniteSetTheorems,
        FunctionTheorems, SequenceTheorems, WellFoundedInduction, TLAPS

-----------------------------------------------------------------------------
(* Paths                                                                     *)

\* The nodes that a filter leads to.
FilterPaths == {PathOf(f) : f \in Filters}

\* The levels of paths.
Levels == STRING \cup {"root", "rootDollar", "+", "#"}

LEMMA FilterLevels ==
    /\ \A f \in Filters : f \in Seq(Levels) /\ f # <<>> /\ Len(f) >= 1
    /\ \A t \in Topics : t \in Seq(Levels) /\ t # <<>> /\ Len(t) >= 1
<1>1. ASSUME NEW f \in Seq(STRING), f # <<>>
      PROVE  f \in Seq(Levels) /\ f # <<>> /\ Len(f) >= 1
    <2>1. Len(f) \in Nat /\ f \in [1..Len(f) -> Levels]
        BY DEF Levels
    <2>2. Len(f) # 0
        BY <1>1, EmptySeq
    <2> QED
        BY <1>1, <2>1, <2>2
<1> QED
    BY <1>1, FiltersAssumption, TopicsAssumption

LEMMA RootFacts ==
    /\ Root \in Seq(Levels) /\ Len(Root) = 1 /\ Root[1] = "root"
    /\ RootDollar \in Seq(Levels) /\ Len(RootDollar) = 1 /\ RootDollar[1] = "rootDollar"
<1>1. "root" \in Levels /\ "rootDollar" \in Levels
    BY DEF Levels
<1> QED
    BY <1>1 DEF Root, RootDollar

LEMMA PathOfFacts ==
    ASSUME NEW f \in Seq(Levels), f # <<>>
    PROVE  /\ PathOf(f) \in Seq(Levels) /\ Len(PathOf(f)) = Len(f) + 1 /\ Len(f) >= 1
           /\ PathOf(f)[1] = RootOf(f)[1] /\ \A i \in 1..Len(f) : PathOf(f)[i + 1] = f[i]
           /\ Tail(PathOf(f)) = f
           /\ RootOf(f) \in Seq(Levels) /\ Len(RootOf(f)) = 1
           /\ RootOf(f) = SubSeq(PathOf(f), 1, 1)
<1>1. RootOf(f) \in Seq(Levels) /\ Len(RootOf(f)) = 1
    BY RootFacts DEF RootOf
<1>3. Len(f) >= 1 /\ Len(f) \in Nat
    <2>1. Len(f) # 0
        BY EmptySeq
    <2> QED
        BY <2>1
<1> DEFINE w == RootOf(f) \o f
<1>6. /\ w \in Seq(Levels) /\ Len(w) = Len(RootOf(f)) + Len(f)
      /\ \A i \in 1..(Len(RootOf(f)) + Len(f)) :
             w[i] = IF i <= Len(RootOf(f)) THEN RootOf(f)[i] ELSE f[i - Len(RootOf(f))]
    BY <1>1, ConcatProperties
<1>7. PathOf(f) = w
    BY DEF PathOf
<1> HIDE DEF w
<1>2. /\ w \in Seq(Levels) /\ Len(w) = Len(f) + 1
      /\ w[1] = RootOf(f)[1] /\ \A i \in 1..Len(f) : w[i + 1] = f[i]
    <2>1. Len(w) = Len(f) + 1
        BY <1>1, <1>3, <1>6
    <2>2. w[1] = RootOf(f)[1]
        BY <1>1, <1>3, <1>6
    <2>3. ASSUME NEW i \in 1..Len(f)
          PROVE  w[i + 1] = f[i]
        <3>1. /\ i + 1 \in 1..(Len(RootOf(f)) + Len(f)) /\ ~(i + 1 <= Len(RootOf(f)))
              /\ (i + 1) - Len(RootOf(f)) = i
            BY <1>1, <1>3
        <3> QED
            BY <1>6, <3>1
    <2> QED
        BY <1>6, <2>1, <2>2, <2>3
<1>4. Tail(w) = f
    <2>1. w # <<>>
        BY <1>2, <1>3
    <2>2. /\ Tail(w) \in Seq(Levels) /\ Len(Tail(w)) = Len(f)
          /\ \A i \in 1..Len(f) : Tail(w)[i] = w[i + 1]
        BY <1>2, <1>3, <2>1, HeadTailProperties
    <2> QED
        BY <1>2, <2>2, SeqEqual
<1>5. RootOf(f) = SubSeq(w, 1, 1)
    <2>1. /\ SubSeq(w, 1, 1) \in Seq(Levels) /\ Len(SubSeq(w, 1, 1)) = 1
          /\ SubSeq(w, 1, 1)[1] = w[1]
        BY <1>2, <1>3
    <2> QED
        BY <1>1, <1>2, <2>1, SeqEqual
<1> QED
    BY <1>1, <1>2, <1>3, <1>4, <1>5, <1>7

\* The beginning of a sequence.
LEMMA Beginning ==
    ASSUME NEW q \in Seq(Levels), NEW n \in 1..Len(q)
    PROVE  /\ SubSeq(q, 1, n) \in Seq(Levels) /\ Len(SubSeq(q, 1, n)) = n
           /\ \A i \in 1..n : SubSeq(q, 1, n)[i] = q[i]
           /\ \A m \in 1..n : SubSeq(SubSeq(q, 1, n), 1, m) = SubSeq(q, 1, m)
<1>1. /\ SubSeq(q, 1, n) \in Seq(Levels) /\ Len(SubSeq(q, 1, n)) = n
      /\ \A i \in 1..n : SubSeq(q, 1, n)[i] = q[i]
    OBVIOUS
<1>2. ASSUME NEW m \in 1..n
      PROVE  SubSeq(SubSeq(q, 1, n), 1, m) = SubSeq(q, 1, m)
    <2>1. /\ SubSeq(SubSeq(q, 1, n), 1, m) \in Seq(Levels)
          /\ Len(SubSeq(SubSeq(q, 1, n), 1, m)) = m
          /\ \A i \in 1..m : SubSeq(SubSeq(q, 1, n), 1, m)[i] = SubSeq(q, 1, n)[i]
        BY <1>1
    <2>2. /\ SubSeq(q, 1, m) \in Seq(Levels) /\ Len(SubSeq(q, 1, m)) = m
          /\ \A i \in 1..m : SubSeq(q, 1, m)[i] = q[i]
        OBVIOUS
    <2>3. \A i \in 1..m : SubSeq(q, 1, n)[i] = q[i]
        BY <1>1
    <2> QED
        BY <2>1, <2>2, <2>3, SeqEqual
<1> QED
    BY <1>1, <1>2

\* A path is under another one when it begins with its levels.
LEMMA UnderPointwise ==
    ASSUME NEW p \in Seq(Levels), NEW q \in Seq(Levels), Len(p) >= 1
    PROVE  /\ Under(p, q) <=> Len(p) <= Len(q) /\ \A i \in 1..Len(p) : q[i] = p[i]
           /\ Under(p, p)
<1>1. ASSUME Len(p) <= Len(q)
      PROVE  SubSeq(q, 1, Len(p)) = p <=> \A i \in 1..Len(p) : q[i] = p[i]
    <2>1. Len(p) \in 1..Len(q)
        BY <1>1
    <2>2. /\ SubSeq(q, 1, Len(p)) \in Seq(Levels) /\ Len(SubSeq(q, 1, Len(p))) = Len(p)
          /\ \A i \in 1..Len(p) : SubSeq(q, 1, Len(p))[i] = q[i]
        BY <2>1, Beginning
    <2>3. (\A i \in 1..Len(p) : q[i] = p[i]) => SubSeq(q, 1, Len(p)) = p
        BY <2>2, SeqEqual
    <2>4. SubSeq(q, 1, Len(p)) = p => \A i \in 1..Len(p) : q[i] = p[i]
        BY <2>2
    <2> QED
        BY <2>3, <2>4
<1>2. Under(p, p)
    BY SubSeqFull DEF Under
<1> QED
    BY <1>1, <1>2 DEF Under

LEMMA PathFacts ==
    ASSUME NEW p \in Paths
    PROVE  /\ p \in Seq(Levels) /\ Len(p) \in Nat /\ Len(p) >= 1
           /\ \A n \in 1..Len(p) : SubSeq(p, 1, n) \in Paths
           /\ \A i \in 1..(Len(p) - 1) : p[i] # "#"
           /\ p[1] \in {"root", "rootDollar"}
<1>1. CASE p \in {Root, RootDollar}
    <2>1. p \in Seq(Levels) /\ Len(p) = 1 /\ p[1] \in {"root", "rootDollar"}
        BY <1>1, RootFacts
    <2>2. \A n \in 1..Len(p) : SubSeq(p, 1, n) = p
        BY <2>1, SubSeqFull
    <2>3. p \in Paths
        BY <1>1 DEF Paths
    <2>4. \A n \in 1..Len(p) : SubSeq(p, 1, n) \in Paths
        BY <2>2, <2>3
    <2>5. \A i \in 1..(Len(p) - 1) : p[i] # "#"
        BY <2>1
    <2> QED
        BY <2>1, <2>4, <2>5
<1>2. CASE p \notin {Root, RootDollar}
    <2>1. PICK f \in Filters : p \in PathsTo(f)
        BY <1>2 DEF Paths
    <2>2. f \in Seq(Levels) /\ f # <<>> /\ \A i \in 1..(Len(f) - 1) : f[i] # "#"
        BY FiltersAssumption, FilterLevels
    <2> DEFINE w == PathOf(f)
    <2>30. Len(f) \in Nat
        BY <2>2
    <2>3. /\ w \in Seq(Levels) /\ Len(w) = Len(f) + 1 /\ Len(f) >= 1
          /\ w[1] = RootOf(f)[1] /\ \A i \in 1..Len(f) : w[i + 1] = f[i]
        BY <2>2, PathOfFacts
    <2>4. PICK n \in 1..Len(w) : p = SubSeq(w, 1, n)
        BY <2>1 DEF PathsTo
    <2>5. w[1] \in {"root", "rootDollar"}
        BY <2>3, RootFacts DEF RootOf
    <2>6. \A m \in 1..Len(w) : SubSeq(w, 1, m) \in Paths
        BY DEF Paths, PathsTo
    <2> HIDE DEF w
    <2>7. /\ p \in Seq(Levels) /\ Len(p) = n /\ \A i \in 1..n : p[i] = w[i]
          /\ \A m \in 1..n : SubSeq(p, 1, m) = SubSeq(w, 1, m)
        BY <2>3, <2>4, Beginning
    <2>8. \A i \in 1..(Len(w) - 1) : w[i] # "#"
        <3> TAKE i \in 1..(Len(w) - 1)
        <3>1. CASE i = 1
            BY <2>5, <3>1
        <3>2. CASE i # 1
            <4>1. PICK j \in 1..(Len(f) - 1) : i = j + 1
                <5>1. i - 1 \in 1..(Len(f) - 1) /\ i = (i - 1) + 1
                    BY <2>3, <2>30, <3>2
                <5> QED
                    BY <5>1
            <4>2. w[j + 1] = f[j] /\ f[j] # "#"
                BY <2>2, <2>3, <2>30, <4>1
            <4> QED
                BY <4>1, <4>2
        <3> QED
            BY <3>1, <3>2
    <2>9. n \in Nat /\ n >= 1 /\ n <= Len(w) /\ Len(w) \in Nat
        BY <2>3, <2>30
    <2>10. \A m \in 1..Len(p) : SubSeq(p, 1, m) \in Paths
        <3> TAKE m \in 1..Len(p)
        <3>1. m \in 1..n /\ m \in 1..Len(w)
            BY <2>7, <2>9
        <3> QED
            BY <2>6, <2>7, <3>1
    <2>11. \A i \in 1..(Len(p) - 1) : p[i] # "#"
        BY <2>7, <2>8, <2>9, <2>3
    <2> QED
        BY <2>5, <2>7, <2>9, <2>10, <2>11
<1> QED
    BY <1>1, <1>2

LEMMA FilterPathsArePaths ==
    FilterPaths \subseteq Paths /\ \A f \in Filters : PathsTo(f) \subseteq Paths
<1>1. \A f \in Filters : PathsTo(f) \subseteq Paths
    BY DEF Paths
<1>2. ASSUME NEW f \in Filters
      PROVE  PathOf(f) \in PathsTo(f)
    <2>1. f \in Seq(Levels) /\ f # <<>>
        BY FilterLevels
    <2>2. PathOf(f) \in Seq(Levels) /\ Len(PathOf(f)) \in 1..Len(PathOf(f))
        BY <2>1, PathOfFacts
    <2>3. SubSeq(PathOf(f), 1, Len(PathOf(f))) = PathOf(f)
        BY <2>2, SubSeqFull
    <2> QED
        BY <2>2, <2>3 DEF PathsTo
<1> QED
    BY <1>1, <1>2 DEF FilterPaths

\* Under is an order on paths.
LEMMA UnderTransitive ==
    ASSUME NEW p \in Paths, NEW q \in Paths, NEW r \in Paths, Under(p, q), Under(q, r)
    PROVE  Under(p, r)
<1>1. /\ p \in Seq(Levels) /\ Len(p) \in Nat /\ Len(p) >= 1
      /\ q \in Seq(Levels) /\ Len(q) \in Nat /\ Len(q) >= 1
      /\ r \in Seq(Levels) /\ Len(r) \in Nat /\ Len(r) >= 1
    BY PathFacts
<1>2. Len(p) <= Len(q) /\ Len(q) <= Len(r)
    BY DEF Under
<1>3. /\ \A i \in 1..Len(p) : q[i] = p[i]
      /\ \A i \in 1..Len(q) : r[i] = q[i]
    BY <1>1, UnderPointwise
<1>4. \A i \in 1..Len(p) : r[i] = p[i]
    BY <1>1, <1>2, <1>3
<1>5. Len(p) <= Len(r)
    BY <1>1, <1>2
<1> QED
    BY <1>1, <1>4, <1>5, UnderPointwise

LEMMA UnderOrder ==
    ASSUME NEW p \in Paths, NEW q \in Paths
    PROVE  /\ Under(p, p)
           /\ Under(p, q) => /\ Len(p) <= Len(q) /\ p = SubSeq(q, 1, Len(p))
                             /\ Len(p) = Len(q) => p = q
           /\ Under(p, q) /\ Under(q, p) => p = q
           /\ \A r \in Paths : Under(p, r) /\ Under(q, r) => Under(p, q) \/ Under(q, p)
<1>1. /\ p \in Seq(Levels) /\ Len(p) \in Nat /\ Len(p) >= 1
      /\ q \in Seq(Levels) /\ Len(q) \in Nat /\ Len(q) >= 1
    BY PathFacts
<1>2. Under(p, p)
    BY <1>1, UnderPointwise
<1>3. ASSUME Under(p, q)
      PROVE  /\ Len(p) <= Len(q) /\ p = SubSeq(q, 1, Len(p))
             /\ Len(p) = Len(q) => p = q
    <2>1. Len(p) <= Len(q) /\ p = SubSeq(q, 1, Len(p))
        BY <1>3 DEF Under
    <2>2. Len(p) = Len(q) => p = q
        BY <2>1, <1>1, SubSeqFull
    <2> QED
        BY <2>1, <2>2
<1>4. ASSUME Under(p, q), Under(q, p)
      PROVE  p = q
    <2>1. Len(p) <= Len(q) /\ Len(q) <= Len(p)
        BY <1>4 DEF Under
    <2>2. Len(p) = Len(q)
        BY <1>1, <2>1
    <2> QED
        BY <1>3, <1>4, <2>2
<1>5. ASSUME NEW r \in Paths, Under(p, r), Under(q, r)
      PROVE  Under(p, q) \/ Under(q, p)
    <2>1. /\ r \in Seq(Levels)
          /\ \A i \in 1..Len(p) : r[i] = p[i]
          /\ \A i \in 1..Len(q) : r[i] = q[i]
        BY <1>1, <1>5, PathFacts, UnderPointwise
    <2>2. CASE Len(p) <= Len(q)
        <3>1. \A i \in 1..Len(p) : q[i] = p[i]
            BY <1>1, <2>1, <2>2
        <3> QED
            BY <1>1, <2>2, <3>1, UnderPointwise
    <2>3. CASE ~(Len(p) <= Len(q))
        <3>1. Len(q) <= Len(p) /\ \A i \in 1..Len(q) : p[i] = q[i]
            BY <1>1, <2>1, <2>3
        <3> QED
            BY <1>1, <3>1, UnderPointwise
    <2> QED
        BY <2>2, <2>3
<1> QED
    BY <1>2, <1>3, <1>4, <1>5

\* The beginnings of a path that is there are under those before them.
LEMMA BeginningsAreUnder ==
    ASSUME NEW q \in Paths, NEW n \in 1..Len(q), NEW m \in n..Len(q)
    PROVE  /\ SubSeq(q, 1, n) \in Paths /\ Len(SubSeq(q, 1, n)) = n
           /\ Under(SubSeq(q, 1, n), SubSeq(q, 1, m)) /\ Under(SubSeq(q, 1, n), q)
           /\ SubSeq(SubSeq(q, 1, m), 1, n) = SubSeq(q, 1, n)
<1>1. q \in Seq(Levels) /\ Len(q) \in Nat /\ \A k \in 1..Len(q) : SubSeq(q, 1, k) \in Paths
    BY PathFacts
<1>2. m \in 1..Len(q) /\ n \in 1..m
    BY <1>1
<1>3. /\ Len(SubSeq(q, 1, n)) = n /\ Len(SubSeq(q, 1, m)) = m
      /\ SubSeq(SubSeq(q, 1, m), 1, n) = SubSeq(q, 1, n)
    BY <1>1, <1>2, Beginning
<1>4. Under(SubSeq(q, 1, n), SubSeq(q, 1, m)) /\ Under(SubSeq(q, 1, n), q)
    BY <1>1, <1>2, <1>3 DEF Under
<1> QED
    BY <1>1, <1>3, <1>4

-----------------------------------------------------------------------------
(* The tree and what its nodes hold                                          *)

Closed(tr) ==
    /\ {Root, RootDollar} \subseteq tr /\ tr \subseteq Paths /\ IsFiniteSet(tr)
    /\ \A q \in tr : \A n \in 1..Len(q) : SubSeq(q, 1, n) \in tr

Contained(tr, sl, sh, mb) ==
    \A p \in Paths :
        /\ (\E c \in SubClients : sl[p][c] # "none") \/ p \in sh => p \in tr
        /\ mb[p] # {} => p \in sh

Kinds == {"normal", "noLocal"}
Plain(p, c, k, gr) == \E g \in gr : g.node = p /\ g.client = c /\ ~g.share /\ g.kind = k
Shared(p, c, gr) == \E g \in gr : g.node = p /\ g.client = c /\ g.share

\* The tree holds what was granted.
Agrees(sl, mb, gr) ==
    \A p \in Paths, c \in SubClients :
        /\ \A k \in Kinds : sl[p][c] = k <=> Plain(p, c, k, gr)
        /\ c \in mb[p] <=> Shared(p, c, gr)

\* A share has no No Local.
ShareIsNormal(g) == g.share => g.kind = "normal"

GrantsAreOurs(gr) == \A g \in gr : g.node \in FilterPaths /\ ShareIsNormal(g)
HeldAreOurs(hd) ==
    \A c \in SubClients : hd[c] # NoNode => /\ hd[c].node \in FilterPaths
                                          /\ ShareIsNormal(hd[c])
HeldInTree(hd, tr) ==
    \A c \in SubClients : hd[c] # NoNode /\ hd[c].attached => hd[c].node \in tr
DeferredApart(df, tr) ==
    \A i \in 1..Len(df) : /\ df[i] \in tr
                          /\ \A j \in 1..Len(df) : i # j => ~Under(df[i], df[j])

\* The inductive invariant.
SubIInv ==
    /\ SubTypeOK
    /\ Closed(tree) /\ Contained(tree, slot, shares, member)
    /\ Agrees(slot, member, granted) /\ GrantsAreOurs(granted)
    /\ HeldAreOurs(held) /\ HeldInTree(held, tree) /\ DeferredApart(deferred, tree)

\* No purge took out the node that a handler had walked to.
NoWalkerIsCut == \A c \in SubClients : held[c] # NoNode => held[c].attached

-----------------------------------------------------------------------------
(* The purge                                                                 *)

LEMMA ErasedFacts ==
    ASSUME SubIInv, NEW start \in tree
    PROVE  /\ \A q \in Erased(start) : q \in tree /\ q \in Cleaned(start) /\ q # start /\ ~HoldsOn(q)
           /\ \A q \in Cleaned(start) : q \in tree /\ Under(start, q)
           /\ \A q \in tree : \A n \in 1..Len(q) :
                  SubSeq(q, 1, n) \in Erased(start) => q \in Erased(start)
<1>0. tree \subseteq Paths /\ \A q \in tree : \A n \in 1..Len(q) : SubSeq(q, 1, n) \in tree
    BY DEF SubIInv, Closed
<1>1. \A q \in Cleaned(start) : q \in tree /\ Under(start, q)
    BY DEF Cleaned
<1>2. \A q \in Erased(start) : q \in tree /\ q \in Cleaned(start) /\ q # start /\ ~HoldsOn(q)
    <2> TAKE q \in Erased(start)
    <2>1. q \in Cleaned(start) /\ q # start /\ ~\E r \in tree : Under(q, r) /\ HoldsOn(r)
        BY DEF Erased
    <2>2. q \in tree /\ Under(q, q)
        BY <1>0, <1>1, <2>1, UnderOrder
    <2> QED
        BY <2>1, <2>2
<1>3. ASSUME NEW q \in tree, NEW n \in 1..Len(q), SubSeq(q, 1, n) \in Erased(start)
      PROVE  q \in Erased(start)
    <2> DEFINE r == SubSeq(q, 1, n)
    <2>1. /\ r \in Cleaned(start) /\ r # start /\ r \in tree
          /\ ~\E x \in tree : Under(r, x) /\ (HoldsOn(x) \/ Deferrable(x))
        BY <1>1, <1>3 DEF Erased
    <2>2. q \in Paths /\ r \in Paths /\ start \in Paths
        BY <1>0, <2>1
    <2>3. q \in Seq(Levels) /\ Len(q) \in Nat /\ n \in Nat /\ n >= 1 /\ n <= Len(q)
        BY <2>2, PathFacts
    <2>4. Len(r) = n /\ Under(r, q)
        BY <2>2, <2>3, BeginningsAreUnder
    <2>5. Under(start, r) /\ Under(start, q)
        BY <1>1, <2>1, <2>2, <2>4, UnderTransitive
    <2>6. q # start
        BY <2>1, <2>2, <2>4, <2>5, UnderOrder
    <2>7. Len(start) \in Nat /\ Len(start) >= 1
        BY <2>2, PathFacts
    <2>8. ASSUME NEW m \in (Len(start) + 1)..Len(q)
          PROVE  ~Deferrable(SubSeq(q, 1, m))
        <3>1. CASE m <= n
            <4>1. m \in 1..Len(q) /\ n \in m..Len(q) /\ m \in (Len(start) + 1)..Len(r)
                BY <2>3, <2>4, <2>7, <3>1
            <4>2. SubSeq(r, 1, m) = SubSeq(q, 1, m)
                BY <2>2, <4>1, BeginningsAreUnder
            <4>3. ~Deferrable(SubSeq(r, 1, m))
                BY <2>1, <4>1 DEF Cleaned
            <4> QED
                BY <4>2, <4>3
        <3>2. CASE ~(m <= n)
            <4>1. m \in n..Len(q) /\ m \in 1..Len(q)
                BY <2>3, <2>7, <3>2
            <4>2. Under(r, SubSeq(q, 1, m)) /\ SubSeq(q, 1, m) \in tree
                BY <1>0, <2>2, <4>1, BeginningsAreUnder
            <4> QED
                BY <2>1, <4>2
        <3> QED
            BY <3>1, <3>2
    <2>9. q \in Cleaned(start)
        BY <2>5, <2>8 DEF Cleaned
    <2>10. ASSUME NEW x \in tree, Under(q, x)
           PROVE  ~(HoldsOn(x) \/ Deferrable(x))
        <3>1. Under(r, x)
            BY <1>0, <2>2, <2>4, <2>10, UnderTransitive
        <3> QED
            BY <2>1, <3>1
    <2> QED
        BY <2>6, <2>9, <2>10 DEF Erased
<1> QED
    BY <1>1, <1>2, <1>3

\* What is put off stays, and is apart from the rest that is.
LEMMA PutOffFacts ==
    ASSUME SubIInv, NEW start \in tree
    PROVE  /\ IsFiniteSet(PutOff(start))
           /\ \A q \in PutOff(start) : /\ q \in tree /\ q \notin Erased(start) /\ Under(start, q)
                                       /\ \A r \in PutOff(start) : q # r => ~Under(q, r)
<1>0. tree \subseteq Paths /\ IsFiniteSet(tree) /\ start \in Paths
    BY DEF SubIInv, Closed
<1>1. ASSUME NEW q \in PutOff(start)
      PROVE  /\ q \in tree /\ q \in Paths /\ Deferrable(q) /\ Len(q) \in Nat /\ Len(q) > 1
             /\ Under(start, q) /\ Len(start) < Len(q) /\ Len(start) \in Nat /\ Len(start) >= 1
             /\ Parent(q) = SubSeq(q, 1, Len(q) - 1) /\ Len(Parent(q)) = Len(q) - 1
             /\ Parent(q) \in Cleaned(start)
    <2>1. q \in tree /\ q \in Paths /\ Deferrable(q) /\ Parent(q) \in Cleaned(start)
        BY <1>0 DEF PutOff
    <2>2. Len(q) \in Nat /\ Len(q) > 1 /\ Len(start) \in Nat /\ Len(start) >= 1
        BY <1>0, <2>1, PathFacts DEF Deferrable
    <2>3. Len(q) - 1 \in 1..Len(q) /\ Len(q) \in (Len(q) - 1)..Len(q)
        BY <2>2
    <2>4. /\ Parent(q) = SubSeq(q, 1, Len(q) - 1) /\ Parent(q) \in Paths
          /\ Len(Parent(q)) = Len(q) - 1 /\ Under(Parent(q), q)
        BY <2>1, <2>3, BeginningsAreUnder DEF Parent
    <2>5. Under(start, Parent(q))
        BY <2>1 DEF Cleaned
    <2>6. Under(start, q) /\ Len(start) <= Len(Parent(q))
        BY <1>0, <2>1, <2>4, <2>5, UnderTransitive DEF Under
    <2>7. Len(start) < Len(q)
        BY <2>2, <2>4, <2>6
    <2> QED
        BY <2>1, <2>2, <2>4, <2>6, <2>7
<1>2. ASSUME NEW q \in PutOff(start)
      PROVE  q \notin Erased(start)
    <2>1. SubSeq(q, 1, Len(q)) = q
        BY <1>1, PathFacts, SubSeqFull
    <2>2. Len(q) \in (Len(start) + 1)..Len(q)
        BY <1>1
    <2>3. q \notin Cleaned(start)
        BY <1>1, <2>1, <2>2 DEF Cleaned
    <2> QED
        BY <2>3 DEF Erased
<1>3. ASSUME NEW q \in PutOff(start), NEW r \in PutOff(start), q # r, Under(q, r)
      PROVE  FALSE
    <2>1. Len(q) <= Len(r) /\ q = SubSeq(r, 1, Len(q)) /\ Len(q) # Len(r)
        BY <1>1, <1>3, UnderOrder
    <2>2. /\ Len(q) \in 1..Len(r) /\ Len(r) - 1 \in Len(q)..Len(r)
          /\ Len(q) \in (Len(start) + 1)..(Len(r) - 1)
        BY <1>1, <2>1
    <2>3. SubSeq(Parent(r), 1, Len(q)) = SubSeq(r, 1, Len(q))
        BY <1>1, <2>2, BeginningsAreUnder
    <2>4. ~Deferrable(SubSeq(Parent(r), 1, Len(q)))
        BY <1>1, <2>2 DEF Cleaned
    <2> QED
        BY <1>1, <2>1, <2>3, <2>4
<1>4. IsFiniteSet(PutOff(start))
    <2>1. PutOff(start) \subseteq tree
        BY DEF PutOff
    <2> QED
        BY <1>0, <2>1, FS_Subset
<1> QED
    BY <1>1, <1>2, <1>3, <1>4

\* What cleanSubscriptions leaves, but for the deferred leafs.
LEMMA CleanKeeps ==
    ASSUME SubIInv, NEW start \in tree, cleanSubscriptions(start)
    PROVE  /\ Closed(tree') /\ Contained(tree', slot', shares', member')
           /\ Agrees(slot', member', granted') /\ GrantsAreOurs(granted')
           /\ HeldAreOurs(held') /\ HeldInTree(held', tree')
           /\ slot' \in [Paths -> [SubClients -> SlotStates]] /\ shares' \subseteq Paths
           /\ held' \in [SubClients -> Holds \cup {NoNode}]
<1>0. /\ Closed(tree) /\ Contained(tree, slot, shares, member) /\ SubTypeOK
      /\ Agrees(slot, member, granted) /\ GrantsAreOurs(granted)
      /\ HeldAreOurs(held) /\ HeldInTree(held, tree)
      /\ tree \subseteq Paths /\ start \in Paths
    BY DEF SubIInv, Closed
<1>1. /\ tree' = tree \ Erased(start)
      /\ shares' = shares \ {p \in Cleaned(start) : member[p] = {}}
      /\ member' = member /\ recent' = recent /\ granted' = granted
    BY DEF cleanSubscriptions
<1>2. /\ slot' \in [Paths -> [SubClients -> SlotStates]]
      /\ \A p \in Paths, c \in SubClients :
             slot'[p][c] = IF p \in Cleaned(start) /\ slot[p][c] = "expired" THEN "none"
                           ELSE slot[p][c]
    <2>1. slot' = [p \in Paths |-> [c \in SubClients |->
                       IF p \in Cleaned(start) /\ slot[p][c] = "expired" THEN "none"
                       ELSE slot[p][c]]]
        BY DEF cleanSubscriptions
    <2>2. slot \in [Paths -> [SubClients -> SlotStates]] /\ "none" \in SlotStates
        BY <1>0 DEF SubTypeOK, SlotStates
    <2> QED
        BY <2>1, <2>2
<1>3. /\ \A q \in Erased(start) : q \in tree /\ q \in Cleaned(start) /\ q # start /\ ~HoldsOn(q)
      /\ \A q \in Cleaned(start) : q \in tree /\ Under(start, q)
      /\ \A q \in tree : \A n \in 1..Len(q) :
             SubSeq(q, 1, n) \in Erased(start) => q \in Erased(start)
    BY ErasedFacts
<1>4. Closed(tree')
    <2>1. ASSUME NEW r \in {Root, RootDollar}
          PROVE  r \in tree'
        <3>1. r \in tree /\ r \in Paths /\ Len(r) = 1
            BY <1>0, RootFacts DEF Closed
        <3>2. Len(start) \in Nat /\ Len(start) >= 1
            BY <1>0, PathFacts
        <3>3. ASSUME r \in Erased(start)
              PROVE  FALSE
            <4>1. Under(start, r) /\ r # start
                BY <1>3, <3>3
            <4>2. Len(start) = Len(r)
                BY <3>1, <3>2, <4>1 DEF Under
            <4> QED
                BY <1>0, <3>1, <4>1, <4>2, UnderOrder
        <3> QED
            BY <1>1, <3>1, <3>3
    <2>2. IsFiniteSet(tree')
        BY <1>0, <1>1, FS_Subset DEF Closed
    <2>3. \A q \in tree' : \A n \in 1..Len(q) : SubSeq(q, 1, n) \in tree'
        BY <1>0, <1>1, <1>3 DEF Closed
    <2> QED
        BY <1>0, <1>1, <2>1, <2>2, <2>3 DEF Closed
<1>5. Contained(tree', slot', shares', member')
    <2> SUFFICES ASSUME NEW p \in Paths
                 PROVE  /\ (\E c \in SubClients : slot'[p][c] # "none") \/ p \in shares' => p \in tree'
                        /\ member'[p] # {} => p \in shares'
        BY DEF Contained
    <2>0. /\ (\E c \in SubClients : slot[p][c] # "none") \/ p \in shares => p \in tree
          /\ member[p] # {} => p \in shares
        BY <1>0 DEF Contained
    <2>1. ASSUME NEW c \in SubClients, slot'[p][c] # "none"
          PROVE  p \in tree'
        <3>1. p \in tree
            BY <1>2, <2>0, <2>1
        <3>2. p \in Erased(start) => HoldsOn(p)
            <4>1. slot[p][c] \in SlotStates
                BY <1>0 DEF SubTypeOK
            <4> QED
                BY <1>2, <1>3, <2>1, <4>1 DEF HoldsOn, Live, SlotStates
        <3> QED
            BY <1>1, <1>3, <3>1, <3>2
    <2>2. p \in shares' => p \in tree'
        BY <1>1, <1>3, <2>0 DEF HoldsOn
    <2>3. member'[p] # {} => p \in shares'
        BY <1>1, <2>0
    <2> QED
        BY <2>1, <2>2, <2>3
<1>6. Agrees(slot', member', granted')
    <2> SUFFICES ASSUME NEW p \in Paths, NEW c \in SubClients
                 PROVE  /\ \A k \in Kinds : slot'[p][c] = k <=> Plain(p, c, k, granted)
                        /\ c \in member[p] <=> Shared(p, c, granted)
        BY <1>1 DEF Agrees
    <2>1. /\ \A k \in Kinds : slot[p][c] = k <=> Plain(p, c, k, granted)
          /\ c \in member[p] <=> Shared(p, c, granted)
        BY <1>0 DEF Agrees
    <2>2. \A k \in Kinds : slot'[p][c] = k <=> slot[p][c] = k
        BY <1>2 DEF Kinds
    <2> QED
        BY <2>1, <2>2
<1>7. /\ held' \in [SubClients -> Holds \cup {NoNode}]
      /\ \A c \in SubClients : held'[c] # NoNode =>
             /\ held[c] # NoNode /\ held'[c].node = held[c].node
             /\ ShareIsNormal(held[c]) => ShareIsNormal(held'[c])
             /\ held'[c].attached => held[c].attached /\ held[c].node \notin Erased(start)
    <2>1. held' = [c \in SubClients |->
                       IF held[c] # NoNode /\ held[c].node \in Erased(start)
                       THEN [held[c] EXCEPT !.attached = FALSE] ELSE held[c]]
        BY DEF cleanSubscriptions
    <2>2. \A c \in SubClients : held[c] \in Holds \cup {NoNode}
        BY <1>0 DEF SubTypeOK
    <2>3. ASSUME NEW c \in SubClients
          PROVE  /\ held'[c] \in Holds \cup {NoNode}
                 /\ held'[c] # NoNode =>
                       /\ held[c] # NoNode /\ held'[c].node = held[c].node
                       /\ ShareIsNormal(held[c]) => ShareIsNormal(held'[c])
                       /\ held'[c].attached => held[c].attached /\ held[c].node \notin Erased(start)
        <3>1. CASE held[c] # NoNode /\ held[c].node \in Erased(start)
            <4>1. held[c] \in Holds /\ held'[c] = [held[c] EXCEPT !.attached = FALSE]
                BY <2>1, <2>2, <3>1
            <4> QED
                BY <3>1, <4>1 DEF Holds, ShareIsNormal
        <3>2. CASE ~(held[c] # NoNode /\ held[c].node \in Erased(start))
            BY <2>1, <2>2, <3>2
        <3> QED
            BY <3>1, <3>2
    <2> QED
        BY <2>1, <2>3
<1>8. HeldAreOurs(held') /\ HeldInTree(held', tree')
    BY <1>0, <1>1, <1>7 DEF HeldAreOurs, HeldInTree
<1> QED
    BY <1>0, <1>1, <1>2, <1>4, <1>5, <1>6, <1>7, <1>8 DEF SubTypeOK

\* An order of the leafs that are put off.
LEMMA OrderFacts ==
    ASSUME NEW S, IsFiniteSet(S), NEW order \in SetToSeqs(S)
    PROVE  /\ order \in Seq(S)
           /\ \A i, j \in 1..Len(order) : i # j => order[i] # order[j]
<1>1. Cardinality(S) \in Nat
    BY FS_CardinalityType
<1>2. /\ order \in [1..Cardinality(S) -> S]
      /\ \A i, j \in 1..Cardinality(S) : i # j => order[i] # order[j]
    BY DEF SetToSeqs
<1>3. order \in Seq(S) /\ Len(order) = Cardinality(S)
    BY <1>1, <1>2, IsASeq, LenProperties
<1> QED
    BY <1>2, <1>3

LEMMA PurgeKeeps ==
    ASSUME SubIInv, purgeSubscriptionTree
    PROVE  SubIInv'
<1>0. Closed(tree) /\ DeferredApart(deferred, tree) /\ SubTypeOK /\ deferred \in Seq(Paths)
      /\ tree \subseteq Paths /\ Root \in tree
    BY DEF SubIInv, SubTypeOK, Closed
<1>1. CASE PurgeTree
    <2>1. cleanSubscriptions(Root) /\ \E order \in SetToSeqs(PutOff(Root)) : deferred' = order
        BY <1>1 DEF PurgeTree
    <2>2. PICK order \in SetToSeqs(PutOff(Root)) : deferred' = order
        BY <2>1
    <2>3. /\ IsFiniteSet(PutOff(Root))
          /\ \A q \in PutOff(Root) : /\ q \in tree /\ q \notin Erased(Root)
                                     /\ \A r \in PutOff(Root) : q # r => ~Under(q, r)
        BY <1>0, PutOffFacts
    <2>4. /\ deferred' \in Seq(PutOff(Root))
          /\ \A i, j \in 1..Len(deferred') : i # j => deferred'[i] # deferred'[j]
        BY <2>2, <2>3, OrderFacts
    <2>5. tree' = tree \ Erased(Root)
        BY <2>1 DEF cleanSubscriptions
    <2>6. \A i \in 1..Len(deferred') : deferred'[i] \in PutOff(Root)
        BY <2>4
    <2>7. DeferredApart(deferred', tree')
        BY <2>3, <2>4, <2>5, <2>6 DEF DeferredApart
    <2>8. deferred' \in Seq(Paths)
        <3>1. PutOff(Root) \subseteq Paths
            BY <1>0 DEF PutOff
        <3>2. Len(deferred') \in Nat /\ deferred' = [i \in 1..Len(deferred') |-> deferred'[i]]
            BY <2>4
        <3> QED
            BY <2>6, <3>1, <3>2
    <2>9. /\ Closed(tree') /\ Contained(tree', slot', shares', member')
          /\ Agrees(slot', member', granted') /\ GrantsAreOurs(granted')
          /\ HeldAreOurs(held') /\ HeldInTree(held', tree')
          /\ slot' \in [Paths -> [SubClients -> SlotStates]] /\ shares' \subseteq Paths
          /\ held' \in [SubClients -> Holds \cup {NoNode}]
        BY <1>0, <2>1, CleanKeeps
    <2>10. member' = member /\ recent' = recent /\ granted' = granted /\ tree' \subseteq Paths
        BY <2>1, <2>9 DEF cleanSubscriptions, Closed
    <2> QED
        BY <1>0, <2>7, <2>8, <2>9, <2>10 DEF SubIInv, SubTypeOK
<1>2. CASE PurgeDeferred
    <2> DEFINE start == Head(deferred)
               rest == Tail(deferred)
    <2>1. deferred # <<>>
        BY <1>2 DEF PurgeDeferred
    <2>2. /\ rest \in Seq(Paths) /\ Len(rest) = Len(deferred) - 1 /\ start = deferred[1]
          /\ \A i \in 1..Len(rest) : rest[i] = deferred[i + 1]
          /\ Len(deferred) \in Nat /\ Len(deferred) >= 1
        BY <1>0, <2>1, HeadTailProperties, EmptySeq
    <2>3. start \in tree
        BY <1>0, <2>2 DEF DeferredApart
    <2>4. \A i \in 1..Len(rest) : /\ rest[i] \in tree /\ ~Under(start, rest[i]) /\ ~Under(rest[i], start)
                                  /\ \A j \in 1..Len(rest) : i # j => ~Under(rest[i], rest[j])
        <3> TAKE i \in 1..Len(rest)
        <3>1. i + 1 \in 1..Len(deferred) /\ i + 1 # 1 /\ 1 \in 1..Len(deferred)
            BY <2>2
        <3>2. rest[i] = deferred[i + 1]
            BY <2>2
        <3>3. rest[i] \in tree /\ ~Under(start, rest[i]) /\ ~Under(rest[i], start)
            BY <1>0, <2>2, <3>1, <3>2 DEF DeferredApart
        <3>4. ASSUME NEW j \in 1..Len(rest), i # j
              PROVE  ~Under(rest[i], rest[j])
            <4>1. j + 1 \in 1..Len(deferred) /\ i + 1 # j + 1 /\ rest[j] = deferred[j + 1]
                BY <2>2, <3>4
            <4> QED
                BY <1>0, <3>1, <3>2, <4>1 DEF DeferredApart
        <3> QED
            BY <3>3, <3>4
    <2>5. /\ cleanSubscriptions(start)
          /\ \E order \in SetToSeqs(PutOff(start)) : deferred' = rest \o order
        BY <1>2, <2>3 DEF PurgeDeferred
    <2> HIDE DEF start, rest
    <2>6. PICK order \in SetToSeqs(PutOff(start)) : deferred' = rest \o order
        BY <2>5
    <2>7. /\ IsFiniteSet(PutOff(start))
          /\ \A q \in PutOff(start) : /\ q \in tree /\ q \notin Erased(start) /\ Under(start, q)
                                      /\ \A r \in PutOff(start) : q # r => ~Under(q, r)
        BY <2>3, PutOffFacts
    <2>8. /\ order \in Seq(PutOff(start)) /\ Len(order) \in Nat
          /\ \A i, j \in 1..Len(order) : i # j => order[i] # order[j]
          /\ \A i \in 1..Len(order) : order[i] \in PutOff(start)
        BY <2>7, OrderFacts
    <2>9. order \in Seq(Paths)
        <3>1. PutOff(start) \subseteq Paths
            BY <1>0 DEF PutOff
        <3>2. order = [i \in 1..Len(order) |-> order[i]]
            BY <2>8
        <3> QED
            BY <2>8, <3>1, <3>2
    <2>10. /\ deferred' \in Seq(Paths) /\ Len(deferred') = Len(rest) + Len(order)
           /\ \A i \in 1..(Len(rest) + Len(order)) :
                  deferred'[i] = IF i <= Len(rest) THEN rest[i] ELSE order[i - Len(rest)]
        BY <2>2, <2>6, <2>9, ConcatProperties
    <2>11. tree' = tree \ Erased(start)
        BY <2>5 DEF cleanSubscriptions
    <2>12. Len(rest) \in Nat
        BY <2>2
    <2>13. \A i \in 1..Len(deferred') :
               \/ \E m \in 1..Len(rest) : m = i /\ deferred'[i] = rest[m]
               \/ \E m \in 1..Len(order) : m = i - Len(rest) /\ deferred'[i] = order[m]
        <3> TAKE i \in 1..Len(deferred')
        <3>1. CASE i <= Len(rest)
            <4>1. i \in 1..Len(rest)
                BY <2>10, <2>12, <3>1
            <4> QED
                BY <2>10, <3>1, <4>1
        <3>2. CASE ~(i <= Len(rest))
            <4>1. i - Len(rest) \in 1..Len(order)
                BY <2>8, <2>10, <2>12, <3>2
            <4> QED
                BY <2>10, <3>2, <4>1
        <3> QED
            BY <3>1, <3>2
    <2>14. \A m \in 1..Len(rest) : rest[m] \in tree' /\ rest[m] \in Paths
        <3> TAKE m \in 1..Len(rest)
        <3>1. rest[m] \notin Cleaned(start)
            BY <2>4 DEF Cleaned
        <3> QED
            BY <1>0, <2>4, <2>11, <3>1 DEF Erased
    <2>15. \A m \in 1..Len(order) : /\ order[m] \in tree' /\ order[m] \in Paths
                                    /\ Under(start, order[m])
        BY <1>0, <2>7, <2>8, <2>11
    <2>16. ASSUME NEW m \in 1..Len(rest), NEW n \in 1..Len(order)
           PROVE  ~Under(rest[m], order[n]) /\ ~Under(order[n], rest[m])
        <3>1. start \in Paths /\ rest[m] \in Paths /\ order[n] \in Paths /\ Under(start, order[n])
            BY <1>0, <2>3, <2>14, <2>15
        <3>2. ~Under(start, rest[m]) /\ ~Under(rest[m], start)
            BY <2>4
        <3> QED
            BY <3>1, <3>2, UnderOrder, UnderTransitive
    <2>17. DeferredApart(deferred', tree')
        <3>1. ASSUME NEW i \in 1..Len(deferred')
              PROVE  deferred'[i] \in tree'
            BY <2>13, <2>14, <2>15
        <3>2. ASSUME NEW i \in 1..Len(deferred'), NEW j \in 1..Len(deferred'), i # j
              PROVE  ~Under(deferred'[i], deferred'[j])
            <4>1. CASE \E m \in 1..Len(rest) : m = i /\ deferred'[i] = rest[m]
                <5>1. CASE \E m \in 1..Len(rest) : m = j /\ deferred'[j] = rest[m]
                    BY <2>4, <3>2, <4>1, <5>1
                <5>2. CASE \E m \in 1..Len(order) : m = j - Len(rest) /\ deferred'[j] = order[m]
                    BY <2>16, <4>1, <5>2
                <5> QED
                    BY <2>13, <5>1, <5>2
            <4>2. CASE \E m \in 1..Len(order) : m = i - Len(rest) /\ deferred'[i] = order[m]
                <5>1. CASE \E m \in 1..Len(rest) : m = j /\ deferred'[j] = rest[m]
                    BY <2>16, <4>2, <5>1
                <5>2. CASE \E m \in 1..Len(order) : m = j - Len(rest) /\ deferred'[j] = order[m]
                    <6>1. PICK m \in 1..Len(order) : m = i - Len(rest) /\ deferred'[i] = order[m]
                        BY <4>2
                    <6>2. PICK n \in 1..Len(order) : n = j - Len(rest) /\ deferred'[j] = order[n]
                        BY <5>2
                    <6>3. m # n
                        BY <2>12, <3>2, <6>1, <6>2
                    <6> QED
                        BY <2>7, <2>8, <6>1, <6>2, <6>3
                <5> QED
                    BY <2>13, <5>1, <5>2
            <4> QED
                BY <2>13, <4>1, <4>2
        <3> QED
            BY <3>1, <3>2 DEF DeferredApart
    <2>18. /\ Closed(tree') /\ Contained(tree', slot', shares', member')
           /\ Agrees(slot', member', granted') /\ GrantsAreOurs(granted')
           /\ HeldAreOurs(held') /\ HeldInTree(held', tree')
           /\ slot' \in [Paths -> [SubClients -> SlotStates]] /\ shares' \subseteq Paths
           /\ held' \in [SubClients -> Holds \cup {NoNode}]
        BY <2>3, <2>5, CleanKeeps
    <2>19. member' = member /\ recent' = recent /\ granted' = granted /\ tree' \subseteq Paths
        BY <2>5, <2>18 DEF cleanSubscriptions, Closed
    <2> QED
        BY <1>0, <2>10, <2>17, <2>18, <2>19 DEF SubIInv, SubTypeOK
<1> QED
    BY <1>1, <1>2 DEF purgeSubscriptionTree

-----------------------------------------------------------------------------
(* The requests                                                              *)

LEMMA PathsToFacts ==
    ASSUME NEW f \in Filters
    PROVE  /\ PathsTo(f) \subseteq Paths /\ IsFiniteSet(PathsTo(f))
           /\ \A q \in PathsTo(f) : \A n \in 1..Len(q) : SubSeq(q, 1, n) \in PathsTo(f)
           /\ PathOf(f) \in PathsTo(f) /\ PathOf(f) \in FilterPaths
<1> DEFINE w == PathOf(f)
<1>1. f \in Seq(Levels) /\ f # <<>>
    BY FilterLevels
<1>2. w \in Seq(Levels) /\ Len(w) \in Nat /\ Len(w) >= 1
    BY <1>1, PathOfFacts
<1>3. PathsTo(f) \subseteq Paths
    BY FilterPathsArePaths
<1>4. PathsTo(f) = {SubSeq(w, 1, n) : n \in 1..Len(w)}
    BY DEF PathsTo
<1>5. w \in FilterPaths
    BY DEF FilterPaths
<1> HIDE DEF w
<1>6. IsFiniteSet(PathsTo(f))
    <2> DEFINE g == [n \in 1..Len(w) |-> SubSeq(w, 1, n)]
    <2>1. IsFiniteSet(1..Len(w))
        BY <1>2, FS_Interval
    <2>2. g \in Surjection(1..Len(w), PathsTo(f))
        BY <1>4 DEF Surjection
    <2> QED
        BY <2>1, <2>2, FS_Surjection
<1>7. ASSUME NEW q \in PathsTo(f), NEW n \in 1..Len(q)
      PROVE  SubSeq(q, 1, n) \in PathsTo(f)
    <2>1. PICK m \in 1..Len(w) : q = SubSeq(w, 1, m)
        BY <1>4
    <2>2. Len(q) = m /\ SubSeq(q, 1, n) = SubSeq(w, 1, n)
        BY <1>2, <2>1, Beginning
    <2>3. n \in 1..Len(w)
        BY <1>2, <2>1, <2>2
    <2> QED
        BY <1>4, <2>2, <2>3
<1>8. w \in PathsTo(f)
    <2>1. SubSeq(w, 1, Len(w)) = w
        BY <1>2, SubSeqFull
    <2>2. Len(w) \in 1..Len(w)
        BY <1>2
    <2> QED
        BY <1>4, <2>1, <2>2
<1> QED
    BY <1>3, <1>5, <1>6, <1>7, <1>8 DEF w

LEMMA GetDeepestNodeKeeps ==
    ASSUME SubIInv, NEW c \in SubClients, NEW f \in Filters, NEW share \in BOOLEAN,
           NEW kind \in Kinds, GetDeepestNode(c, f, share, kind)
    PROVE  SubIInv'
<1>1. /\ tree' = tree \cup PathsTo(f)
      /\ held' = [held EXCEPT ![c] = [op |-> "add", node |-> PathOf(f), share |-> share,
                                      kind |-> kind, attached |-> TRUE]]
      /\ slot' = slot /\ shares' = shares /\ member' = member /\ recent' = recent
      /\ deferred' = deferred /\ granted' = granted
    BY DEF GetDeepestNode
<1>2. /\ PathsTo(f) \subseteq Paths /\ IsFiniteSet(PathsTo(f))
      /\ \A q \in PathsTo(f) : \A n \in 1..Len(q) : SubSeq(q, 1, n) \in PathsTo(f)
      /\ PathOf(f) \in PathsTo(f) /\ PathOf(f) \in FilterPaths
    BY PathsToFacts
<1>3. Closed(tree')
    <2>1. IsFiniteSet(tree')
        BY <1>1, <1>2, FS_Union DEF SubIInv, Closed
    <2> QED
        BY <1>1, <1>2, <2>1 DEF SubIInv, Closed
<1>4. Contained(tree', slot', shares', member') /\ DeferredApart(deferred', tree')
    BY <1>1 DEF SubIInv, Contained, DeferredApart
<1>5. /\ held' \in [SubClients -> Holds \cup {NoNode}]
      /\ held'[c].node = PathOf(f) /\ ShareIsNormal(held'[c])
      /\ \A d \in SubClients : d # c => held'[d] = held[d]
    <2>1. [op |-> "add", node |-> PathOf(f), share |-> share, kind |-> kind, attached |-> TRUE]
          \in Holds
        BY <1>2 DEF Holds, Kinds
    <2>2. held \in [SubClients -> Holds \cup {NoNode}]
        BY DEF SubIInv, SubTypeOK
    <2>3. share => kind = "normal"
        BY DEF GetDeepestNode
    <2> QED
        BY <1>1, <2>1, <2>2, <2>3 DEF ShareIsNormal
<1>6. HeldAreOurs(held') /\ HeldInTree(held', tree')
    BY <1>1, <1>2, <1>5 DEF SubIInv, HeldAreOurs, HeldInTree
<1> QED
    BY <1>1, <1>2, <1>3, <1>4, <1>5, <1>6 DEF SubIInv, SubTypeOK, Closed

LEMMA FindNodeKeeps ==
    ASSUME SubIInv, NEW c \in SubClients, NEW f \in Filters, NEW share \in BOOLEAN,
           FindNode(c, f, share)
    PROVE  SubIInv'
<1>1. /\ PathOf(f) \in tree
      /\ held' = [held EXCEPT ![c] = [op |-> "remove", node |-> PathOf(f), share |-> share,
                                      kind |-> "normal", attached |-> TRUE]]
      /\ tree' = tree /\ slot' = slot /\ shares' = shares /\ member' = member
      /\ recent' = recent /\ deferred' = deferred /\ granted' = granted
    BY DEF FindNode
<1>2. PathOf(f) \in FilterPaths /\ PathOf(f) \in Paths
    BY PathsToFacts
<1>5. /\ held' \in [SubClients -> Holds \cup {NoNode}]
      /\ held'[c].node = PathOf(f) /\ ShareIsNormal(held'[c])
      /\ \A d \in SubClients : d # c => held'[d] = held[d]
    <2>1. [op |-> "remove", node |-> PathOf(f), share |-> share, kind |-> "normal", attached |-> TRUE]
          \in Holds
        BY <1>2 DEF Holds
    <2>2. held \in [SubClients -> Holds \cup {NoNode}]
        BY DEF SubIInv, SubTypeOK
    <2> QED
        BY <1>1, <2>1, <2>2 DEF ShareIsNormal
<1>6. HeldAreOurs(held') /\ HeldInTree(held', tree')
    BY <1>1, <1>2, <1>5 DEF SubIInv, HeldAreOurs, HeldInTree
<1> QED
    BY <1>1, <1>5, <1>6 DEF SubIInv, SubTypeOK

\* What a request changes of the grants.
LEMMA GrantsAfter ==
    ASSUME SubTypeOK, NEW c \in SubClients, held[c] \in Holds, NEW p \in Paths, NEW d \in SubClients
    PROVE  /\ ~held[c].share /\ p = held[c].node /\ d = c =>
                  /\ \A k \in Kinds : /\ Plain(p, d, k, WithoutGrant(c) \cup {Grant(c)})
                                         <=> k = held[c].kind
                                      /\ ~Plain(p, d, k, WithoutGrant(c))
           /\ ~(~held[c].share /\ p = held[c].node /\ d = c) =>
                  \A k \in Kinds : /\ Plain(p, d, k, WithoutGrant(c) \cup {Grant(c)})
                                      <=> Plain(p, d, k, granted)
                                   /\ Plain(p, d, k, WithoutGrant(c)) <=> Plain(p, d, k, granted)
           /\ held[c].share /\ p = held[c].node /\ d = c =>
                  /\ Shared(p, d, WithoutGrant(c) \cup {Grant(c)})
                  /\ ~Shared(p, d, WithoutGrant(c))
           /\ ~(held[c].share /\ p = held[c].node /\ d = c) =>
                  /\ Shared(p, d, WithoutGrant(c) \cup {Grant(c)}) <=> Shared(p, d, granted)
                  /\ Shared(p, d, WithoutGrant(c)) <=> Shared(p, d, granted)
<1>1. \A g \in granted : g.share \in BOOLEAN
    BY DEF SubTypeOK
<1>2. held[c].share \in BOOLEAN
    BY DEF Holds
<1>3. \A g \in granted : g \in WithoutGrant(c) <=>
          ~(g.node = held[c].node /\ g.client = c /\ (g.share <=> held[c].share))
    BY <1>1, <1>2 DEF WithoutGrant
<1>4. /\ Grant(c).node = held[c].node /\ Grant(c).client = c /\ Grant(c).kind = held[c].kind
      /\ Grant(c).share <=> held[c].share
    BY DEF Grant
<1>5. WithoutGrant(c) \subseteq granted
    BY DEF WithoutGrant
<1> QED
    BY <1>3, <1>4, <1>5 DEF Plain, Shared

LEMMA GrantTypes ==
    ASSUME SubIInv, NEW c \in SubClients, held[c] \in Holds
    PROVE  /\ WithoutGrant(c) \cup {Grant(c)} \subseteq
                  [node : Paths, client : SubClients, share : BOOLEAN, kind : {"normal", "noLocal"}]
           /\ WithoutGrant(c) \subseteq
                  [node : Paths, client : SubClients, share : BOOLEAN, kind : {"normal", "noLocal"}]
           /\ held[c] # NoNode => GrantsAreOurs(WithoutGrant(c) \cup {Grant(c)})
           /\ GrantsAreOurs(WithoutGrant(c))
<1>1. WithoutGrant(c) \subseteq granted
    BY DEF WithoutGrant
<1>2. Grant(c) \in [node : Paths, client : SubClients, share : BOOLEAN, kind : {"normal", "noLocal"}]
    BY DEF Grant, Holds
<1>3. Grant(c).node = held[c].node /\ (ShareIsNormal(held[c]) => ShareIsNormal(Grant(c)))
    BY DEF Grant, ShareIsNormal
<1> QED
    BY <1>1, <1>2, <1>3 DEF SubIInv, SubTypeOK, GrantsAreOurs, HeldAreOurs

LEMMA AddSubscriberKeeps ==
    ASSUME SubIInv, NoWalkerIsCut, NEW c \in SubClients, addSubscriber(c)
    PROVE  SubIInv'
<1> DEFINE h == held[c]
<1>1. /\ held[c].op = "add"
      /\ granted' = WithoutGrant(c) \cup {Grant(c)}
      /\ held' = [held EXCEPT ![c] = NoNode]
      /\ tree' = tree /\ deferred' = deferred
    BY DEF addSubscriber
<1>2. h \in Holds /\ h # NoNode /\ SubTypeOK
    BY <1>1 DEF SubIInv, SubTypeOK, NoNode
<1>3. h.attached /\ h.node \in tree /\ h.node \in Paths /\ h.node \in FilterPaths /\ h.kind \in Kinds
    BY <1>2 DEF NoWalkerIsCut, SubIInv, HeldInTree, HeldAreOurs, Holds, Kinds
<1>4. addSubscriberToNode(c)
    BY <1>3 DEF addSubscriber
<1>5. recent' \subseteq Paths
    BY <1>2, <1>3, <1>4 DEF addSubscriberToNode, SubTypeOK
<1>6. held' \in [SubClients -> Holds \cup {NoNode}] /\ HeldAreOurs(held') /\ HeldInTree(held', tree')
    BY <1>1, <1>2 DEF SubIInv, SubTypeOK, HeldAreOurs, HeldInTree
<1>7. /\ granted' \subseteq [node : Paths, client : SubClients, share : BOOLEAN,
                             kind : {"normal", "noLocal"}]
      /\ GrantsAreOurs(granted')
    BY <1>1, <1>2, GrantTypes
<1>8. /\ slot' \in [Paths -> [SubClients -> SlotStates]] /\ shares' \subseteq Paths
      /\ member' \in [Paths -> SUBSET SubClients]
      /\ Contained(tree', slot', shares', member') /\ Agrees(slot', member', granted')
    <2>1. CASE h.share
        <3>1. /\ shares' = shares \cup {h.node} /\ slot' = slot
              /\ member' = [member EXCEPT ![h.node] = @ \cup {c}]
            BY <1>4, <2>1 DEF addSubscriberToNode
        <3>2. Contained(tree', slot', shares', member')
            BY <1>1, <1>2, <1>3, <3>1 DEF SubIInv, SubTypeOK, Contained
        <3>3. ASSUME NEW p \in Paths, NEW d \in SubClients
              PROVE  /\ \A k \in Kinds : slot'[p][d] = k <=> Plain(p, d, k, granted')
                     /\ d \in member'[p] <=> Shared(p, d, granted')
            <4>1. /\ \A k \in Kinds : slot[p][d] = k <=> Plain(p, d, k, granted)
                  /\ d \in member[p] <=> Shared(p, d, granted)
                BY DEF SubIInv, Agrees
            <4>2. \A k \in Kinds : Plain(p, d, k, granted') <=> Plain(p, d, k, granted)
                BY <1>1, <1>2, <2>1, GrantsAfter
            <4>3. Shared(p, d, granted') <=> Shared(p, d, granted) \/ (p = h.node /\ d = c)
                BY <1>1, <1>2, <2>1, GrantsAfter
            <4>4. d \in member'[p] <=> d \in member[p] \/ (p = h.node /\ d = c)
                BY <1>2, <1>3, <3>1 DEF SubTypeOK
            <4> QED
                BY <3>1, <4>1, <4>2, <4>3, <4>4
        <3>4. Agrees(slot', member', granted')
            BY <3>3 DEF Agrees
        <3> QED
            BY <1>2, <1>3, <3>1, <3>2, <3>4 DEF SubTypeOK
    <2>2. CASE ~h.share
        <3>1. /\ slot' = [slot EXCEPT ![h.node][c] = h.kind]
              /\ shares' = shares /\ member' = member
            BY <1>4, <2>2 DEF addSubscriberToNode
        <3>2. /\ slot' \in [Paths -> [SubClients -> SlotStates]]
              /\ \A p \in Paths, d \in SubClients :
                     slot'[p][d] = IF p = h.node /\ d = c THEN h.kind ELSE slot[p][d]
            BY <1>2, <1>3, <3>1 DEF SubTypeOK, SlotStates, Kinds
        <3>3. Contained(tree', slot', shares', member')
            BY <1>1, <1>2, <1>3, <3>1, <3>2 DEF SubIInv, Contained
        <3>4. ASSUME NEW p \in Paths, NEW d \in SubClients
              PROVE  /\ \A k \in Kinds : slot'[p][d] = k <=> Plain(p, d, k, granted')
                     /\ d \in member'[p] <=> Shared(p, d, granted')
            <4>1. /\ \A k \in Kinds : slot[p][d] = k <=> Plain(p, d, k, granted)
                  /\ d \in member[p] <=> Shared(p, d, granted)
                BY DEF SubIInv, Agrees
            <4>2. Shared(p, d, granted') <=> Shared(p, d, granted)
                BY <1>1, <1>2, <2>2, GrantsAfter
            <4>3. CASE p = h.node /\ d = c
                <5>1. \A k \in Kinds : Plain(p, d, k, granted') <=> k = h.kind
                    BY <1>1, <1>2, <2>2, <4>3, GrantsAfter
                <5> QED
                    BY <3>1, <3>2, <4>1, <4>2, <4>3, <5>1
            <4>4. CASE ~(p = h.node /\ d = c)
                <5>1. \A k \in Kinds : Plain(p, d, k, granted') <=> Plain(p, d, k, granted)
                    BY <1>1, <1>2, <2>2, <4>4, GrantsAfter
                <5> QED
                    BY <3>1, <3>2, <4>1, <4>2, <4>4, <5>1
            <4> QED
                BY <4>3, <4>4
        <3>5. Agrees(slot', member', granted')
            BY <3>4 DEF Agrees
        <3> QED
            BY <1>2, <3>1, <3>2, <3>3, <3>5 DEF SubTypeOK
    <2> QED
        BY <2>1, <2>2
<1> QED
    BY <1>1, <1>2, <1>5, <1>6, <1>7, <1>8 DEF SubIInv, SubTypeOK

LEMMA RemoveSubscriberKeeps ==
    ASSUME SubIInv, NoWalkerIsCut, NEW c \in SubClients, removeSubscriber(c)
    PROVE  SubIInv'
<1> DEFINE h == held[c]
<1>1. /\ held[c].op = "remove"
      /\ granted' = WithoutGrant(c)
      /\ held' = [held EXCEPT ![c] = NoNode]
      /\ tree' = tree /\ deferred' = deferred /\ shares' = shares
    BY DEF removeSubscriber
<1>2. h \in Holds /\ h # NoNode /\ SubTypeOK
    BY <1>1 DEF SubIInv, SubTypeOK, NoNode
<1>3. h.attached /\ h.node \in tree /\ h.node \in Paths
    BY <1>2 DEF NoWalkerIsCut, SubIInv, HeldInTree, Holds
<1>4. removeSubscriberFromNode(c)
    BY <1>3 DEF removeSubscriber
<1>5. recent' \subseteq Paths
    BY <1>2, <1>3, <1>4 DEF removeSubscriberFromNode, SubTypeOK
<1>6. held' \in [SubClients -> Holds \cup {NoNode}] /\ HeldAreOurs(held') /\ HeldInTree(held', tree')
    BY <1>1, <1>2 DEF SubIInv, SubTypeOK, HeldAreOurs, HeldInTree
<1>7. /\ granted' \subseteq [node : Paths, client : SubClients, share : BOOLEAN,
                             kind : {"normal", "noLocal"}]
      /\ GrantsAreOurs(granted')
    BY <1>1, <1>2, GrantTypes
<1>8. /\ slot' \in [Paths -> [SubClients -> SlotStates]]
      /\ member' \in [Paths -> SUBSET SubClients]
      /\ Contained(tree', slot', shares', member') /\ Agrees(slot', member', granted')
    <2>1. CASE h.share
        <3>1. slot' = slot /\ member' = [member EXCEPT ![h.node] = @ \ {c}]
            BY <1>4, <2>1 DEF removeSubscriberFromNode
        <3>2. Contained(tree', slot', shares', member')
            BY <1>1, <1>2, <1>3, <3>1 DEF SubIInv, SubTypeOK, Contained
        <3>3. ASSUME NEW p \in Paths, NEW d \in SubClients
              PROVE  /\ \A k \in Kinds : slot'[p][d] = k <=> Plain(p, d, k, granted')
                     /\ d \in member'[p] <=> Shared(p, d, granted')
            <4>1. /\ \A k \in Kinds : slot[p][d] = k <=> Plain(p, d, k, granted)
                  /\ d \in member[p] <=> Shared(p, d, granted)
                BY DEF SubIInv, Agrees
            <4>2. \A k \in Kinds : Plain(p, d, k, granted') <=> Plain(p, d, k, granted)
                BY <1>1, <1>2, <2>1, GrantsAfter
            <4>3. Shared(p, d, granted') <=> Shared(p, d, granted) /\ ~(p = h.node /\ d = c)
                BY <1>1, <1>2, <2>1, GrantsAfter
            <4>4. d \in member'[p] <=> d \in member[p] /\ ~(p = h.node /\ d = c)
                BY <1>2, <1>3, <3>1 DEF SubTypeOK
            <4> QED
                BY <3>1, <4>1, <4>2, <4>3, <4>4
        <3>4. Agrees(slot', member', granted')
            BY <3>3 DEF Agrees
        <3> QED
            BY <1>2, <1>3, <3>1, <3>2, <3>4 DEF SubTypeOK
    <2>2. CASE ~h.share
        <3>1. slot' = [slot EXCEPT ![h.node][c] = "none"] /\ member' = member
            BY <1>4, <2>2 DEF removeSubscriberFromNode
        <3>2. /\ slot' \in [Paths -> [SubClients -> SlotStates]]
              /\ \A p \in Paths, d \in SubClients :
                     slot'[p][d] = IF p = h.node /\ d = c THEN "none" ELSE slot[p][d]
            BY <1>2, <1>3, <3>1 DEF SubTypeOK, SlotStates
        <3>3. Contained(tree', slot', shares', member')
            BY <1>1, <1>2, <1>3, <3>1, <3>2 DEF SubIInv, Contained
        <3>4. ASSUME NEW p \in Paths, NEW d \in SubClients
              PROVE  /\ \A k \in Kinds : slot'[p][d] = k <=> Plain(p, d, k, granted')
                     /\ d \in member'[p] <=> Shared(p, d, granted')
            <4>1. /\ \A k \in Kinds : slot[p][d] = k <=> Plain(p, d, k, granted)
                  /\ d \in member[p] <=> Shared(p, d, granted)
                BY DEF SubIInv, Agrees
            <4>2. Shared(p, d, granted') <=> Shared(p, d, granted)
                BY <1>1, <1>2, <2>2, GrantsAfter
            <4>3. CASE p = h.node /\ d = c
                <5>1. \A k \in Kinds : ~Plain(p, d, k, granted')
                    BY <1>1, <1>2, <2>2, <4>3, GrantsAfter
                <5>2. \A k \in Kinds : k # "none"
                    BY DEF Kinds
                <5> QED
                    BY <3>1, <3>2, <4>1, <4>2, <4>3, <5>1, <5>2
            <4>4. CASE ~(p = h.node /\ d = c)
                <5>1. \A k \in Kinds : Plain(p, d, k, granted') <=> Plain(p, d, k, granted)
                    BY <1>1, <1>2, <2>2, <4>4, GrantsAfter
                <5> QED
                    BY <3>1, <3>2, <4>1, <4>2, <4>4, <5>1
            <4> QED
                BY <4>3, <4>4
        <3>5. Agrees(slot', member', granted')
            BY <3>4 DEF Agrees
        <3> QED
            BY <1>2, <3>1, <3>2, <3>3, <3>5 DEF SubTypeOK
    <2> QED
        BY <2>1, <2>2
<1> QED
    BY <1>1, <1>2, <1>5, <1>6, <1>7, <1>8 DEF SubIInv, SubTypeOK

LEMMA EndSessionKeeps ==
    ASSUME SubIInv, NEW c \in SubClients, EndSession(c)
    PROVE  SubIInv'
<1>1. /\ slot' = [p \in Paths |-> [slot[p] EXCEPT ![c] = IF @ = "none" THEN @ ELSE "expired"]]
      /\ member' = [p \in Paths |-> member[p] \ {c}]
      /\ granted' = {g \in granted : g.client # c}
      /\ tree' = tree /\ shares' = shares /\ recent' = recent /\ deferred' = deferred
      /\ held' = held
    BY DEF EndSession
<1>2. slot \in [Paths -> [SubClients -> SlotStates]] /\ member \in [Paths -> SUBSET SubClients]
    BY DEF SubIInv, SubTypeOK
<1>3. \A p \in Paths, d \in SubClients :
          slot'[p][d] = IF d = c THEN IF slot[p][d] = "none" THEN "none" ELSE "expired"
                        ELSE slot[p][d]
    BY <1>1, <1>2
<1>4. slot' \in [Paths -> [SubClients -> SlotStates]] /\ member' \in [Paths -> SUBSET SubClients]
    BY <1>1, <1>2 DEF SlotStates
<1>5. Contained(tree', slot', shares', member')
    BY <1>1, <1>2, <1>3 DEF SubIInv, Contained
<1>6. ASSUME NEW p \in Paths, NEW d \in SubClients
      PROVE  /\ \A k \in Kinds : slot'[p][d] = k <=> Plain(p, d, k, granted')
             /\ d \in member'[p] <=> Shared(p, d, granted')
    <2>1. /\ \A k \in Kinds : slot[p][d] = k <=> Plain(p, d, k, granted)
          /\ d \in member[p] <=> Shared(p, d, granted)
        BY DEF SubIInv, Agrees
    <2>2. CASE d = c
        <3>1. (\A k \in Kinds : ~Plain(p, d, k, granted')) /\ ~Shared(p, d, granted')
            BY <1>1, <2>2 DEF Plain, Shared
        <3>2. \A k \in Kinds : k # "none" /\ k # "expired"
            BY DEF Kinds
        <3> QED
            BY <1>1, <1>2, <1>3, <2>2, <3>1, <3>2
    <2>3. CASE d # c
        <3>1. /\ \A k \in Kinds : Plain(p, d, k, granted') <=> Plain(p, d, k, granted)
              /\ Shared(p, d, granted') <=> Shared(p, d, granted)
            BY <1>1, <2>3 DEF Plain, Shared
        <3> QED
            BY <1>1, <1>2, <1>3, <2>1, <2>3, <3>1
    <2> QED
        BY <2>2, <2>3
<1>7. Agrees(slot', member', granted') /\ GrantsAreOurs(granted')
    BY <1>1, <1>6 DEF SubIInv, Agrees, GrantsAreOurs
<1> QED
    BY <1>1, <1>4, <1>5, <1>7 DEF SubIInv, SubTypeOK

LEMMA SubInitKeeps ==
    ASSUME SubInit
    PROVE  SubIInv
<1>1. Closed(tree)
    <2>1. {Root, RootDollar} \subseteq Paths
        BY DEF Paths
    <2>2. IsFiniteSet({Root, RootDollar})
        <3>1. {Root, RootDollar} = {Root} \cup {RootDollar}
            OBVIOUS
        <3>2. IsFiniteSet({Root}) /\ IsFiniteSet({RootDollar})
            BY FS_Singleton
        <3> QED
            BY <3>1, <3>2, FS_Union
    <2>3. \A q \in {Root, RootDollar} : \A n \in 1..Len(q) : SubSeq(q, 1, n) = q
        <3> TAKE q \in {Root, RootDollar}
        <3>1. q \in Seq(Levels) /\ Len(q) = 1
            BY RootFacts
        <3>2. SubSeq(q, 1, 1) = q
            BY <3>1, SubSeqFull
        <3> QED
            BY <3>1, <3>2
    <2> QED
        BY <2>1, <2>2, <2>3 DEF SubInit, Closed
<1>2. Contained(tree, slot, shares, member)
    BY DEF SubInit, Contained
<1>3. Agrees(slot, member, granted)
    <2>1. \A k \in Kinds : k # "none"
        BY DEF Kinds
    <2> QED
        BY <2>1 DEF SubInit, Agrees, Plain, Shared
<1>4. GrantsAreOurs(granted) /\ HeldAreOurs(held) /\ HeldInTree(held, tree)
    BY DEF SubInit, GrantsAreOurs, HeldAreOurs, HeldInTree
<1>5. deferred \in Seq(Paths) /\ DeferredApart(deferred, tree)
    BY EmptySeq DEF SubInit, DeferredApart
<1>6. SubTypeOK
    BY <1>1, <1>5 DEF SubInit, SubTypeOK, SlotStates, Closed
<1> QED
    BY <1>1, <1>2, <1>3, <1>4, <1>5, <1>6 DEF SubIInv

LEMMA SubNextKeeps ==
    ASSUME SubIInv, NoWalkerIsCut, [SubNext]_subVars
    PROVE  SubIInv'
<1>1. ASSUME NEW c \in SubClients, Subscribe(c)
      PROVE  SubIInv'
    BY <1>1, GetDeepestNodeKeeps DEF Subscribe, Kinds
<1>2. ASSUME NEW c \in SubClients, Unsubscribe(c)
      PROVE  SubIInv'
    BY <1>2, FindNodeKeeps DEF Unsubscribe
<1>3. ASSUME NEW c \in SubClients, FinishRequest(c)
      PROVE  SubIInv'
    BY <1>3, AddSubscriberKeeps, RemoveSubscriberKeeps DEF FinishRequest
<1>4. ASSUME NEW p \in Paths, GraceEnds(p)
      PROVE  SubIInv'
    BY <1>4 DEF GraceEnds, SubIInv, SubTypeOK
<1>5. CASE UNCHANGED subVars
    BY <1>5 DEF subVars, SubIInv, SubTypeOK
<1> QED
    BY <1>1, <1>2, <1>3, <1>4, <1>5, EndSessionKeeps, PurgeKeeps DEF SubNext

LEMMA TreeSound ==
    ASSUME SubIInv, NoWalkerIsCut
    PROVE  TreeIsSound
<1>1. NewMeansNew
    <2> SUFFICES ASSUME NEW c \in SubClients, held[c].op = "add"
                 PROVE  AddSubscriptionType(c) = "NewSubscription" <=> WithoutGrant(c) = granted
        BY DEF NewMeansNew
    <2> DEFINE h == held[c]
    <2>1. h \in Holds /\ h # NoNode /\ SubTypeOK /\ h.attached /\ h.node \in Paths
        BY DEF SubIInv, SubTypeOK, NoNode, NoWalkerIsCut, Holds
    <2>2. /\ \A k \in Kinds : slot[h.node][c] = k <=> Plain(h.node, c, k, granted)
          /\ c \in member[h.node] <=> Shared(h.node, c, granted)
        BY <2>1 DEF SubIInv, Agrees
    <2>3. \A g \in granted : g.share \in BOOLEAN /\ g.kind \in Kinds
        BY <2>1 DEF SubTypeOK, Kinds
    <2>4. h.share \in BOOLEAN
        BY <2>1 DEF Holds
    <2>5. WithoutGrant(c) = granted <=>
              ~\E g \in granted : g.node = h.node /\ g.client = c /\ (g.share <=> h.share)
        BY <2>3, <2>4 DEF WithoutGrant
    <2>6. Live(h.node, c) <=>
              \E g \in granted : g.node = h.node /\ g.client = c /\ ~g.share
        BY <2>2, <2>3 DEF Live, Plain, Kinds
    <2>7. c \in member[h.node] <=>
              \E g \in granted : g.node = h.node /\ g.client = c /\ g.share
        BY <2>2 DEF Shared
    <2>8. AddSubscriptionType(c) = "NewSubscription" <=>
              ~(IF h.share THEN c \in member[h.node] ELSE Live(h.node, c))
        BY <2>1 DEF AddSubscriptionType
    <2>9. CASE h.share
        BY <2>5, <2>7, <2>8, <2>9
    <2>10. CASE ~h.share
        BY <2>5, <2>6, <2>8, <2>10
    <2> QED
        BY <2>9, <2>10
<1>2. DeferredAreInTree
    BY DEF SubIInv, DeferredApart, DeferredAreInTree
<1>3. TreeIsConnected
    <2>1. ASSUME NEW p \in tree, Len(p) > 1
          PROVE  Parent(p) \in tree
        <3>1. Len(p) \in Nat
            BY <2>1, PathFacts DEF SubIInv, Closed
        <3>2. Len(p) - 1 \in 1..Len(p)
            BY <2>1, <3>1
        <3> QED
            BY <2>1, <3>2 DEF SubIInv, Closed, Parent
    <2>2. {Root, RootDollar} \subseteq tree
        BY DEF SubIInv, Closed
    <2>3. \A p \in Paths : (Used(p) \/ p \in shares) => p \in tree
        BY DEF SubIInv, Contained, Used
    <2> QED
        BY <2>1, <2>2, <2>3 DEF TreeIsConnected
<1> QED
    BY <1>1, <1>2, <1>3 DEF TreeIsSound
-----------------------------------------------------------------------------
(* One worker thread                                                         *)

\* With one thread no purge runs while a handler is on its way.
LEMMA OneThreadCutsNobody ==
    ASSUME SubThreads = FALSE, SubTypeOK, NoWalkerIsCut, [SubNext]_subVars
    PROVE  NoWalkerIsCut'
<1>0. held \in [SubClients -> Holds \cup {NoNode}]
    BY DEF SubTypeOK
<1>1. ASSUME NEW c \in SubClients, Subscribe(c) \/ Unsubscribe(c)
      PROVE  NoWalkerIsCut'
    <2>1. PICK h \in [op : {"add", "remove"}, node : {PathOf(f) : f \in Filters},
                      share : BOOLEAN, kind : {"normal", "noLocal"}, attached : {TRUE}] :
              held' = [held EXCEPT ![c] = h]
        BY <1>1 DEF Subscribe, Unsubscribe, GetDeepestNode, FindNode
    <2> QED
        BY <1>0, <2>1 DEF NoWalkerIsCut
<1>2. ASSUME NEW c \in SubClients, FinishRequest(c)
      PROVE  NoWalkerIsCut'
    <2>1. held' = [held EXCEPT ![c] = NoNode]
        BY <1>2 DEF FinishRequest, addSubscriber, removeSubscriber
    <2> QED
        BY <1>0, <2>1 DEF NoWalkerIsCut
<1>3. CASE purgeSubscriptionTree
    <2>1. \A c \in SubClients : held[c] = NoNode
        BY <1>3 DEF purgeSubscriptionTree, PurgeTree, PurgeDeferred, ThreadIsFree
    <2>2. \A c \in SubClients : held'[c] = NoNode
        BY <1>3, <2>1
           DEF purgeSubscriptionTree, PurgeTree, PurgeDeferred, cleanSubscriptions
    <2> QED
        BY <2>2 DEF NoWalkerIsCut
<1>4. ASSUME held' = held
      PROVE  NoWalkerIsCut'
    BY <1>4 DEF NoWalkerIsCut
<1>5. \A c \in SubClients : EndSession(c) => held' = held
    BY DEF EndSession
<1>6. \A p \in Paths : GraceEnds(p) => held' = held
    BY DEF GraceEnds
<1>7. UNCHANGED subVars => held' = held
    BY DEF subVars
<1> QED
    BY <1>1, <1>2, <1>3, <1>4, <1>5, <1>6, <1>7 DEF SubNext

-----------------------------------------------------------------------------
(* publishRecursively                                                        *)

\* One call of it, when v says what the calls further down return.
Step(v, path, p) ==
    IF Len(p) = Len(path) THEN {p} \cup PoundOf(p)
    ELSE IF ChildrenIn(p) = {} THEN {}
    ELSE LET next == {Append(p, "+"), Append(p, path[Len(p) + 1])} \cap tree
         IN  PoundOf(p) \cup UNION {v[q] : q \in next}

IsWalk(v, path) == v = [p \in Within(path) |-> Step(v, path, p)]

LEMMA WalkIsAWalk ==
    \A t : Walk(t) = (CHOOSE v : IsWalk(v, PathOf(t)))[RootOf(t)]
BY DEF Walk, IsWalk, Step

\* The levels of q after the first n match those of path.
Fits(q, path, n) ==
    IF q[Len(q)] = "#" /\ Len(q) > n
    THEN Len(q) - 1 <= Len(path) /\ \A i \in (n + 1)..(Len(q) - 1) : q[i] \in {path[i], "+"}
    ELSE Len(q) = Len(path) /\ \A i \in (n + 1)..Len(q) : q[i] \in {path[i], "+"}

\* The nodes that a walk from p reaches.
Fitting(p, path) == {q \in tree \cup {p} : Under(p, q) /\ Fits(q, path, Len(p))}

NoWildcards(path) == path \in Seq(Levels) /\ \A i \in 2..Len(path) : path[i] # "#"

LEMMA AppendFacts ==
    ASSUME NEW p \in Seq(Levels), NEW x \in Levels, Len(p) >= 1
    PROVE  /\ Append(p, x) \in Seq(Levels) /\ Len(Append(p, x)) = Len(p) + 1
           /\ Append(p, x)[Len(p) + 1] = x
           /\ Under(p, Append(p, x))
           /\ \A q \in Seq(Levels) : Under(p, q) /\ Len(q) > Len(p) /\ q[Len(p) + 1] = x
                                        <=> Under(Append(p, x), q)
<1> DEFINE w == Append(p, x)
<1>1. /\ w \in Seq(Levels) /\ Len(w) = Len(p) + 1 /\ w[Len(p) + 1] = x
      /\ \A i \in 1..Len(p) : w[i] = p[i]
    BY AppendProperties
<1>2. Len(p) \in Nat
    OBVIOUS
<1> HIDE DEF w
<1>3. Under(p, w)
    BY <1>1, <1>2, UnderPointwise
<1>4. ASSUME NEW q \in Seq(Levels)
      PROVE  Under(p, q) /\ Len(q) > Len(p) /\ q[Len(p) + 1] = x <=> Under(w, q)
    <2>1. Under(p, q) <=> Len(p) <= Len(q) /\ \A i \in 1..Len(p) : q[i] = p[i]
        BY UnderPointwise
    <2>2. Under(w, q) <=> Len(w) <= Len(q) /\ \A i \in 1..Len(w) : q[i] = w[i]
        BY <1>1, <1>2, UnderPointwise
    <2>3. Len(q) \in Nat
        OBVIOUS
    <2>4. (\A i \in 1..Len(w) : q[i] = w[i])
              <=> (\A i \in 1..Len(p) : q[i] = p[i]) /\ q[Len(p) + 1] = x
        BY <1>1, <1>2
    <2>5. Len(w) <= Len(q) <=> Len(q) > Len(p)
        BY <1>1, <1>2, <2>3
    <2> QED
        BY <1>2, <2>1, <2>2, <2>3, <2>4, <2>5
<1> QED
    BY <1>1, <1>3, <1>4 DEF w

\* A call returns what it should when the calls further down do.
LEMMA StepIsRight ==
    ASSUME Closed(tree), NEW path, NoWildcards(path), NEW p \in Within(path), NEW v,
           \A r \in Within(path) : Len(r) = Len(p) + 1 => v[r] = Fitting(r, path)
    PROVE  Step(v, path, p) = Fitting(p, path)
<1> DEFINE n == Len(p)
<1>1. /\ p \in Paths /\ p \in Seq(Levels) /\ n \in Nat /\ n >= 1 /\ n <= Len(path)
      /\ path \in Seq(Levels) /\ Len(path) \in Nat
    BY PathFacts DEF Within, NoWildcards
<1>2. tree \subseteq Paths /\ \A q \in tree : \A k \in 1..Len(q) : SubSeq(q, 1, k) \in tree
    BY DEF Closed
<1>3. \A q \in Paths : q \in Seq(Levels) /\ Len(q) \in Nat /\ Len(q) >= 1
    BY PathFacts
<1>4. "#" \in Levels /\ "+" \in Levels /\ (n < Len(path) => path[n + 1] \in Levels)
    BY <1>1 DEF Levels
<1>5. Under(p, p) /\ \A q \in Paths : Under(p, q) => n <= Len(q) /\ (n = Len(q) => p = q)
    BY <1>1, UnderOrder
<1>6. \A q : q \in PoundOf(p) <=> q \in tree /\ Under(p, q) /\ Len(q) = n + 1 /\ q[Len(q)] = "#"
    <2>1. ASSUME NEW q \in PoundOf(p)
          PROVE  q \in tree /\ Under(p, q) /\ Len(q) = n + 1 /\ q[Len(q)] = "#"
        <3>1. q \in tree /\ q = Append(p, "#")
            BY DEF PoundOf
        <3> QED
            BY <1>1, <1>4, <3>1, AppendFacts
    <2>2. ASSUME NEW q \in tree, Under(p, q), Len(q) = n + 1, q[Len(q)] = "#"
          PROVE  q \in PoundOf(p)
        <3> DEFINE w == Append(p, "#")
        <3>1. w \in Seq(Levels) /\ Len(w) = n + 1
            BY <1>1, <1>4, AppendFacts
        <3>2. Under(w, q)
            BY <1>1, <1>2, <1>3, <1>4, <2>2, AppendFacts
        <3>3. q \in Seq(Levels)
            BY <1>2, <1>3
        <3>4. q = w
            BY <2>2, <3>1, <3>2, <3>3, SubSeqFull DEF Under
        <3> QED
            BY <3>4 DEF PoundOf
    <2> QED
        BY <2>1, <2>2
<1>7. CASE n = Len(path)
    <2>1. ASSUME NEW q \in Paths, Under(p, q)
          PROVE  Fits(q, path, n) <=> q = p \/ (Len(q) = n + 1 /\ q[Len(q)] = "#")
        <3>1. Len(q) \in Nat /\ n <= Len(q) /\ (n = Len(q) => p = q)
            BY <1>3, <1>5, <2>1
        <3>2. CASE q = p
            BY <1>1, <1>7, <3>2 DEF Fits
        <3>3. CASE q # p
            BY <1>1, <1>7, <3>1, <3>3 DEF Fits
        <3> QED
            BY <3>2, <3>3
    <2>2. \A q : q \in Fitting(p, path) <=> q = p \/ q \in PoundOf(p)
        BY <1>1, <1>2, <1>5, <1>6, <2>1 DEF Fitting
    <2>3. Step(v, path, p) = {p} \cup PoundOf(p)
        BY <1>7 DEF Step
    <2> QED
        BY <2>2, <2>3
<1>8. CASE n # Len(path)
    <2>1. n < Len(path)
        BY <1>1, <1>8
    <2>2. \A q \in Paths : Under(p, q) /\ Fits(q, path, n) => Len(q) > n
        <3> TAKE q \in Paths
        <3>1. Len(q) \in Nat /\ (Under(p, q) => n <= Len(q))
            BY <1>3, <1>5
        <3>2. Len(q) = n => ~Fits(q, path, n)
            BY <1>1, <2>1 DEF Fits
        <3> QED
            BY <1>1, <3>1, <3>2
    <2>3. \A q \in tree : Under(p, q) /\ Len(q) > n =>
              /\ SubSeq(q, 1, n + 1) \in tree /\ SubSeq(q, 1, n + 1) \in ChildrenIn(p)
        <3> SUFFICES ASSUME NEW q \in tree, Under(p, q), Len(q) > n
                     PROVE  SubSeq(q, 1, n + 1) \in tree /\ SubSeq(q, 1, n + 1) \in ChildrenIn(p)
            OBVIOUS
        <3>1. q \in Paths /\ Len(q) \in Nat
            BY <1>2, <1>3
        <3>2. n + 1 \in 1..Len(q) /\ n \in 1..Len(q) /\ n + 1 \in n..Len(q)
            BY <1>1, <3>1
        <3>3. p = SubSeq(q, 1, n)
            BY DEF Under
        <3>4. Under(p, SubSeq(q, 1, n + 1)) /\ Len(SubSeq(q, 1, n + 1)) = n + 1
            BY <3>1, <3>2, <3>3, BeginningsAreUnder, Beginning, PathFacts
        <3> QED
            BY <1>2, <3>2, <3>4 DEF ChildrenIn
    <2>4. CASE ChildrenIn(p) = {}
        <3>1. Step(v, path, p) = {}
            BY <1>8, <2>4 DEF Step
        <3>2. \A q \in tree \cup {p} : ~(Under(p, q) /\ Fits(q, path, n))
            BY <1>1, <1>2, <2>2, <2>3, <2>4
        <3> QED
            BY <3>1, <3>2 DEF Fitting
    <2>5. CASE ChildrenIn(p) # {}
        <3> DEFINE next == {Append(p, "+"), Append(p, path[n + 1])} \cap tree
        <3>1. Step(v, path, p) = PoundOf(p) \cup UNION {v[q] : q \in next}
            BY <1>8, <2>5 DEF Step
        <3>2. ASSUME NEW r \in next
              PROVE  /\ r \in Within(path) /\ Len(r) = n + 1 /\ r \in tree /\ Under(p, r)
                     /\ r[n + 1] \in {path[n + 1], "+"}
            <4>1. r \in tree /\ r \in Paths
                BY <1>2
            <4>2. PICK x \in {path[n + 1], "+"} : r = Append(p, x)
                OBVIOUS
            <4>3. Len(r) = n + 1 /\ r[n + 1] = x /\ Under(p, r)
                BY <1>1, <1>4, <2>1, <4>2, AppendFacts
            <4> QED
                BY <1>1, <2>1, <4>1, <4>3 DEF Within
        <3>3. ASSUME NEW q \in tree, Under(p, q), Len(q) > n, q[n + 1] \in {path[n + 1], "+"}
              PROVE  \E r \in next : Under(r, q)
            <4>1. PICK x \in {path[n + 1], "+"} : q[n + 1] = x
                BY <3>3
            <4>2. q \in Seq(Levels) /\ x \in Levels
                BY <1>2, <1>3, <1>4, <2>1
            <4>3. Under(Append(p, x), q) /\ Len(Append(p, x)) = n + 1
                BY <1>1, <3>3, <4>1, <4>2, AppendFacts
            <4>4. n + 1 \in 1..Len(q)
                BY <1>1, <1>2, <1>3, <3>3
            <4>5. Append(p, x) = SubSeq(q, 1, n + 1)
                BY <4>3 DEF Under
            <4>6. Append(p, x) \in tree
                BY <1>2, <4>4, <4>5
            <4> QED
                BY <4>3, <4>6
        <3>4. ASSUME NEW q \in tree, Under(p, q), Len(q) > n
              PROVE  Fits(q, path, n) <=> \/ Len(q) = n + 1 /\ q[Len(q)] = "#"
                                          \/ /\ q[n + 1] \in {path[n + 1], "+"}
                                             /\ Fits(q, path, n + 1)
            <4>1. Len(q) \in Nat /\ q \in Seq(Levels)
                BY <1>2, <1>3
            <4>2. path[n + 1] # "#"
                BY <1>1, <2>1 DEF NoWildcards
            <4>3. CASE Len(q) = n + 1 /\ q[Len(q)] = "#"
                BY <1>1, <2>1, <4>1, <4>3 DEF Fits
            <4>4. CASE Len(q) > n + 1 /\ q[Len(q)] = "#"
                BY <1>1, <2>1, <3>4, <4>1, <4>4 DEF Fits
            <4>5. CASE q[Len(q)] # "#"
                BY <1>1, <2>1, <3>4, <4>1, <4>5 DEF Fits
            <4> QED
                BY <1>1, <3>4, <4>1, <4>3, <4>4, <4>5
        <3>5. ASSUME NEW q
              PROVE  q \in UNION {v[r] : r \in next} <=>
                         \E r \in next : q \in tree /\ Under(r, q) /\ Fits(q, path, n + 1)
            <4>1. \A r \in next : v[r] = {x \in tree : Under(r, x) /\ Fits(x, path, n + 1)}
                <5> TAKE r \in next
                <5>1. v[r] = Fitting(r, path) /\ r \in tree /\ Len(r) = n + 1
                    BY <3>2
                <5>2. tree \cup {r} = tree
                    BY <5>1
                <5> QED
                    BY <5>1, <5>2 DEF Fitting
            <4> QED
                BY <4>1
        <3>6. ASSUME NEW q \in tree, NEW r \in next, Under(r, q)
              PROVE  Under(p, q) /\ Len(q) > n /\ q[n + 1] \in {path[n + 1], "+"}
            <4>1. PICK x \in {path[n + 1], "+"} : r = Append(p, x)
                OBVIOUS
            <4>2. q \in Seq(Levels) /\ x \in Levels
                BY <1>2, <1>3, <1>4, <2>1
            <4> QED
                BY <1>1, <3>6, <4>1, <4>2, AppendFacts
        <3>7. ASSUME NEW q \in tree
              PROVE  q \in Step(v, path, p) <=> Under(p, q) /\ Fits(q, path, n)
            <4>1. q \in Step(v, path, p) <=>
                      \/ Under(p, q) /\ Len(q) = n + 1 /\ q[Len(q)] = "#"
                      \/ \E r \in next : Under(r, q) /\ Fits(q, path, n + 1)
                BY <1>6, <3>1, <3>5
            <4>2. (\E r \in next : Under(r, q)) <=>
                      Under(p, q) /\ Len(q) > n /\ q[n + 1] \in {path[n + 1], "+"}
                BY <3>3, <3>6
            <4>3. Under(p, q) /\ Fits(q, path, n) => Len(q) > n
                BY <1>2, <2>2
            <4>4. Len(q) = n + 1 => Len(q) > n
                BY <1>1
            <4> HIDE DEF next
            <4> QED
                BY <3>4, <4>1, <4>2, <4>3, <4>4
        <3>8. \A q \in Step(v, path, p) : q \in tree
            BY <1>6, <3>1, <3>5
        <3>9. \A q \in Fitting(p, path) : q \in tree
            BY <1>1, <1>2, <2>2 DEF Fitting
        <3>10. \A q \in tree : q \in Fitting(p, path) <=> Under(p, q) /\ Fits(q, path, n)
            BY DEF Fitting
        <3> QED
            BY <3>7, <3>8, <3>9, <3>10
    <2> QED
        BY <2>4, <2>5
<1> QED
    BY <1>7, <1>8

-----------------------------------------------------------------------------
LEMMA LeastNumber ==
    ASSUME NEW T, T \subseteq Nat, T # {}
    PROVE  \E m \in T : \A k \in T : ~(k < m)
<1>1. PICK m \in T : \A k \in T : ~ (<<k, m>> \in OpToRel(<, Nat))
    BY NatLessThanWellFounded, WFMin
<1> QED
    BY <1>1 DEF OpToRel

\* The recursion ends, so there is one such function only.
LEMMA WalksAgree ==
    ASSUME Closed(tree), NEW path, NoWildcards(path)
    PROVE  /\ IsWalk([p \in Within(path) |-> Fitting(p, path)], path)
           /\ \A v : IsWalk(v, path) => \A p \in Within(path) : v[p] = Fitting(p, path)
<1>1. IsWalk([p \in Within(path) |-> Fitting(p, path)], path)
    <2> DEFINE v == [p \in Within(path) |-> Fitting(p, path)]
    <2>1. \A p \in Within(path) : v[p] = Fitting(p, path)
        OBVIOUS
    <2>2. v = [p \in Within(path) |-> v[p]]
        OBVIOUS
    <2> HIDE DEF v
    <2>3. \A p \in Within(path) : Step(v, path, p) = v[p]
        BY <2>1, StepIsRight
    <2>4. v = [p \in Within(path) |-> Step(v, path, p)]
        BY <2>2, <2>3
    <2> QED
        BY <2>4 DEF IsWalk, v
<1>2. ASSUME NEW v, IsWalk(v, path), NEW p \in Within(path), v[p] # Fitting(p, path)
      PROVE  FALSE
    <2>1. \A q \in Within(path) : v[q] = Step(v, path, q)
        BY <1>2 DEF IsWalk
    <2>2. /\ Len(path) \in Nat
          /\ \A q \in Within(path) : Len(q) \in Nat /\ Len(q) <= Len(path)
        BY PathFacts DEF Within, NoWildcards
    <2> DEFINE T == {Len(path) - Len(q) : q \in {r \in Within(path) : v[r] # Fitting(r, path)}}
    <2>3. T \subseteq Nat /\ T # {}
        BY <1>2, <2>2
    <2>4. PICK m \in T : \A k \in T : ~(k < m)
        BY <2>3, LeastNumber
    <2>5. PICK q \in Within(path) : m = Len(path) - Len(q) /\ v[q] # Fitting(q, path)
        BY <2>4
    <2>6. ASSUME NEW r \in Within(path), Len(r) = Len(q) + 1
          PROVE  v[r] = Fitting(r, path)
        <3>1. Len(path) - Len(r) < m
            BY <2>2, <2>5, <2>6
        <3> QED
            BY <2>4, <3>1
    <2>7. Step(v, path, q) = Fitting(q, path)
        BY <2>6, StepIsRight
    <2> QED
        BY <2>1, <2>5, <2>7
<1> QED
    BY <1>1, <1>2

LEMMA TopicPaths ==
    ASSUME NEW t \in Topics
    PROVE  NoWildcards(PathOf(t)) /\ RootOf(t) \in Within(PathOf(t)) /\ Len(RootOf(t)) = 1
<1> DEFINE w == PathOf(t)
<1>1. t \in Seq(Levels) /\ t # <<>> /\ \A i \in 1..Len(t) : t[i] \notin {"+", "#"}
    BY FilterLevels, TopicsAssumption
<1>2. Len(t) \in Nat
    BY <1>1
<1>3. /\ w \in Seq(Levels) /\ Len(w) = Len(t) + 1 /\ Len(t) >= 1
      /\ Len(RootOf(t)) = 1 /\ \A i \in 1..Len(t) : w[i + 1] = t[i]
    BY <1>1, PathOfFacts
<1>4. RootOf(t) \in Paths
    BY DEF RootOf, Paths
<1> HIDE DEF w
<1>5. \A i \in 2..Len(w) : w[i] # "#"
    <2> TAKE i \in 2..Len(w)
    <2>1. PICK j \in 1..Len(t) : i = j + 1
        <3>1. i - 1 \in 1..Len(t) /\ i = (i - 1) + 1
            BY <1>2, <1>3
        <3> QED
            BY <3>1
    <2> QED
        BY <1>1, <1>3, <2>1
<1>6. NoWildcards(w)
    BY <1>3, <1>5 DEF NoWildcards
<1>7. Len(RootOf(t)) <= Len(w)
    BY <1>2, <1>3
<1>8. RootOf(t) \in Within(w)
    BY <1>4, <1>7 DEF Within
<1> QED
    BY <1>3, <1>6, <1>8 DEF w

\* publishRecursively reaches the nodes on the way of the topic.
LEMMA WalkReaches ==
    ASSUME Closed(tree), NEW t \in Topics
    PROVE  Walk(t) = {q \in tree : Under(RootOf(t), q) /\ Fits(q, PathOf(t), 1)}
<1> DEFINE path == PathOf(t)
           v == CHOOSE v : IsWalk(v, path)
<1>1. NoWildcards(path) /\ RootOf(t) \in Within(path) /\ Len(RootOf(t)) = 1
    BY TopicPaths
<1> HIDE DEF path
<1>2. \E u : IsWalk(u, path)
    BY <1>1, WalksAgree
<1>3. IsWalk(v, path)
    BY <1>2
<1>4. v[RootOf(t)] = Fitting(RootOf(t), path)
    <2> HIDE DEF v
    <2> QED
        BY <1>1, <1>3, WalksAgree
<1>5. Walk(t) = v[RootOf(t)]
    BY WalkIsAWalk DEF path
<1>6. RootOf(t) \in tree
    BY DEF RootOf, Closed
<1>7. tree \cup {RootOf(t)} = tree
    BY <1>6
<1> QED
    BY <1>1, <1>4, <1>5, <1>7 DEF Fitting, path

\* The way of a topic is what its filters match.
LEMMA WalkMatches ==
    ASSUME NEW f \in Filters, NEW t \in Topics
    PROVE  Under(RootOf(t), PathOf(f)) /\ Fits(PathOf(f), PathOf(t), 1) <=> Matches(f, t)
<1> DEFINE q == PathOf(f)
           path == PathOf(t)
<1>1. /\ f \in Seq(Levels) /\ f # <<>> /\ t \in Seq(Levels) /\ t # <<>>
      /\ Len(f) \in Nat /\ Len(t) \in Nat /\ Len(f) >= 1 /\ Len(t) >= 1
    BY FilterLevels
<1>2. /\ q \in Seq(Levels) /\ Len(q) = Len(f) + 1
      /\ q[1] = RootOf(f)[1] /\ \A i \in 1..Len(f) : q[i + 1] = f[i]
      /\ path \in Seq(Levels) /\ Len(path) = Len(t) + 1
      /\ \A i \in 1..Len(t) : path[i + 1] = t[i]
      /\ RootOf(t) \in Seq(Levels) /\ Len(RootOf(t)) = 1
      /\ RootOf(f) \in Seq(Levels) /\ Len(RootOf(f)) = 1
    BY <1>1, PathOfFacts
<1> HIDE DEF q, path
<1>3. Under(RootOf(t), q) <=> (f[1] \in DollarLevels <=> t[1] \in DollarLevels)
    <2>1. Under(RootOf(t), q) <=> q[1] = RootOf(t)[1]
        <3> DEFINE r == RootOf(t)
        <3>1. r \in Seq(Levels) /\ Len(r) = 1 /\ Len(r) >= 1 /\ q \in Seq(Levels)
            BY <1>2
        <3> HIDE DEF r
        <3>2. Under(r, q) <=> Len(r) <= Len(q) /\ \A i \in 1..Len(r) : q[i] = r[i]
            BY <3>1, UnderPointwise
        <3>3. Len(r) <= Len(q)
            BY <1>1, <1>2, <3>1
        <3>4. (\A i \in 1..Len(r) : q[i] = r[i]) <=> q[1] = r[1]
            BY <3>1
        <3> QED
            BY <3>2, <3>3, <3>4 DEF r
    <2>2. RootOf(f)[1] = RootOf(t)[1] <=> (f[1] \in DollarLevels <=> t[1] \in DollarLevels)
        BY RootFacts DEF RootOf
    <2> QED
        BY <1>2, <2>1, <2>2
<1>4. ASSUME NEW n \in Nat, n <= Len(f), n <= Len(t)
      PROVE  (\A i \in 2..(n + 1) : q[i] \in {path[i], "+"}) <=> LevelsMatch(f, t, n)
    <2>1. ASSUME \A i \in 2..(n + 1) : q[i] \in {path[i], "+"}, NEW j \in 1..n
          PROVE  f[j] \in {t[j], "+"}
        <3>1. j + 1 \in 2..(n + 1) /\ j \in 1..Len(f) /\ j \in 1..Len(t)
            BY <1>1, <1>4
        <3>2. q[j + 1] = f[j] /\ path[j + 1] = t[j]
            BY <1>2, <3>1
        <3>3. q[j + 1] \in {path[j + 1], "+"}
            BY <2>1, <3>1
        <3> QED
            BY <3>2, <3>3
    <2>2. ASSUME \A i \in 1..n : f[i] \in {t[i], "+"}, NEW i \in 2..(n + 1)
          PROVE  q[i] \in {path[i], "+"}
        <3>1. PICK j \in 1..n : i = j + 1
            <4>1. i - 1 \in 1..n /\ i = (i - 1) + 1
                OBVIOUS
            <4> QED
                BY <4>1
        <3>2. j \in 1..Len(f) /\ j \in 1..Len(t)
            BY <1>1, <1>4
        <3>3. q[j + 1] = f[j] /\ path[j + 1] = t[j]
            BY <1>2, <3>2
        <3>4. f[j] \in {t[j], "+"}
            BY <2>2
        <3> QED
            BY <3>1, <3>3, <3>4
    <2> QED
        BY <2>1, <2>2 DEF LevelsMatch
<1>5. q[Len(q)] = f[Len(f)]
    <2>1. Len(f) \in 1..Len(f)
        BY <1>1
    <2> QED
        BY <1>2, <2>1
<1>6. CASE f[Len(f)] = "#"
    <2>1. /\ Len(q) > 1 /\ Len(q) - 1 = (Len(f) - 1) + 1 /\ 1 + 1 = 2
          /\ (Len(q) - 1 <= Len(path) <=> Len(f) - 1 <= Len(t))
        BY <1>1, <1>2
    <2>2. Fits(q, path, 1) <=>
              Len(f) - 1 <= Len(t) /\ \A i \in 2..((Len(f) - 1) + 1) : q[i] \in {path[i], "+"}
        BY <1>5, <1>6, <2>1 DEF Fits
    <2>3. Len(f) - 1 \in Nat /\ Len(f) - 1 <= Len(f)
        BY <1>1
    <2>4. Fits(q, path, 1) <=> Len(f) - 1 <= Len(t) /\ LevelsMatch(f, t, Len(f) - 1)
        BY <1>4, <2>2, <2>3
    <2>5. Fits(q, path, 1) =>
              ((f[1] \in DollarLevels <=> t[1] \in DollarLevels)
                   <=> (f[1] \in {"+", "#"} => t[1] \notin DollarLevels))
        <3>1. CASE Len(f) = 1
            BY <1>6, <3>1, DollarLevelsAssumption
        <3>2. CASE Len(f) # 1
            <4>1. 1 \in 1..(Len(f) - 1)
                <5>1. Len(f) \in Nat /\ Len(f) >= 1
                    BY <1>1
                <5>2. \A n \in Nat : n >= 1 /\ n # 1 => 1 \in 1..(n - 1)
                    OBVIOUS
                <5> QED
                    BY <3>2, <5>1, <5>2
            <4>2. LevelsMatch(f, t, Len(f) - 1) => f[1] \in {t[1], "+"}
                BY <4>1 DEF LevelsMatch
            <4>3. f[1] # "#"
                BY <4>1, FiltersAssumption
            <4>4. t[1] \notin {"+", "#"}
                BY <1>1, TopicsAssumption
            <4> QED
                BY <2>4, <4>2, <4>3, <4>4, DollarLevelsAssumption
        <3> QED
            BY <3>1, <3>2
    <2> QED
        BY <1>3, <1>6, <2>4, <2>5 DEF Matches, q, path
<1>7. CASE f[Len(f)] # "#"
    <2>1. (Len(q) = Len(path) <=> Len(f) = Len(t)) /\ 1 + 1 = 2 /\ Len(q) = Len(f) + 1
        BY <1>1, <1>2
    <2>2. Fits(q, path, 1) <=>
              Len(f) = Len(t) /\ \A i \in 2..(Len(f) + 1) : q[i] \in {path[i], "+"}
        BY <1>5, <1>7, <2>1 DEF Fits
    <2>3. Fits(q, path, 1) <=> Len(f) = Len(t) /\ LevelsMatch(f, t, Len(f))
        BY <1>1, <1>4, <2>2
    <2>4. Fits(q, path, 1) =>
              ((f[1] \in DollarLevels <=> t[1] \in DollarLevels)
                   <=> (f[1] \in {"+", "#"} => t[1] \notin DollarLevels))
        <3>1. 1 \in 1..Len(f) /\ 1 \in 1..Len(t)
            BY <1>1
        <3>2. LevelsMatch(f, t, Len(f)) => f[1] \in {t[1], "+"}
            BY <3>1 DEF LevelsMatch
        <3>3. f[1] # "#"
            BY <1>1, <1>7, FiltersAssumption
        <3>4. t[1] \notin {"+", "#"}
            BY <3>1, TopicsAssumption
        <3> QED
            BY <2>3, <3>2, <3>3, <3>4, DollarLevelsAssumption
    <2> QED
        BY <1>3, <1>7, <2>3, <2>4 DEF Matches, q, path
<1> QED
    BY <1>6, <1>7

\* The grants are what the nodes on the way hold.
LEMMA RoutingExact ==
    ASSUME SubIInv
    PROVE  RoutingIsExact
<1> SUFFICES ASSUME NEW t \in Topics, NEW sender \in SubClients \cup {Broker}
             PROVE  /\ Receivers(t, sender) =
                           {<<g.node, g.client>> : g \in {x \in GrantsFor(t, sender) : ~x.share}}
                    /\ GroupsReached(t, sender) =
                           {g.node : g \in {x \in GrantsFor(t, sender) : x.share}}
    BY DEF RoutingIsExact
<1>1. /\ SubTypeOK /\ Closed(tree) /\ Contained(tree, slot, shares, member)
      /\ Agrees(slot, member, granted) /\ GrantsAreOurs(granted)
    BY DEF SubIInv
<1>2. \A g \in granted : /\ g.node \in Paths /\ g.client \in SubClients /\ g.share \in BOOLEAN
                         /\ g.kind \in {"normal", "noLocal"}
    BY <1>1 DEF SubTypeOK
<1>3. ASSUME NEW p \in FilterPaths
      PROVE  p \in Walk(t) <=> p \in tree /\ Matches(Tail(p), t)
    <2>1. PICK f \in Filters : p = PathOf(f)
        BY DEF FilterPaths
    <2>2. Tail(p) = f
        BY <2>1, FilterLevels, PathOfFacts
    <2> QED
        BY <1>1, <2>1, <2>2, WalkReaches, WalkMatches
<1>4. ASSUME NEW p \in FilterPaths
      PROVE  p \in NodesReached(t, sender) <=>
                 p \in tree /\ MayReach(t, sender) /\ Matches(Tail(p), t)
    BY <1>3 DEF NodesReached, MayReach
<1>5. \A g \in granted : /\ g.node \in FilterPaths /\ ShareIsNormal(g)
                         /\ g.node \in tree
    <2> TAKE g \in granted
    <2>1. g.node \in FilterPaths /\ ShareIsNormal(g)
        BY <1>1 DEF GrantsAreOurs
    <2>2. CASE g.share
        <3>1. g.client \in member[g.node]
            BY <1>1, <1>2, <2>2 DEF Agrees, Shared
        <3> QED
            BY <1>1, <1>2, <2>1, <3>1 DEF Contained
    <2>3. CASE ~g.share
        <3>1. slot[g.node][g.client] = g.kind
            BY <1>1, <1>2, <2>3 DEF Agrees, Plain, Kinds
        <3> QED
            BY <1>1, <1>2, <2>1, <3>1 DEF Contained
    <2> QED
        BY <2>2, <2>3
<1>6. \A g \in granted : g \in GrantsFor(t, sender) <=>
          g.node \in NodesReached(t, sender) /\ (g.kind = "noLocal" => g.client # sender)
    BY <1>4, <1>5 DEF GrantsFor
<1>7. GrantsFor(t, sender) \subseteq granted /\ NodesReached(t, sender) \subseteq tree /\ tree \subseteq Paths
    BY <1>1, WalkReaches DEF GrantsFor, NodesReached, Closed
<1>8. ASSUME NEW p \in NodesReached(t, sender), NEW c \in SubClients
      PROVE  slot[p][c] \in (IF c = sender THEN {"normal"} ELSE {"normal", "noLocal"}) <=>
                 \E g \in GrantsFor(t, sender) : ~g.share /\ g.node = p /\ g.client = c
    <2>1. \A k \in Kinds : slot[p][c] = k <=> Plain(p, c, k, granted)
        BY <1>1, <1>7 DEF Agrees
    <2>2. (\E g \in GrantsFor(t, sender) : ~g.share /\ g.node = p /\ g.client = c) <=>
              \E k \in Kinds : Plain(p, c, k, granted) /\ (k = "noLocal" => c # sender)
        BY <1>2, <1>6, <1>7 DEF Plain, Kinds
    <2>3. slot[p][c] \in (IF c = sender THEN {"normal"} ELSE {"normal", "noLocal"}) <=>
              \E k \in Kinds : slot[p][c] = k /\ (k = "noLocal" => c # sender)
        BY DEF Kinds
    <2> QED
        BY <2>1, <2>2, <2>3
<1>9. Receivers(t, sender) = {<<g.node, g.client>> : g \in {x \in GrantsFor(t, sender) : ~x.share}}
    <2>1. ASSUME NEW pc \in Receivers(t, sender)
          PROVE  \E g \in GrantsFor(t, sender) : ~g.share /\ pc = <<g.node, g.client>>
        <3>1. PICK p \in NodesReached(t, sender), c \in SubClients : pc = <<p, c>>
            BY DEF Receivers
        <3>2. slot[p][c] \in (IF c = sender THEN {"normal"} ELSE {"normal", "noLocal"})
            BY <2>1, <3>1 DEF Receivers
        <3> QED
            BY <1>8, <3>1, <3>2
    <2>2. ASSUME NEW g \in GrantsFor(t, sender), ~g.share
          PROVE  <<g.node, g.client>> \in Receivers(t, sender)
        <3>1. g.node \in NodesReached(t, sender) /\ g.client \in SubClients
            BY <1>2, <1>6, <1>7
        <3>2. slot[g.node][g.client] \in
                  (IF g.client = sender THEN {"normal"} ELSE {"normal", "noLocal"})
            BY <1>8, <2>2, <3>1
        <3> QED
            BY <3>1, <3>2 DEF Receivers
    <2> QED
        BY <2>1, <2>2
<1>10. GroupsReached(t, sender) = {g.node : g \in {x \in GrantsFor(t, sender) : x.share}}
    <2>1. ASSUME NEW p \in GroupsReached(t, sender)
          PROVE  \E g \in GrantsFor(t, sender) : g.share /\ p = g.node
        <3>1. p \in NodesReached(t, sender) /\ p \in Paths /\ member[p] # {}
            BY <1>7 DEF GroupsReached
        <3>2. PICK c \in SubClients : c \in member[p]
            BY <1>1, <3>1 DEF SubTypeOK
        <3>3. PICK g \in granted : g.node = p /\ g.client = c /\ g.share
            BY <1>1, <3>1, <3>2 DEF Agrees, Shared
        <3> QED
            BY <1>5, <1>6, <3>1, <3>3 DEF ShareIsNormal
    <2>2. ASSUME NEW g \in GrantsFor(t, sender), g.share
          PROVE  g.node \in GroupsReached(t, sender)
        <3>1. g \in granted /\ g.node \in NodesReached(t, sender) /\ g.node \in Paths
            BY <1>2, <1>6, <1>7
        <3>2. g.client \in member[g.node]
            BY <1>1, <1>2, <2>2, <3>1 DEF Agrees, Shared
        <3>3. g.node \in shares
            BY <1>1, <3>1, <3>2 DEF Contained
        <3> QED
            BY <3>1, <3>2, <3>3 DEF GroupsReached
    <2> QED
        BY <2>1, <2>2
<1> QED
    BY <1>9, <1>10

-----------------------------------------------------------------------------
-----------------------------------------------------------------------------
(* The theorems about the tree                                               *)

LEMMA OneThreadNeverCuts ==
    ASSUME SubThreads = FALSE
    PROVE  SubSpec => []NoWalkerIsCut /\ []SubIInv
<1>1. SubInit => SubIInv /\ NoWalkerIsCut
    BY SubInitKeeps DEF SubInit, NoWalkerIsCut
<1>2. SubIInv /\ NoWalkerIsCut /\ [SubNext]_subVars => SubIInv' /\ NoWalkerIsCut'
    BY SubNextKeeps, OneThreadCutsNobody DEF SubIInv
<1> QED
    BY <1>1, <1>2, PTL DEF SubSpec

(* With any number of threads, all that can go wrong with the routing and the *)
(* tree is that a purge takes out a node between getDeepestNode and           *)
(* addSubscriber or removeSubscriber (subscriptionstore.cpp:141, 59, 1139).   *)
THEOREM UncutWalkersSuffice ==
    SubSpec /\ []NoWalkerIsCut => [](RoutingIsExact /\ TreeIsSound)
<1>1. SubInit => SubIInv
    BY SubInitKeeps
<1>2. SubIInv /\ NoWalkerIsCut /\ [SubNext]_subVars => SubIInv'
    BY SubNextKeeps
<1>3. SubIInv /\ NoWalkerIsCut => RoutingIsExact /\ TreeIsSound
    BY RoutingExact, TreeSound
<1> QED
    BY <1>1, <1>2, <1>3, PTL DEF SubSpec

(* With one worker thread a publish goes to the subscriptions that were        *)
(* granted and match, each once, and to no other, for any clients, filters,   *)
(* topics, purges and ends of sessions (subscriptionstore.cpp:507, 606, 655). *)
THEOREM RoutingStaysExact ==
    ASSUME SubThreads = FALSE
    PROVE  SubSpec => []RoutingIsExact
<1>1. SubIInv => RoutingIsExact
    BY RoutingExact
<1> QED
    BY <1>1, OneThreadNeverCuts, PTL

(* With one worker thread "new subscription" is said of new subscriptions      *)
(* only, the leafs that a purge put off stay in the tree until their turn,    *)
(* and no node with subscribers is cut off (subscriptionstore.cpp:59, 1139,   *)
(* 1341).                                                                     *)
THEOREM TreeStaysSound ==
    ASSUME SubThreads = FALSE
    PROVE  SubSpec => []TreeIsSound
<1>1. SubIInv /\ NoWalkerIsCut => TreeIsSound
    BY TreeSound
<1> QED
    BY <1>1, OneThreadNeverCuts, PTL

-----------------------------------------------------------------------------
(* The round of the counter                                                  *)

\* The position before the k-th one back, and the next one, in a round of n.
Back(pos, k, n) == IF k <= pos THEN pos - k ELSE pos - k + n
NextPos(pos, n) == IF pos = n - 1 THEN 0 ELSE pos + 1

LEMMA Division ==
    ASSUME NEW a \in Int, NEW n \in Nat \ {0}
    PROVE  /\ a % n \in 0..(n - 1) /\ a \div n \in Int
           /\ a = n * (a \div n) + (a % n)
BY SMT

LEMMA DivisionIsUnique ==
    ASSUME NEW a \in Int, NEW n \in Nat \ {0}, NEW q \in Int, NEW r \in 0..(n - 1),
           a = n * q + r
    PROVE  a % n = r
<1>1. /\ a % n \in 0..(n - 1) /\ a \div n \in Int
      /\ a = n * (a \div n) + (a % n)
    BY Division
<1> DEFINE d == q - (a \div n)
<1>2. d \in Int /\ n * d = (a % n) - r
    BY <1>1, SMT
<1>3. d = 0
    <2>1. ~(d >= 1)
        <3>1. \A x \in Int : x >= 1 => n * x >= n
            BY SMT
        <3> QED
            BY <1>1, <1>2, <3>1
    <2>2. ~(d <= -1)
        <3>1. \A x \in Int : x <= -1 => n * x <= -n
            BY SMT
        <3> QED
            BY <1>1, <1>2, <3>1
    <2> QED
        BY <1>2, <2>1, <2>2
<1> QED
    BY <1>1, <1>2, <1>3, SMT

LEMMA OneFurther ==
    ASSUME NEW a \in Int, NEW n \in Nat \ {0}, NEW q \in Int
    PROVE  /\ a % n \in 0..(n - 1)
           /\ (a + n * q + 1) % n = NextPos(a % n, n)
           /\ (a + n * q) % n = a % n
<1>1. /\ a % n \in 0..(n - 1) /\ a \div n \in Int
      /\ a = n * (a \div n) + (a % n)
    BY Division
<1> DEFINE d == a \div n
           r == a % n
<1>2. d \in Int /\ r \in 0..(n - 1) /\ a = n * d + r
    BY <1>1
<1> HIDE DEF d, r
<1>3. a + n * q = n * (d + q) + r /\ d + q \in Int /\ a + n * q \in Int /\ n * q \in Int
    BY <1>2, SMT
<1>4. (a + n * q) % n = r
    BY <1>2, <1>3, DivisionIsUnique
<1>5. (a + n * q + 1) % n = NextPos(r, n)
    <2>1. CASE r = n - 1
        <3>1. n * (d + q + 1) = n * (d + q) + n
            BY <1>2, SMT
        <3>2. a + n * q + 1 = n * (d + q + 1) + 0
            BY <1>2, <1>3, <2>1, <3>1
        <3>3. 0 \in 0..(n - 1) /\ d + q + 1 \in Int /\ a + n * q + 1 \in Int
            BY <1>2, <1>3
        <3>4. (a + n * q + 1) % n = 0
            BY <3>2, <3>3, DivisionIsUnique
        <3> QED
            BY <2>1, <3>4 DEF NextPos
    <2>2. CASE r # n - 1
        <3>1. a + n * q + 1 = n * (d + q) + (r + 1)
            BY <1>2, <1>3
        <3>2. r + 1 \in 0..(n - 1) /\ a + n * q + 1 \in Int
            BY <1>2, <1>3, <2>2
        <3>3. (a + n * q + 1) % n = r + 1
            BY <1>3, <3>1, <3>2, DivisionIsUnique
        <3> QED
            BY <2>2, <3>3 DEF NextPos
    <2> QED
        BY <2>1, <2>2
<1> QED
    BY <1>2, <1>4, <1>5 DEF r

\* The bits of the counter: the number of its values, of which size_t has the square.
Round == 2 * (CounterMax + 1)

LEMMA CounterMoves ==
    ASSUME NEW c \in CounterValues, NEW n \in Nat \ {0},
           (c >= 0 /\ Increment(c) >= 0) \/ Round % n = 0
    PROVE  /\ ToSize(c) % n \in 0..(n - 1) /\ Increment(c) \in CounterValues
           /\ ToSize(Increment(c)) % n = NextPos(ToSize(c) % n, n)
<1>1. CounterMax \in Nat /\ c \in Int /\ c >= -CounterMax - 1 /\ c <= CounterMax
    BY CounterMaxAssumption DEF CounterValues
<1>2. SizeValues = Round * Round /\ Round = 2 * CounterMax + 2 /\ Round \in Nat
    BY <1>1, SMT DEF SizeValues, Round
<1>3. SizeValues \in Int
    BY <1>2, SMT
<1>4. Increment(c) \in CounterValues
    BY <1>1 DEF Increment, CounterValues
<1>5. ToSize(c) \in Int /\ ToSize(c) % n \in 0..(n - 1)
    <2>1. ToSize(c) \in Int
        BY <1>1, <1>3 DEF ToSize
    <2> QED
        BY <2>1, OneFurther, 0 \in Int
<1>6. PICK q \in Int : ToSize(Increment(c)) = ToSize(c) + n * q + 1
    <2>1. CASE c # CounterMax /\ c # -1
        <3>1. ToSize(Increment(c)) = ToSize(c) + 1
            BY <1>1, <1>3, <2>1 DEF ToSize, Increment
        <3>2. n * 0 = 0
            BY SMT
        <3>3. ToSize(Increment(c)) = ToSize(c) + n * 0 + 1
            BY <1>5, <3>1, <3>2
        <3> QED
            BY <3>3, 0 \in Int
    <2>2. CASE c = CounterMax \/ c = -1
        <3>1. Round % n = 0
            BY <1>1, <2>2 DEF Increment
        <3> DEFINE m == Round \div n
        <3>2. m \in Int /\ Round = n * m
            <4>0. Round \in Int
                BY <1>2
            <4>1. m \in Int /\ Round = n * m + (Round % n)
                BY <4>0, Division
            <4>2. n * m \in Int
                BY <4>1, SMT
            <4> QED
                BY <3>1, <4>1, <4>2
        <3> HIDE DEF m
        <3>3. CASE c = -1
            <4>1. Increment(c) = 0
                BY <1>1, <3>3 DEF Increment
            <4>2. ToSize(Increment(c)) = 0 /\ ToSize(c) = SizeValues - 1
                BY <1>1, <1>3, <3>3, <4>1 DEF ToSize
            <4>3. -(m * Round) \in Int /\ n * (-(m * Round)) = -SizeValues
                <5>1. SizeValues = n * m * Round
                    BY <1>2, <3>2
                <5> QED
                    BY <1>2, <3>2, <5>1, SMT
            <4>4. ToSize(Increment(c)) = ToSize(c) + n * (-(m * Round)) + 1
                BY <1>3, <4>2, <4>3
            <4> QED
                BY <4>3, <4>4
        <3>4. CASE c = CounterMax
            <4>1. Increment(c) = -CounterMax - 1
                BY <1>1, <3>4 DEF Increment
            <4>2. ToSize(Increment(c)) = SizeValues - CounterMax - 1 /\ ToSize(c) = CounterMax
                BY <1>1, <1>3, <3>4, <4>1 DEF ToSize
            <4>3. m * (Round - 1) \in Int /\ n * (m * (Round - 1)) = SizeValues - Round
                <5>1. n * (m * (Round - 1)) = (n * m) * (Round - 1)
                    BY <1>2, <3>2, SMT
                <5>2. (n * m) * (Round - 1) = Round * (Round - 1)
                    BY <3>2
                <5>3. Round * (Round - 1) = Round * Round - Round
                    BY <1>2, SMT
                <5> QED
                    BY <1>2, <3>2, <5>1, <5>2, <5>3, SMT
            <4>4. ToSize(Increment(c)) = ToSize(c) + n * (m * (Round - 1)) + 1
                BY <1>1, <1>2, <1>3, <4>2, <4>3
            <4> QED
                BY <4>3, <4>4
        <3> QED
            BY <2>2, <3>3, <3>4
    <2> QED
        BY <2>1, <2>2
<1>7. ToSize(Increment(c)) % n = NextPos(ToSize(c) % n, n)
    <2>1. (ToSize(c) + n * q + 1) % n = NextPos(ToSize(c) % n, n)
        BY <1>5, OneFurther
    <2> QED
        BY <1>6, <2>1
<1> QED
    BY <1>4, <1>5, <1>7

\* The i positions that a walk looked at, the last one before pos, have nobody.
Checked(m, pos, i) == \A k \in 1..i : m[1 + Back(pos, k, Len(m))] \in Gone

LEMMA CheckedOneMore ==
    ASSUME NEW S, NEW m \in Seq(S), NEW pos \in 0..(Len(m) - 1), NEW i \in 0..(Len(m) - 1),
           Checked(m, pos, i), m[1 + pos] \in Gone
    PROVE  Checked(m, NextPos(pos, Len(m)), i + 1)
<1> DEFINE n == Len(m)
           next == NextPos(pos, n)
<1>1. n \in Nat
    OBVIOUS
<1>2. ASSUME NEW k \in 1..(i + 1)
      PROVE  m[1 + Back(next, k, n)] \in Gone
    <2>1. CASE k = 1
        <3>1. Back(next, k, n) = pos
            BY <1>1, <2>1 DEF Back, NextPos
        <3> QED
            BY <3>1
    <2>2. CASE k # 1
        <3>1. k - 1 \in 1..i /\ Back(next, k, n) = Back(pos, k - 1, n)
            BY <1>1, <2>2 DEF Back, NextPos
        <3> QED
            BY <3>1 DEF Checked
    <2> QED
        BY <2>1, <2>2
<1> QED
    BY <1>2 DEF Checked

LEMMA AllChecked ==
    ASSUME NEW S, NEW m \in Seq(S), NEW pos \in 0..(Len(m) - 1), Checked(m, pos, Len(m))
    PROVE  \A p \in 1..Len(m) : m[p] \in Gone
<1> SUFFICES ASSUME NEW p \in 1..Len(m)
             PROVE  m[p] \in Gone
    OBVIOUS
<1> DEFINE n == Len(m)
           k == IF p <= pos THEN pos - p + 1 ELSE pos - p + 1 + n
<1>1. n \in Nat
    OBVIOUS
<1>2. k \in 1..n /\ 1 + Back(pos, k, n) = p
    BY <1>1 DEF Back
<1> QED
    BY <1>2 DEF Checked
-----------------------------------------------------------------------------
(* The group                                                                 *)

Entries == Members \cup Gone

LEMMA GroupTypes ==
    ASSUME ShareTypeOK
    PROVE  /\ members \in Seq(Entries) /\ Len(members) \in 0..MaxMembers
           /\ LiveMembers \subseteq Members
<1>1. PICK n \in 0..MaxMembers : members \in [1..n -> Entries]
    BY DEF ShareTypeOK, Entries
<1>2. n \in Nat
    BY <1>1
<1>3. members \in Seq(Entries) /\ Len(members) = n
    BY <1>1, <1>2, MaxMembersAssumption
<1> QED
    BY <1>1, <1>3 DEF LiveMembers, Entries

LEMMA NewGroupTypes ==
    ASSUME NEW m, m \in Seq(Entries), Len(m) <= MaxMembers
    PROVE  m \in UNION {[1..n -> Members \cup Gone] : n \in 0..MaxMembers}
<1>1. Len(m) \in 0..MaxMembers /\ m \in [1..Len(m) -> Entries]
    BY MaxMembersAssumption
<1> QED
    BY <1>1 DEF Entries

Served ==
    \A t \in ShareThreads : walker[t] # Idle =>
        /\ walker[t].served \subseteq LiveMembers
        /\ walker[t].i <= Len(members)
        /\ walker[t].at = "write" => walker[t].i < Len(members)

\* The inductive invariant for any number of threads.
GroupIInv == ShareTypeOK /\ IndexIsRight /\ OneEntryPerMember /\ Served

LEMMA IndexTypes ==
    ASSUME ShareTypeOK, IndexIsRight
    PROVE  \A ci \in index : /\ ci = <<ci[1], ci[2]>> /\ ci[1] \in Members
                             /\ ci[2] \in 1..MaxMembers /\ ci[2] \in 1..Len(members)
                             /\ members[ci[2]] \in {ci[1]} \cup Gone
<1> TAKE ci \in index
<1>1. ci \in Members \X (1..MaxMembers)
    BY DEF ShareTypeOK
<1>2. PICK c \in Members, i \in 1..MaxMembers : ci = <<c, i>>
    BY <1>1
<1>3. ci[2] <= Len(members) /\ members[ci[2]] \in {ci[1]} \cup Gone
    BY DEF IndexIsRight
<1>4. Len(members) \in Nat
    BY GroupTypes
<1>5. ci[2] \in 1..Len(members)
    BY <1>2, <1>3, <1>4
<1> QED
    BY <1>2, <1>3, <1>5

LEMMA IndexOfMember ==
    ASSUME GroupIInv, NEW i \in 1..Len(members), LiveAt(i)
    PROVE  <<members[i], i>> \in index /\ members[i] \in Members
<1>1. PICK c \in Members : <<c, i>> \in index
    BY DEF GroupIInv, IndexIsRight
<1>2. members[i] \in {c} \cup Gone
    BY <1>1 DEF GroupIInv, IndexIsRight
<1> QED
    BY <1>1, <1>2 DEF LiveAt

LEMMA SubscribeSharedKeeps ==
    ASSUME GroupIInv, NEW c \in Members, SubscribeShared(c)
    PROVE  GroupIInv'
<1>0. /\ ShareTypeOK /\ IndexIsRight /\ OneEntryPerMember
      /\ members \in Seq(Entries) /\ Len(members) \in 0..MaxMembers /\ Len(members) \in Nat
      /\ roundRobinCounter' = roundRobinCounter /\ walker' = walker /\ outcome' = outcome
      /\ c \notin Gone /\ c \in Entries
    BY GroupTypes, MembersAssumption DEF GroupIInv, SubscribeShared, Entries, Gone
<1>1. Served'
    BY <1>0 DEF SubscribeShared, NobodyWalks, Served
<1>2. ASSUME NEW i \in 1..Len(members), <<c, i>> \in index,
             members' = [members EXCEPT ![i] = c], index' = index
      PROVE  GroupIInv'
    <2>1. /\ members' \in Seq(Entries) /\ Len(members') = Len(members)
          /\ \A j \in 1..Len(members) : members'[j] = IF j = i THEN c ELSE members[j]
        BY <1>0, <1>2
    <2>2. ShareTypeOK'
        BY <1>0, <1>2, <2>1, NewGroupTypes DEF ShareTypeOK
    <2>3. \A ci \in index : ci[2] \in 1..Len(members) /\ ci[2] = i => ci[1] = c
        <3> TAKE ci \in index
        <3>1. ci[2] = <<c, i>>[2] => ci = <<c, i>>
            BY <1>0, <1>2 DEF IndexIsRight
        <3> QED
            BY <3>1
    <2>4. IndexIsRight'
        <3>1. \A ci \in index : ci[2] \in 1..Len(members)
            BY <1>0, IndexTypes
        <3> QED
            BY <1>0, <1>2, <2>1, <2>3, <3>1 DEF IndexIsRight
    <2>5. ASSUME NEW j \in 1..Len(members), members[j] = c
          PROVE  j = i
        <3>1. <<c, j>> \in index
            BY <1>0, <2>5, IndexOfMember DEF LiveAt
        <3>2. <<c, j>> = <<c, i>>
            BY <1>0, <1>2, <3>1 DEF IndexIsRight
        <3> QED
            BY <3>2
    <2>6. OneEntryPerMember'
        BY <1>0, <2>1, <2>5 DEF OneEntryPerMember, LiveAt
    <2> QED
        BY <1>1, <2>2, <2>4, <2>6 DEF GroupIInv
<1>3. ASSUME \A i \in 1..Len(members) : <<c, i>> \notin index, Len(members) < MaxMembers,
             members' = Append(members, c), index' = index \cup {<<c, Len(members) + 1>>}
      PROVE  GroupIInv'
    <2> DEFINE n == Len(members)
    <2>1. /\ members' \in Seq(Entries) /\ Len(members') = n + 1
          /\ \A j \in 1..(n + 1) : members'[j] = IF j = n + 1 THEN c ELSE members[j]
        BY <1>0, <1>3
    <2>2. ShareTypeOK'
        <3>1. n + 1 <= MaxMembers /\ n + 1 \in 1..MaxMembers
            BY <1>0, <1>3, MaxMembersAssumption
        <3>2. index' \subseteq Members \X (1..MaxMembers)
            <4>1. <<c, n + 1>> \in Members \X (1..MaxMembers)
                BY <3>1
            <4>2. index \subseteq Members \X (1..MaxMembers)
                BY <1>0 DEF ShareTypeOK
            <4> QED
                BY <1>3, <4>1, <4>2
        <3>3. members' \in UNION {[1..k -> Members \cup Gone] : k \in 0..MaxMembers}
            BY <2>1, <3>1, NewGroupTypes
        <3> QED
            BY <1>0, <3>2, <3>3 DEF ShareTypeOK
    <2>3. \A ci \in index : ci[2] \in 1..n /\ ci[1] \in Members /\ ci = <<ci[1], ci[2]>>
        BY <1>0, IndexTypes
    <2>4. \A ci \in index : ci[2] # n + 1 /\ ci[1] # c
        BY <1>0, <1>3, <2>3
    <2>5. IndexIsRight'
        <3>1. \A ci \in index' : ci[2] <= Len(members') /\ members'[ci[2]] \in {ci[1]} \cup Gone
            <4> TAKE ci \in index'
            <4>1. CASE ci \in index
                <5>1. ci[2] \in 1..n /\ members[ci[2]] \in {ci[1]} \cup Gone
                    BY <1>0, <2>3, <4>1 DEF IndexIsRight
                <5> QED
                    BY <1>0, <2>1, <5>1
            <4>2. CASE ci = <<c, n + 1>>
                BY <1>0, <2>1, <4>2
            <4> QED
                BY <1>3, <4>1, <4>2
        <3>2. \A a, b \in index' : (a[1] = b[1] \/ a[2] = b[2]) => a = b
            <4>1. \A a, b \in index : (a[1] = b[1] \/ a[2] = b[2]) => a = b
                BY <1>0 DEF IndexIsRight
            <4> QED
                BY <1>3, <2>4, <4>1
        <3>3. \A i \in 1..Len(members') : \E d \in Members : <<d, i>> \in index'
            <4> TAKE i \in 1..Len(members')
            <4>1. CASE i = n + 1
                BY <1>3, <4>1
            <4>2. CASE i # n + 1
                <5>1. i \in 1..n
                    BY <1>0, <2>1, <4>2
                <5> QED
                    BY <1>0, <1>3, <5>1 DEF IndexIsRight
            <4> QED
                BY <4>1, <4>2
        <3> QED
            BY <3>1, <3>2, <3>3 DEF IndexIsRight
    <2>6. \A j \in 1..n : members[j] # c
        <3> SUFFICES ASSUME NEW j \in 1..n, members[j] = c
                     PROVE  FALSE
            OBVIOUS
        <3>1. <<c, j>> \in index
            BY <1>0, IndexOfMember DEF LiveAt
        <3> QED
            BY <1>3, <3>1
    <2>7. OneEntryPerMember'
        BY <1>0, <2>1, <2>6 DEF OneEntryPerMember, LiveAt
    <2> QED
        BY <1>1, <2>2, <2>5, <2>7 DEF GroupIInv
<1> QED
    BY <1>2, <1>3 DEF SubscribeShared

\* An entry that becomes one of nobody changes nothing for the others.
LEMMA EntryGone ==
    ASSUME GroupIInv, NEW i \in 1..Len(members), NEW e \in Gone,
           members' = [members EXCEPT ![i] = e], index' = index,
           roundRobinCounter' = roundRobinCounter, outcome' = outcome
    PROVE  /\ members' \in Seq(Entries) /\ Len(members') = Len(members)
           /\ \A j \in 1..Len(members) : members'[j] = IF j = i THEN e ELSE members[j]
           /\ members' \in UNION {[1..n -> Members \cup Gone] : n \in 0..MaxMembers}
           /\ IndexIsRight' /\ OneEntryPerMember'
           /\ LiveMembers' = LiveMembers \ {members[i]}
<1>0. /\ ShareTypeOK /\ IndexIsRight /\ OneEntryPerMember
      /\ members \in Seq(Entries) /\ Len(members) \in 0..MaxMembers /\ Len(members) \in Nat
      /\ e \in Entries
    BY GroupTypes DEF GroupIInv, Entries
<1>1. /\ members' \in Seq(Entries) /\ Len(members') = Len(members)
      /\ \A j \in 1..Len(members) : members'[j] = IF j = i THEN e ELSE members[j]
    BY <1>0
<1>2. members' \in UNION {[1..n -> Members \cup Gone] : n \in 0..MaxMembers}
    BY <1>0, <1>1, NewGroupTypes
<1>3. IndexIsRight'
    <2>1. \A ci \in index : ci[2] \in 1..Len(members)
        BY <1>0, IndexTypes
    <2> QED
        BY <1>0, <1>1, <2>1 DEF IndexIsRight
<1>4. OneEntryPerMember'
    BY <1>0, <1>1 DEF OneEntryPerMember, LiveAt
<1>5. LiveMembers' = LiveMembers \ {members[i]}
    <2>1. ASSUME NEW x \in LiveMembers'
          PROVE  x \in LiveMembers \ {members[i]}
        <3>1. PICK j \in 1..Len(members) : x = members'[j] /\ x \notin Gone
            BY <1>1 DEF LiveMembers
        <3>2. j # i /\ x = members[j]
            BY <1>1, <3>1
        <3>3. x # members[i]
            BY <1>0, <3>1, <3>2 DEF OneEntryPerMember, LiveAt
        <3> QED
            BY <3>1, <3>2, <3>3 DEF LiveMembers
    <2>2. ASSUME NEW x \in LiveMembers, x # members[i]
          PROVE  x \in LiveMembers'
        <3>1. PICK j \in 1..Len(members) : x = members[j] /\ x \notin Gone
            BY DEF LiveMembers
        <3>2. x = members'[j]
            BY <1>1, <2>2, <3>1
        <3> QED
            BY <1>1, <3>1, <3>2 DEF LiveMembers
    <2> QED
        BY <2>1, <2>2
<1> QED
    BY <1>1, <1>2, <1>3, <1>4, <1>5

LEMMA EraseMemberKeeps ==
    ASSUME GroupIInv, NEW c \in Members, EraseMember(c)
    PROVE  GroupIInv'
<1>1. PICK i \in 1..Len(members) :
          <<c, i>> \in index /\ members' = [members EXCEPT ![i] = "reset"]
    BY DEF EraseMember
<1>2. /\ index' = index /\ roundRobinCounter' = roundRobinCounter /\ walker' = walker
      /\ outcome' = outcome /\ \A t \in ShareThreads : walker[t] = Idle
    BY DEF EraseMember, NobodyWalks
<1>3. "reset" \in Gone
    BY DEF Gone
<1>4. /\ members' \in UNION {[1..n -> Members \cup Gone] : n \in 0..MaxMembers}
      /\ IndexIsRight' /\ OneEntryPerMember'
    BY <1>1, <1>2, <1>3, EntryGone
<1> QED
    BY <1>2, <1>4 DEF GroupIInv, ShareTypeOK, Served

LEMMA WalkerTypes ==
    ASSUME ShareTypeOK, NEW t \in ShareThreads, walker[t] # Idle
    PROVE  walker[t] \in [at : {"read", "write"}, i : 0..MaxMembers, counter : CounterValues,
                          served : SUBSET Members]
BY DEF ShareTypeOK, Walkers

LEMMA MemberSessionEndsKeeps ==
    ASSUME GroupIInv, NEW c \in Members, MemberSessionEnds(c)
    PROVE  /\ GroupIInv'
           /\ members' \in Seq(Entries) /\ Len(members') = Len(members)
           /\ \A j \in 1..Len(members) : members[j] \in Gone => members'[j] \in Gone
           /\ \A t \in ShareThreads :
                  /\ walker'[t] = Idle <=> walker[t] = Idle
                  /\ walker[t] # Idle => /\ walker'[t].at = walker[t].at
                                         /\ walker'[t].i = walker[t].i
                                         /\ walker'[t].counter = walker[t].counter
<1>1. PICK i \in 1..Len(members) :
          members[i] = c /\ members' = [members EXCEPT ![i] = "expired"]
    BY DEF MemberSessionEnds
<1>2. /\ index' = index /\ roundRobinCounter' = roundRobinCounter /\ outcome' = outcome
      /\ walker' = [t \in ShareThreads |->
                       IF walker[t] = Idle THEN Idle
                       ELSE [walker[t] EXCEPT !.served = @ \ {c}]]
    BY DEF MemberSessionEnds
<1>3. "expired" \in Gone
    BY DEF Gone
<1>4. /\ members' \in UNION {[1..n -> Members \cup Gone] : n \in 0..MaxMembers}
      /\ members' \in Seq(Entries) /\ Len(members') = Len(members)
      /\ \A j \in 1..Len(members) : members'[j] = IF j = i THEN "expired" ELSE members[j]
      /\ IndexIsRight' /\ OneEntryPerMember' /\ LiveMembers' = LiveMembers \ {c}
    BY <1>1, <1>2, <1>3, EntryGone
<1>5. ASSUME NEW t \in ShareThreads
      PROVE  /\ walker'[t] \in Walkers
             /\ walker'[t] = Idle <=> walker[t] = Idle
             /\ walker[t] # Idle => /\ walker'[t].at = walker[t].at
                                    /\ walker'[t].i = walker[t].i
                                    /\ walker'[t].counter = walker[t].counter
                                    /\ walker'[t].served = walker[t].served \ {c}
    <2>1. CASE walker[t] = Idle
        <3>1. walker'[t] = Idle
            BY <1>2, <2>1
        <3> QED
            BY <2>1, <3>1 DEF Walkers
    <2>2. CASE walker[t] # Idle
        <3>1. walker'[t] = [walker[t] EXCEPT !.served = @ \ {c}]
            BY <1>2, <2>2
        <3>2. walker[t] \in [at : {"read", "write"}, i : 0..MaxMembers, counter : CounterValues,
                             served : SUBSET Members]
            BY <2>2, WalkerTypes DEF GroupIInv
        <3>3. /\ walker'[t] \in [at : {"read", "write"}, i : 0..MaxMembers,
                                 counter : CounterValues, served : SUBSET Members]
              /\ walker'[t].at = walker[t].at /\ walker'[t].i = walker[t].i
              /\ walker'[t].counter = walker[t].counter
              /\ walker'[t].served = walker[t].served \ {c}
            BY <3>1, <3>2
        <3>4. walker'[t] # Idle
            BY <3>3 DEF Idle
        <3> QED
            BY <2>2, <3>3, <3>4 DEF Walkers
    <2> QED
        BY <2>1, <2>2
<1>6. ShareTypeOK'
    <2>1. walker' \in [ShareThreads -> Walkers]
        BY <1>2, <1>5
    <2> QED
        BY <1>2, <1>4, <2>1 DEF GroupIInv, ShareTypeOK
<1>7. Served'
    BY <1>4, <1>5 DEF GroupIInv, Served
<1> QED
    BY <1>4, <1>5, <1>6, <1>7, <1>3 DEF GroupIInv

LEMMA IndexIsFinite ==
    ASSUME GroupIInv, NEW S, S \subseteq index
    PROVE  IsFiniteSet(S) /\ Cardinality(S) \in Nat /\ Cardinality(S) <= MaxMembers
<1> DEFINE n == Len(members)
           f == [ci \in S |-> ci[2]]
<1>1. n \in Nat /\ n <= MaxMembers
    BY GroupTypes DEF GroupIInv
<1>2. \A ci \in S : ci[2] \in 1..n
    BY IndexTypes DEF GroupIInv
<1>3. \A a, b \in S : a[2] = b[2] => a = b
    BY DEF GroupIInv, IndexIsRight
<1>4. f \in Injection(S, 1..n)
    BY <1>2, <1>3 DEF Injection, IsInjective
<1>5. IsFiniteSet(1..n) /\ Cardinality(1..n) = n
    <2>1. n \in Int /\ 1 \in Int
        BY <1>1
    <2>2. IsFiniteSet(1..n) /\ Cardinality(1..n) = IF 1 > n THEN 0 ELSE n - 1 + 1
        BY <2>1, FS_Interval
    <2> QED
        BY <1>1, <2>2
<1>6. IsFiniteSet(S) /\ Cardinality(S) <= n
    BY <1>4, <1>5, FS_Injection
<1>7. Cardinality(S) \in Nat
    BY <1>6, FS_CardinalityType
<1> QED
    BY <1>1, <1>6, <1>7, MaxMembersAssumption

LEMMA purgeAndReIndexKeeps ==
    ASSUME GroupIInv, purgeAndReIndex
    PROVE  GroupIInv'
<1>0. /\ ShareTypeOK /\ IndexIsRight
      /\ roundRobinCounter' = roundRobinCounter /\ walker' = walker /\ outcome' = outcome
      /\ \A t \in ShareThreads : walker[t] = Idle
    BY DEF GroupIInv, purgeAndReIndex, NobodyWalks
<1> DEFINE S == {ci \in index : LiveAt(ci[2])}
<1>1. PICK order \in SetToSeqs(S) :
          /\ members' = [i \in 1..Len(order) |-> members[order[i][2]]]
          /\ index' = {<<order[i][1], i>> : i \in 1..Len(order)}
    BY DEF purgeAndReIndex
<1> DEFINE n == Cardinality(S)
<1>2. n \in Nat /\ n <= MaxMembers
    BY IndexIsFinite
<1>3. /\ order \in [1..n -> S]
      /\ \A i, j \in 1..n : i # j => order[i] # order[j]
    BY DEF SetToSeqs
<1>4. \A ci \in S : /\ ci \in index /\ ci[1] \in Members /\ ci[2] \in 1..Len(members)
                    /\ members[ci[2]] = ci[1]
    BY <1>0, IndexTypes DEF LiveAt
<1> HIDE DEF n, S
<1>5. Len(order) = n
    BY <1>2, <1>3
<1>6. \A i \in 1..n : /\ order[i] \in index /\ order[i][1] \in Members
                      /\ members[order[i][2]] = order[i][1]
    BY <1>3, <1>4
<1>7. members' = [i \in 1..n |-> order[i][1]]
    BY <1>1, <1>5, <1>6
<1>8. \A i, j \in 1..n : order[i][1] = order[j][1] => i = j
    BY <1>0, <1>3, <1>6 DEF IndexIsRight
<1>9. /\ members' \in Seq(Entries) /\ Len(members') = n
      /\ \A i \in 1..n : members'[i] = order[i][1]
    BY <1>2, <1>6, <1>7 DEF Entries
<1>10. index' \subseteq Members \X (1..MaxMembers)
    <2>1. ASSUME NEW i \in 1..n
          PROVE  <<order[i][1], i>> \in Members \X (1..MaxMembers)
        BY <1>2, <1>6, MaxMembersAssumption
    <2> QED
        BY <1>1, <1>5, <2>1
<1>11. ShareTypeOK'
    <2>1. members' \in UNION {[1..k -> Members \cup Gone] : k \in 0..MaxMembers}
        BY <1>2, <1>9, NewGroupTypes
    <2> QED
        BY <1>0, <1>10, <2>1 DEF ShareTypeOK
<1>12. IndexIsRight'
    <2>1. \A ci \in index' : ci[2] <= Len(members') /\ members'[ci[2]] \in {ci[1]} \cup Gone
        BY <1>1, <1>2, <1>5, <1>9
    <2>2. \A a, b \in index' : (a[1] = b[1] \/ a[2] = b[2]) => a = b
        <3> SUFFICES ASSUME NEW i \in 1..n, NEW j \in 1..n, order[i][1] = order[j][1] \/ i = j
                     PROVE  <<order[i][1], i>> = <<order[j][1], j>>
            BY <1>1, <1>5
        <3> QED
            BY <1>8
    <2>3. \A i \in 1..Len(members') : \E c \in Members : <<c, i>> \in index'
        BY <1>1, <1>5, <1>6, <1>9
    <2> QED
        BY <2>1, <2>2, <2>3 DEF IndexIsRight
<1>13. OneEntryPerMember'
    BY <1>8, <1>9 DEF OneEntryPerMember
<1>14. Served'
    BY <1>0 DEF Served
<1> QED
    BY <1>11, <1>12, <1>13, <1>14 DEF GroupIInv

LEMMA GetNextStepKeeps ==
    ASSUME GroupIInv, NEW t \in ShareThreads, GetNextStep(t)
    PROVE  GroupIInv'
<1>0. /\ members' = members /\ index' = index /\ ShareTypeOK /\ walker \in [ShareThreads -> Walkers]
    BY DEF GetNextStep, StartGetNext, ReadCounter, LookAtMember, NoMemberFound, GroupIInv,
           ShareTypeOK
<1>1. IndexIsRight' /\ OneEntryPerMember' /\ LiveMembers' = LiveMembers
    BY <1>0 DEF GroupIInv, IndexIsRight, OneEntryPerMember, LiveAt, LiveMembers
<1>2. LiveMembers \subseteq Members /\ Len(members) \in 0..MaxMembers /\ MaxMembers \in Nat
    BY <1>0, GroupTypes, MaxMembersAssumption
<1>3. CounterMax \in Nat
    BY CounterMaxAssumption
<1>4. CASE StartGetNext(t)
    <2>1. /\ Walking("read", 0, 0, LiveMembers) \in Walkers
          /\ Walking("read", 0, 0, LiveMembers).served = LiveMembers
          /\ Walking("read", 0, 0, LiveMembers).i = 0
          /\ Walking("read", 0, 0, LiveMembers).at = "read"
        BY <1>2, <1>3 DEF Walkers, CounterValues, Walking
    <2>2. walker' \in [ShareThreads -> Walkers] /\ Served'
        BY <1>0, <1>1, <1>2, <1>4, <2>1 DEF StartGetNext, GroupIInv, Served
    <2> QED
        BY <1>0, <1>1, <1>4, <2>2 DEF StartGetNext, GroupIInv, ShareTypeOK
<1>5. CASE ReadCounter(t)
    <2> DEFINE w == Walking("write", walker[t].i, roundRobinCounter, walker[t].served)
    <2>1. walker[t] # Idle /\ walker[t].i < Len(members)
        BY <1>5 DEF ReadCounter, Idle
    <2>2. walker[t] \in [at : {"read", "write"}, i : 0..MaxMembers, counter : CounterValues,
                         served : SUBSET Members]
        BY <1>0, <2>1, WalkerTypes
    <2>3. w \in Walkers
        BY <1>0, <2>2 DEF Walkers, ShareTypeOK, Walking
    <2>4. walker' = [walker EXCEPT ![t] = w]
        BY <1>5 DEF ReadCounter
    <2>5. /\ \A u \in ShareThreads : walker'[u] = IF u = t THEN w ELSE walker[u]
          /\ walker' \in [ShareThreads -> Walkers]
        BY <1>0, <2>3, <2>4
    <2>6. walker[t].served \subseteq LiveMembers
        BY <2>1 DEF GroupIInv, Served
    <2>7. Served'
        <3>1. w.served = walker[t].served /\ w.i = walker[t].i
            BY DEF Walking
        <3> HIDE DEF w
        <3> QED
            BY <1>0, <1>1, <2>1, <2>5, <2>6, <3>1 DEF GroupIInv, Served
    <2> QED
        BY <1>0, <1>1, <1>5, <2>5, <2>7 DEF ReadCounter, GroupIInv, ShareTypeOK
<1>6. CASE LookAtMember(t)
    <2> DEFINE pos == MemberAt(walker[t].counter)
    <2>1. walker[t] # Idle /\ walker[t].at = "write"
        BY <1>6 DEF LookAtMember, Idle
    <2>2. walker[t] \in [at : {"read", "write"}, i : 0..MaxMembers, counter : CounterValues,
                         served : SUBSET Members]
        BY <1>0, <2>1, WalkerTypes
    <2>3. roundRobinCounter' \in CounterValues
        BY <1>3, <1>6, <2>2 DEF LookAtMember, Increment, CounterValues
    <2>4. CASE pos \in 1..Len(members) /\ LiveAt(pos)
        <3>1. /\ outcome' = [got |-> members[pos], served |-> walker[t].served]
              /\ walker' = [walker EXCEPT ![t] = Idle]
            BY <1>6, <2>4 DEF LookAtMember
        <3>2. members[pos] \in Members
            BY <2>4, IndexOfMember
        <3>3. walker' \in [ShareThreads -> Walkers] /\ Served'
            BY <1>0, <1>1, <3>1 DEF GroupIInv, Served, Walkers
        <3>4. outcome' \in [got : Members \cup {"nobody", "none yet"}, served : SUBSET Members]
            BY <2>2, <3>1, <3>2
        <3> QED
            BY <1>0, <1>1, <2>3, <3>3, <3>4 DEF GroupIInv, ShareTypeOK
    <2>5. CASE ~(pos \in 1..Len(members) /\ LiveAt(pos))
        <3> DEFINE w == Walking("read", walker[t].i + 1, walker[t].counter, walker[t].served)
        <3>1. walker' = [walker EXCEPT ![t] = w] /\ outcome' = outcome
            BY <1>6, <2>5 DEF LookAtMember
        <3>2. walker[t].i < Len(members) /\ walker[t].served \subseteq LiveMembers
            BY <2>1 DEF GroupIInv, Served
        <3>3. /\ w.served = walker[t].served /\ w.at = "read" /\ w.i = walker[t].i + 1
              /\ w.i <= Len(members)
            BY <1>2, <2>2, <3>2 DEF Walking
        <3>4. w \in Walkers
            BY <1>2, <2>2, <3>3 DEF Walkers, Walking
        <3> HIDE DEF w
        <3>5. /\ \A u \in ShareThreads : walker'[u] = IF u = t THEN w ELSE walker[u]
              /\ walker' \in [ShareThreads -> Walkers]
            BY <1>0, <3>1, <3>4
        <3>6. Served'
            BY <1>0, <1>1, <3>2, <3>3, <3>5 DEF GroupIInv, Served
        <3> QED
            BY <1>0, <1>1, <2>3, <3>1, <3>5, <3>6 DEF GroupIInv, ShareTypeOK
    <2> QED
        BY <2>4, <2>5
<1>7. CASE NoMemberFound(t)
    <2>1. walker[t] # Idle
        BY <1>7 DEF NoMemberFound, Idle
    <2>2. walker[t].served \subseteq Members
        BY <1>0, <2>1, WalkerTypes
    <2>3. walker' = [walker EXCEPT ![t] = Idle] /\ Idle \in Walkers
        BY <1>7 DEF NoMemberFound, Walkers
    <2>4. walker' \in [ShareThreads -> Walkers] /\ Served'
        BY <1>0, <1>1, <2>3 DEF GroupIInv, Served
    <2> QED
        BY <1>0, <1>1, <1>7, <2>2, <2>4 DEF NoMemberFound, GroupIInv, ShareTypeOK
<1> QED
    BY <1>4, <1>5, <1>6, <1>7 DEF GetNextStep

LEMMA ShareInitKeeps ==
    ASSUME ShareInit
    PROVE  GroupIInv
<1>1. members \in Seq(Entries) /\ Len(members) = 0
    BY EmptySeq DEF ShareInit
<1>2. members \in UNION {[1..n -> Members \cup Gone] : n \in 0..MaxMembers}
    BY <1>1, MaxMembersAssumption, NewGroupTypes
<1>3. ShareTypeOK
    <2>1. walker \in [ShareThreads -> Walkers]
        BY DEF ShareInit, Walkers
    <2>2. roundRobinCounter \in CounterValues
        <3>1. 0 \in CounterValues /\ CounterMax \in CounterValues
            BY CounterMaxAssumption DEF CounterValues
        <3> QED
            BY <3>1 DEF ShareInit
    <2> QED
        BY <1>2, <2>1, <2>2 DEF ShareInit, ShareTypeOK
<1>4. 1..Len(members) = {}
    BY <1>1
<1>5. IndexIsRight /\ OneEntryPerMember
    BY <1>4 DEF ShareInit, IndexIsRight, OneEntryPerMember
<1>6. Served
    BY DEF ShareInit, Served
<1> QED
    BY <1>3, <1>5, <1>6 DEF GroupIInv

LEMMA ShareNextKeeps ==
    ASSUME GroupIInv, [ShareNext]_shareVars
    PROVE  GroupIInv'
<1>1. CASE UNCHANGED shareVars
    <2>1. /\ members' = members /\ index' = index /\ walker' = walker /\ outcome' = outcome
          /\ roundRobinCounter' = roundRobinCounter
        BY <1>1 DEF shareVars
    <2>2. ShareTypeOK'
        BY <2>1 DEF GroupIInv, ShareTypeOK
    <2>3. IndexIsRight' /\ OneEntryPerMember'
        BY <2>1 DEF GroupIInv, IndexIsRight, OneEntryPerMember, LiveAt
    <2>4. Served'
        BY <2>1 DEF GroupIInv, Served, LiveMembers
    <2> QED
        BY <2>2, <2>3, <2>4 DEF GroupIInv
<1> QED
    BY <1>1, SubscribeSharedKeeps, EraseMemberKeeps, MemberSessionEndsKeeps, purgeAndReIndexKeeps,
       GetNextStepKeeps DEF ShareNext

-----------------------------------------------------------------------------
(* One publisher at a time                                                   *)

OneThread == \A t, u \in ShareThreads : t = u

\* The counter has not overflowed, or its round is one of the positions too.
CounterIsEven ==
    roundRobinCounter >= 0 \/ (members # <<>> => Round % Len(members) = 0)

Position == ToSize(roundRobinCounter) % Len(members)

\* What one thread has looked at is what the counter has gone past.
WalkIsInOrder ==
    \A t \in ShareThreads : walker[t] # Idle =>
        /\ members # <<>>
        /\ walker[t].at = "write" => walker[t].counter = roundRobinCounter
        /\ Checked(members, Position, walker[t].i)

OneIInv == GroupIInv /\ WalkIsInOrder /\ MemberIsFound

LEMMA PositionType ==
    ASSUME ShareTypeOK, members # <<>>
    PROVE  Len(members) \in Nat \ {0} /\ Position \in 0..(Len(members) - 1)
<1>1. Len(members) \in Nat \ {0}
    BY GroupTypes
<1>2. ToSize(roundRobinCounter) \in Int
    <2>0. roundRobinCounter \in CounterValues
        BY DEF ShareTypeOK
    <2>1. roundRobinCounter \in Int /\ CounterMax \in Int
        BY <2>0, CounterMaxAssumption DEF CounterValues
    <2>2. SizeValues \in Int
        BY <2>1, SMT DEF SizeValues
    <2> QED
        BY <2>1, <2>2 DEF ToSize
<1> QED
    BY <1>1, <1>2, Division DEF Position

LEMMA OneThreadKeeps ==
    ASSUME OneThread, OneIInv, CounterIsEven, CounterIsEven', [ShareNext]_shareVars
    PROVE  OneIInv'
<1>0. GroupIInv' /\ ShareTypeOK /\ ShareTypeOK' /\ GroupIInv
    BY ShareNextKeeps DEF OneIInv, GroupIInv
<1>1. ASSUME NobodyWalks, walker' = walker, outcome' = outcome
      PROVE  OneIInv'
    BY <1>0, <1>1 DEF OneIInv, NobodyWalks, WalkIsInOrder, MemberIsFound
<1>2. ASSUME NEW c \in Members, MemberSessionEnds(c)
      PROVE  OneIInv'
    <2>1. /\ members' \in Seq(Entries) /\ Len(members') = Len(members)
          /\ \A j \in 1..Len(members) : members[j] \in Gone => members'[j] \in Gone
          /\ \A t \in ShareThreads :
                 /\ walker'[t] = Idle <=> walker[t] = Idle
                 /\ walker[t] # Idle => /\ walker'[t].at = walker[t].at
                                        /\ walker'[t].i = walker[t].i
                                        /\ walker'[t].counter = walker[t].counter
        BY <1>0, <1>2, MemberSessionEndsKeeps
    <2>2. roundRobinCounter' = roundRobinCounter /\ outcome' = outcome
        BY <1>2 DEF MemberSessionEnds
    <2>3. ASSUME NEW t \in ShareThreads, walker'[t] # Idle
          PROVE  /\ members' # <<>>
                 /\ walker'[t].at = "write" => walker'[t].counter = roundRobinCounter'
                 /\ Checked(members', Position', walker'[t].i)
        <3>1. /\ walker[t] # Idle /\ members # <<>> /\ Checked(members, Position, walker[t].i)
              /\ walker[t].at = "write" => walker[t].counter = roundRobinCounter
            BY <2>1, <2>3 DEF OneIInv, WalkIsInOrder
        <3>2. Len(members) \in Nat \ {0} /\ Position \in 0..(Len(members) - 1)
            BY <1>0, <3>1, PositionType
        <3>3. Position' = Position /\ members' # <<>>
            BY <2>1, <2>2, <3>2 DEF Position
        <3>4. walker[t].i \in Nat /\ walker[t].i <= Len(members)
            BY <1>0, <3>1, WalkerTypes DEF GroupIInv, Served
        <3>5. \A k \in 1..walker[t].i : 1 + Back(Position, k, Len(members)) \in 1..Len(members)
            BY <3>2, <3>4 DEF Back
        <3>6. Checked(members', Position', walker[t].i)
            BY <2>1, <3>1, <3>3, <3>5 DEF Checked
        <3> QED
            BY <2>1, <2>2, <3>1, <3>3, <3>6
    <2> QED
        BY <1>0, <2>2, <2>3 DEF OneIInv, WalkIsInOrder, MemberIsFound
<1>3. ASSUME NEW t \in ShareThreads, GetNextStep(t)
      PROVE  OneIInv'
    <2>1. members' = members /\ \A u \in ShareThreads : u = t
        BY <1>3 DEF OneThread, GetNextStep, StartGetNext, ReadCounter, LookAtMember, NoMemberFound
    <2>2. walker \in [ShareThreads -> Walkers]
        BY <1>0 DEF ShareTypeOK
    <2>3. CASE StartGetNext(t)
        <3>1. /\ walker'[t] = Walking("read", 0, 0, LiveMembers) /\ members # <<>>
              /\ roundRobinCounter' = roundRobinCounter /\ outcome' = outcome
            BY <2>2, <2>3 DEF StartGetNext
        <3>2. walker'[t].i = 0 /\ walker'[t].at = "read"
            BY <3>1 DEF Walking
        <3>3. Checked(members', Position', walker'[t].i)
            BY <3>2 DEF Checked
        <3> QED
            BY <1>0, <2>1, <3>1, <3>2, <3>3 DEF OneIInv, WalkIsInOrder, MemberIsFound
    <2>4. CASE ReadCounter(t)
        <3>1. /\ walker'[t] = Walking("write", walker[t].i, roundRobinCounter, walker[t].served)
              /\ walker[t] # Idle /\ roundRobinCounter' = roundRobinCounter /\ outcome' = outcome
            BY <2>2, <2>4 DEF ReadCounter, Idle
        <3>2. walker'[t].i = walker[t].i /\ walker'[t].counter = roundRobinCounter
            BY <3>1 DEF Walking
        <3>3. members # <<>> /\ Checked(members, Position, walker[t].i)
            BY <3>1 DEF OneIInv, WalkIsInOrder
        <3>4. Position' = Position
            BY <2>1, <3>1 DEF Position
        <3>5. Checked(members', Position', walker'[t].i)
            BY <2>1, <3>2, <3>3, <3>4
        <3> QED
            BY <1>0, <2>1, <3>1, <3>2, <3>3, <3>5 DEF OneIInv, WalkIsInOrder, MemberIsFound
    <2>5. CASE LookAtMember(t)
        <3> DEFINE c == roundRobinCounter
                   n == Len(members)
                   i == walker[t].i
        <3>1. walker[t] # Idle /\ walker[t].at = "write"
            BY <2>5 DEF LookAtMember, Idle
        <3>2. walker[t].counter = c /\ members # <<>> /\ Checked(members, Position, i)
            BY <3>1 DEF OneIInv, WalkIsInOrder
        <3>3. i \in 0..(n - 1) /\ c \in CounterValues
            <4>1. c \in CounterValues
                BY <1>0 DEF ShareTypeOK
            <4>2. i \in 0..MaxMembers
                BY <1>0, <3>1, WalkerTypes
            <4>3. i < n
                BY <1>0, <3>1 DEF GroupIInv, Served
            <4>4. n \in Nat /\ MaxMembers \in Nat
                BY <1>0, GroupTypes, MaxMembersAssumption
            <4> QED
                BY <4>1, <4>2, <4>3, <4>4
        <3>4. roundRobinCounter' = Increment(c)
            BY <2>5, <3>2 DEF LookAtMember
        <3>5. n \in Nat \ {0} /\ Position \in 0..(n - 1) /\ members \in Seq(Entries)
            BY <1>0, <3>2, PositionType, GroupTypes
        <3>6. (c >= 0 /\ Increment(c) >= 0) \/ Round % n = 0
            BY <2>1, <3>2, <3>4 DEF CounterIsEven
        <3>7. ToSize(Increment(c)) % n = NextPos(ToSize(c) % n, n)
            BY <3>3, <3>5, <3>6, CounterMoves
        <3>8. Position' = NextPos(Position, n)
            BY <2>1, <3>4, <3>7 DEF Position
        <3>9. MemberAt(walker[t].counter) = 1 + Position /\ 1 + Position \in 1..n
            BY <3>2, <3>5 DEF MemberAt, Position
        <3>10. CASE LiveAt(1 + Position)
            <4>1. walker'[t] = Idle /\ outcome'.got = members[1 + Position]
                BY <2>2, <2>5, <3>9, <3>10 DEF LookAtMember
            <4>2. members[1 + Position] \in Members
                BY <1>0, <3>9, <3>10, IndexOfMember
            <4>3. outcome'.got # "nobody"
                BY <4>1, <4>2, MembersAssumption
            <4> QED
                BY <1>0, <2>1, <4>1, <4>3 DEF OneIInv, WalkIsInOrder, MemberIsFound
        <3>11. CASE ~LiveAt(1 + Position)
            <4>1. /\ walker'[t] = Walking("read", i + 1, walker[t].counter, walker[t].served)
                  /\ outcome' = outcome
                BY <2>2, <2>5, <3>9, <3>11 DEF LookAtMember
            <4>2. walker'[t].i = i + 1 /\ walker'[t].at = "read"
                BY <4>1 DEF Walking
            <4>3. Checked(members, NextPos(Position, n), i + 1)
                BY <3>2, <3>3, <3>5, <3>11, CheckedOneMore DEF LiveAt
            <4>4. Checked(members', Position', walker'[t].i)
                BY <2>1, <3>8, <4>2, <4>3
            <4> QED
                BY <1>0, <2>1, <3>2, <4>1, <4>2, <4>4 DEF OneIInv, WalkIsInOrder, MemberIsFound
        <3> QED
            BY <3>10, <3>11
    <2>6. CASE NoMemberFound(t)
        <3>1. /\ walker[t] # Idle /\ walker[t].i = Len(members) /\ walker'[t] = Idle
              /\ outcome' = [got |-> "nobody", served |-> walker[t].served]
            BY <2>2, <2>6 DEF NoMemberFound, Idle
        <3>2. members # <<>> /\ Checked(members, Position, Len(members))
            BY <3>1 DEF OneIInv, WalkIsInOrder
        <3>3. Position \in 0..(Len(members) - 1) /\ members \in Seq(Entries)
            BY <1>0, <3>2, PositionType, GroupTypes
        <3>4. \A p \in 1..Len(members) : members[p] \in Gone
            BY <3>2, <3>3, AllChecked
        <3>5. LiveMembers = {}
            BY <3>4 DEF LiveMembers
        <3>6. walker[t].served = {}
            BY <1>0, <3>1, <3>5 DEF GroupIInv, Served
        <3> QED
            BY <1>0, <2>1, <3>1, <3>6 DEF OneIInv, WalkIsInOrder, MemberIsFound
    <2> QED
        BY <1>3, <2>3, <2>4, <2>5, <2>6 DEF GetNextStep
<1>4. CASE UNCHANGED shareVars
    BY <1>0, <1>4 DEF OneIInv, WalkIsInOrder, MemberIsFound, shareVars, Position, Checked
<1>5. \A c \in Members : SubscribeShared(c) \/ EraseMember(c) =>
          NobodyWalks /\ walker' = walker /\ outcome' = outcome
    BY DEF SubscribeShared, EraseMember
<1>6. purgeAndReIndex => NobodyWalks /\ walker' = walker /\ outcome' = outcome
    BY DEF purgeAndReIndex
<1> QED
    BY <1>1, <1>2, <1>3, <1>4, <1>5, <1>6 DEF ShareNext

-----------------------------------------------------------------------------
(* The theorems about shared groups                                          *)

(* However many threads publish, the index of a shared group leads to the      *)
(* entries of its clients, and no client has two (sharedsubscribers.cpp:28,   *)
(* 103, 114).                                                                 *)
THEOREM IndexStaysRight ==
    ShareSpec => [](IndexIsRight /\ OneEntryPerMember)
<1>1. ShareInit => GroupIInv
    BY ShareInitKeeps
<1>2. GroupIInv /\ [ShareNext]_shareVars => GroupIInv'
    BY ShareNextKeeps
<1>3. GroupIInv => IndexIsRight /\ OneEntryPerMember
    BY DEF GroupIInv
<1> QED
    BY <1>1, <1>2, <1>3, PTL DEF ShareSpec

(* With one thread that publishes, getNext finds a member when one was there   *)
(* all the time, for any number of entries, until the counter overflows and   *)
(* after that when the number of entries divides the number of its values     *)
(* (sharedsubscribers.cpp:61).                                                *)
THEOREM GroupStaysSound ==
    ASSUME OneThread
    PROVE  ShareSpec /\ []CounterIsEven => []GroupIsSound
<1>1. ShareInit => OneIInv
    <2> SUFFICES ASSUME ShareInit
                 PROVE  OneIInv
        OBVIOUS
    <2>1. GroupIInv
        BY ShareInitKeeps
    <2>2. WalkIsInOrder
        BY DEF ShareInit, WalkIsInOrder
    <2>3. outcome.got # "nobody"
        BY DEF ShareInit
    <2> QED
        BY <2>1, <2>2, <2>3 DEF OneIInv, MemberIsFound
<1>2. OneIInv /\ CounterIsEven /\ CounterIsEven' /\ [ShareNext]_shareVars => OneIInv'
    BY OneThreadKeeps
<1>3. OneIInv => GroupIsSound
    BY DEF OneIInv, GroupIInv, GroupIsSound
<1> QED
    BY <1>1, <1>2, <1>3, PTL DEF ShareSpec

-----------------------------------------------------------------------------
(* Packets on their way                                                      *)

On(packets) == {packets[n] : n \in DOMAIN packets}
IsOnItsWay(i, packets) == \E p \in On(packets) : p.id = i
OncePerId(packets) == \A m, n \in DOMAIN packets : packets[m].id = packets[n].id => m = n

LEMMA OnNone ==
    <<>> \in Seq(Packets) /\ On(<<>>) = {} /\ OncePerId(<<>>)
BY DEF On, OncePerId

LEMMA OnPackets ==
    ASSUME NEW s \in Seq(Packets)
    PROVE  \A q \in On(s) : q \in Packets /\ q.id \in InIds
<1>1. \A q \in On(s) : q \in Packets
    BY DEF On
<1> QED
    BY <1>1 DEF Packets

LEMMA OnAppend ==
    ASSUME NEW s \in Seq(Packets), NEW p \in Packets
    PROVE  /\ Append(s, p) \in Seq(Packets)
           /\ On(Append(s, p)) = On(s) \cup {p}
           /\ OncePerId(s) /\ ~IsOnItsWay(p.id, s) => OncePerId(Append(s, p))
<1>1. Append(s, p) \in Seq(Packets)
    OBVIOUS
<1>2. /\ \A n \in DOMAIN s : n \in DOMAIN Append(s, p) /\ Append(s, p)[n] = s[n]
      /\ Len(s) + 1 \in DOMAIN Append(s, p) /\ Append(s, p)[Len(s) + 1] = p
      /\ \A n \in DOMAIN Append(s, p) : n \in DOMAIN s \/ n = Len(s) + 1
    OBVIOUS
<1>3. On(Append(s, p)) = On(s) \cup {p}
    BY <1>2 DEF On
<1>4. ASSUME OncePerId(s), ~IsOnItsWay(p.id, s)
      PROVE  OncePerId(Append(s, p))
    BY <1>2, <1>4 DEF OncePerId, IsOnItsWay, On
<1> QED
    BY <1>1, <1>3, <1>4

LEMMA OnTail ==
    ASSUME NEW s \in Seq(Packets), s # <<>>
    PROVE  /\ Head(s) \in Packets /\ Tail(s) \in Seq(Packets)
           /\ Head(s) \in On(s) /\ On(Tail(s)) \subseteq On(s)
           /\ OncePerId(s) => OncePerId(Tail(s)) /\ ~IsOnItsWay(Head(s).id, Tail(s))
<1>1. Head(s) \in Packets /\ Tail(s) \in Seq(Packets)
    OBVIOUS
<1>2. /\ 1 \in DOMAIN s /\ Head(s) = s[1]
      /\ \A n \in DOMAIN Tail(s) : n \in Nat /\ n + 1 \in DOMAIN s /\ n + 1 # 1 /\ Tail(s)[n] = s[n + 1]
    OBVIOUS
<1>3. Head(s) \in On(s) /\ On(Tail(s)) \subseteq On(s)
    BY <1>2 DEF On
<1>4. ASSUME OncePerId(s)
      PROVE  OncePerId(Tail(s)) /\ ~IsOnItsWay(Head(s).id, Tail(s))
    BY <1>2, <1>4 DEF OncePerId, IsOnItsWay, On
<1> QED
    BY <1>1, <1>3, <1>4

\* What the device sends again on a new connection.
LEMMA OnAgain ==
    ASSUME NEW open \in SUBSET InIds, NEW order \in SetToSeqs(open),
           \A i \in open : Again(i) \in Packets /\ Again(i).id = i
    PROVE  LET sent == [n \in DOMAIN order |-> Again(order[n])]
           IN  /\ sent \in Seq(Packets) /\ OncePerId(sent)
               /\ \A p \in On(sent) : p.id \in open /\ p = Again(p.id)
<1> DEFINE sent == [n \in DOMAIN order |-> Again(order[n])]
<1>1. IsFiniteSet(open) /\ Cardinality(open) \in Nat
    BY InIdsAssumption, FS_Subset, FS_CardinalityType
<1>2. /\ DOMAIN order = 1..Cardinality(open)
      /\ \A m \in DOMAIN order : order[m] \in open
      /\ \A m, n \in DOMAIN order : order[m] = order[n] => m = n
    BY DEF SetToSeqs
<1>3. DOMAIN sent = 1..Cardinality(open) /\ \A n \in DOMAIN sent : sent[n] \in Packets
    BY <1>2
<1>4. sent \in Seq(Packets)
    BY <1>1, <1>3
<1>5. OncePerId(sent)
    BY <1>2 DEF OncePerId
<1>6. \A p \in On(sent) : p.id \in open /\ p = Again(p.id)
    BY <1>2 DEF On
<1> QED
    BY <1>4, <1>5, <1>6

-----------------------------------------------------------------------------
(* The inductive invariant                                                   *)

\* The connection that is handled, and the one that the device has.
Both == {registered, lastConn}

ConnectionsInOrder ==
    /\ registered <= lastConn
    /\ \A c \in Conns : handling[c].at # "idle" => c = registered
    /\ \A c \in Conns : c > lastConn => toBroker[c] = <<>>
    /\ \A c \in Conns : toDevice[c] # <<>> => c = lastConn /\ c = registered

\* A connection carries one packet of an exchange, in one direction, and not while
\* its publish is handled.
OneAtATimeOn(c) ==
    /\ OncePerId(toBroker[c]) /\ OncePerId(toDevice[c])
    /\ \A i \in InIds : ~(IsOnItsWay(i, toBroker[c]) /\ IsOnItsWay(i, toDevice[c]))
    /\ handling[c].at # "idle" => /\ ~IsOnItsWay(handling[c].id, toBroker[c])
                                  /\ ~IsOnItsWay(handling[c].id, toDevice[c])
OneAtATime == \A c \in Both : OneAtATimeOn(c)

\* What is on its way, or handled, belongs to what the device has not finished.
PacketFits(p) ==
    \/ p.type = "PUBLISH" /\ flight[p.id].phase = "publish" /\ flight[p.id].pub = p.pub
    \/ p.type = "PUBREL" /\ flight[p.id].phase = "release"
AnswerFits(p) ==
    \/ p.type = "PUBREC" /\ p.ok = TRUE /\ flight[p.id].phase = "publish" /\ p.id \in incoming
    \/ p.type = "PUBCOMP" /\ flight[p.id].phase = "release" /\ p.id \notin incoming
HandlingFits(h) ==
    /\ flight[h.id].phase = "publish" /\ flight[h.id].pub = h.pub
    /\ h.id \in incoming <=> h.at # "new"
    /\ h.at = "accepted" => routed[h.pub] = 0
PacketsFit ==
    \A c \in Both :
        /\ \A p \in On(toBroker[c]) : PacketFits(p)
        /\ \A p \in On(toDevice[c]) : AnswerFits(p)
        /\ handling[c].at # "idle" => HandlingFits(handling[c])

\* An id is kept from the moment its publish is taken over to its release.
IsRouting(i) == \E c \in Conns : handling[c].at = "accepted" /\ handling[c].id = i
IdFits(i) ==
    /\ flight[i].phase = "none" => i \notin incoming
    /\ flight[i].phase = "publish" =>
          /\ flight[i].pub \notin accepted
          /\ i \notin incoming => routed[flight[i].pub] = 0
          /\ i \in incoming /\ ~IsRouting(i) /\ flight[i].pub \notin inconf.refused =>
                routed[flight[i].pub] = 1
FlightsAreDistinct ==
    \A i, j \in InIds :
        flight[i].phase # "none" /\ flight[j].phase # "none" /\ flight[i].pub = flight[j].pub
            => i = j
MadeSoFar ==
    /\ \A i \in InIds : flight[i].phase # "none" => flight[i].pub <= made
    /\ \A p \in accepted : p <= made
    /\ \A p \in InPubs : p > made => routed[p] = 0
NoErrorIsReported == inconf.mqtt5 => inconf.refused = {}

Accounts == FlightsAreDistinct /\ MadeSoFar /\ RoutedAtMostOnce /\ AcceptedIsRouted

InIInv ==
    /\ InTypeOK /\ NoErrorIsReported
    /\ ConnectionsInOrder /\ OneAtATime /\ PacketsFit
    /\ \A i \in InIds : IdFits(i)
    /\ Accounts

-----------------------------------------------------------------------------
(* What a state of the right type looks like                                 *)

LEMMA Shapes ==
    ASSUME InTypeOK
    PROVE  /\ \A c \in Conns :
                  /\ handling[c] = NotHandling <=> handling[c].at = "idle"
                  /\ handling[c].at # "idle" =>
                        /\ handling[c].at \in {"new", "duplicate", "accepted"}
                        /\ handling[c].id \in InIds /\ handling[c].pub \in InPubs
           /\ \A i \in InIds :
                  /\ flight[i] = Nothing <=> flight[i].phase = "none"
                  /\ flight[i].phase # "none" =>
                        flight[i].phase \in {"publish", "release"} /\ flight[i].pub \in InPubs
           /\ NotHandling.at = "idle" /\ Nothing.phase = "none"
<1>1. \A c \in Conns : handling[c] \in {NotHandling} \cup
                        [at : {"new", "duplicate", "accepted"}, id : InIds, pub : InPubs]
    BY DEF InTypeOK
<1>2. \A i \in InIds : flight[i] \in {Nothing} \cup [phase : {"publish", "release"}, pub : InPubs]
    BY DEF InTypeOK
<1>3. NotHandling.at = "idle" /\ Nothing.phase = "none"
    BY DEF NotHandling, Nothing
<1> QED
    BY <1>1, <1>2, <1>3

LEMMA ShortPacketShape ==
    ASSUME NEW i \in InIds
    PROVE  \A type \in PacketTypes :
              /\ Packet(type, i, 0, TRUE) \in Packets
              /\ Packet(type, i, 0, TRUE).type = type /\ Packet(type, i, 0, TRUE).id = i
              /\ Packet(type, i, 0, TRUE).ok = TRUE
<1>1. 0 \in 0..MaxPubs /\ TRUE \in BOOLEAN
    BY MaxPubsAssumption
<1> QED
    BY <1>1 DEF Packet, Packets

LEMMA PublishShape ==
    ASSUME NEW i \in InIds, NEW pub \in InPubs
    PROVE  /\ Packet("PUBLISH", i, pub, TRUE) \in Packets
           /\ Packet("PUBLISH", i, pub, TRUE).type = "PUBLISH"
           /\ Packet("PUBLISH", i, pub, TRUE).id = i /\ Packet("PUBLISH", i, pub, TRUE).pub = pub
<1>1. pub \in 0..MaxPubs /\ TRUE \in BOOLEAN
    BY MaxPubsAssumption DEF InPubs
<1> QED
    BY <1>1 DEF Packet, Packets, PacketTypes

\* A packet that the thread takes from the connection that is registered.
LEMMA TakenPacket ==
    ASSUME InIInv, ~InThreads, NEW c \in Conns, NEW type, NextPacket(c, type)
    PROVE  LET p == Head(toBroker[c])
           IN  /\ c = registered /\ c \in Both
               /\ \A d \in Conns : handling[d].at = "idle"
               /\ p \in Packets /\ p.id \in InIds /\ p.type = type /\ PacketFits(p)
               /\ IsOnItsWay(p.id, toBroker[c]) /\ ~IsOnItsWay(p.id, toDevice[c])
               /\ toBroker' \in [Conns -> Seq(Packets)]
               /\ \A d \in Conns : d # c => toBroker'[d] = toBroker[d]
               /\ On(toBroker'[c]) \subseteq On(toBroker[c])
               /\ OncePerId(toBroker'[c]) /\ ~IsOnItsWay(p.id, toBroker'[c])
<1> DEFINE p == Head(toBroker[c])
<1>1. /\ c = registered /\ toBroker[c] # <<>> /\ p.type = type
      /\ toBroker' = [toBroker EXCEPT ![c] = Tail(@)]
    BY DEF NextPacket
<1>2. \A d \in Conns : handling[d].at = "idle"
    BY Shapes DEF NextPacket, ThreadIsIdle, InIInv
<1>3. toBroker \in [Conns -> Seq(Packets)]
    BY DEF InIInv, InTypeOK
<1>4. toBroker' \in [Conns -> Seq(Packets)] /\ toBroker'[c] = Tail(toBroker[c])
      /\ \A d \in Conns : d # c => toBroker'[d] = toBroker[d]
    BY <1>1, <1>3, OnTail
<1>5. /\ p \in Packets /\ p \in On(toBroker[c]) /\ On(toBroker'[c]) \subseteq On(toBroker[c])
      /\ OncePerId(toBroker'[c]) /\ ~IsOnItsWay(p.id, toBroker'[c])
    BY <1>1, <1>3, <1>4, OnTail DEF InIInv, OneAtATime, OneAtATimeOn, Both
<1>6. p.id \in InIds /\ PacketFits(p)
    BY <1>1, <1>5 DEF Packets, InIInv, PacketsFit, Both
<1>7. IsOnItsWay(p.id, toBroker[c]) /\ ~IsOnItsWay(p.id, toDevice[c])
    BY <1>1, <1>5, <1>6 DEF IsOnItsWay, InIInv, OneAtATime, OneAtATimeOn, Both
<1> QED
    BY <1>1, <1>2, <1>4, <1>5, <1>6, <1>7 DEF Both

\* An answer from the connection that is registered.
LEMMA SentAnswer ==
    ASSUME InIInv, NEW p \in Packets, Send(registered, p)
    PROVE  /\ toDevice' \in [Conns -> Seq(Packets)]
           /\ \A d \in Conns : d # registered => toDevice'[d] = toDevice[d]
           /\ On(toDevice'[registered]) \subseteq On(toDevice[registered]) \cup {p}
           /\ ~IsOnItsWay(p.id, toDevice[registered]) => OncePerId(toDevice'[registered])
           /\ \A d \in Conns : toDevice'[d] # <<>> => d = lastConn /\ d = registered
<1>1. /\ toDevice \in [Conns -> Seq(Packets)] /\ registered \in Conns /\ lastConn \in Conns
      /\ registered <= lastConn /\ OncePerId(toDevice[registered])
      /\ \A d \in Conns : toDevice[d] # <<>> => d = lastConn /\ d = registered
    BY DEF InIInv, InTypeOK, ConnectionsInOrder, OneAtATime, OneAtATimeOn, Both
<1>2. CASE registered < lastConn
    BY <1>1, <1>2 DEF Send
<1>3. CASE ~(registered < lastConn)
    <2>1. registered = lastConn
        BY <1>1, <1>3 DEF Conns
    <2>2. toDevice' = [toDevice EXCEPT ![registered] = Append(@, p)]
        BY <1>3 DEF Send
    <2> QED
        BY <1>1, <2>1, <2>2, OnAppend
<1> QED
    BY <1>2, <1>3

-----------------------------------------------------------------------------
(* The steps of the broker                                                   *)

\* What holds of the packets still holds when nothing that they are about changes.
LEMMA SamePacketsFit ==
    ASSUME InIInv, UNCHANGED <<flight, incoming, routed, registered, lastConn>>
    PROVE  /\ Both' = Both
           /\ \A q \in Packets : PacketFits(q) => PacketFits(q)'
           /\ \A q \in Packets : AnswerFits(q) => AnswerFits(q)'
BY DEF PacketFits, AnswerFits, Both

LEMMA CheckInTransitKeepsIInv ==
    ASSUME InIInv, ~InThreads, NEW c \in Conns, CheckInTransit(c)
    PROVE  InIInv'
<1> DEFINE p == Head(toBroker[c])
           h == [at |-> IF p.id \in incoming THEN "duplicate" ELSE "new",
                 id |-> p.id, pub |-> p.pub]
<1>1. /\ NextPacket(c, "PUBLISH") /\ handling' = [handling EXCEPT ![c] = h]
      /\ UNCHANGED <<inconf, incoming, routed, toDevice, lastConn, registered, flight, made, accepted>>
    BY DEF CheckInTransit
<1>2. /\ c = registered /\ \A d \in Conns : handling[d].at = "idle"
      /\ p.id \in InIds /\ p.type = "PUBLISH" /\ PacketFits(p)
      /\ ~IsOnItsWay(p.id, toDevice[c])
      /\ toBroker' \in [Conns -> Seq(Packets)]
      /\ \A d \in Conns : d # c => toBroker'[d] = toBroker[d]
      /\ On(toBroker'[c]) \subseteq On(toBroker[c])
      /\ OncePerId(toBroker'[c]) /\ ~IsOnItsWay(p.id, toBroker'[c])
    BY <1>1, TakenPacket
<1> HIDE DEF p
<1>3. flight[p.id].phase = "publish" /\ flight[p.id].pub = p.pub /\ p.pub \in InPubs
    BY <1>2, Shapes DEF PacketFits, InIInv
<1>4. /\ h.at \in {"new", "duplicate"} /\ h.id = p.id /\ h.pub = p.pub
      /\ h.id \in incoming <=> h.at # "new"
      /\ h \in [at : {"new", "duplicate", "accepted"}, id : InIds, pub : InPubs]
    BY <1>2, <1>3
<1> HIDE DEF h
<1>5. /\ handling'[c] = h /\ \A d \in Conns : d # c => handling'[d] = handling[d]
      /\ handling' \in [Conns -> {NotHandling} \cup
                           [at : {"new", "duplicate", "accepted"}, id : InIds, pub : InPubs]]
    BY <1>1, <1>4 DEF InIInv, InTypeOK
<1>6. InTypeOK'
    BY <1>1, <1>2, <1>5 DEF InIInv, InTypeOK
<1>7. ConnectionsInOrder'
    BY <1>1, <1>2, <1>5 DEF InIInv, InTypeOK, ConnectionsInOrder, Conns
<1>8. OneAtATime'
    <2>1. OneAtATimeOn(c)'
        <3>1. \A i : IsOnItsWay(i, toBroker'[c]) => IsOnItsWay(i, toBroker[c])
            BY <1>2 DEF IsOnItsWay
        <3> QED
            BY <1>1, <1>2, <1>4, <1>5, <3>1 DEF InIInv, OneAtATime, OneAtATimeOn, Both
    <2>2. \A d \in Conns : d # c /\ OneAtATimeOn(d) => OneAtATimeOn(d)'
        BY <1>1, <1>2, <1>4, <1>5 DEF OneAtATimeOn
    <2> QED
        BY <1>1, <1>2, <2>1, <2>2 DEF InIInv, InTypeOK, OneAtATime, Both
<1>9. PacketsFit'
    BY <1>1, <1>2, <1>3, <1>4, <1>5
        DEF InIInv, InTypeOK, PacketsFit, Both, PacketFits, AnswerFits, HandlingFits
<1>10. \A i \in InIds : IdFits(i)'
    BY <1>1, <1>2, <1>4, <1>5 DEF InIInv, IdFits, IsRouting
<1>11. Accounts' /\ NoErrorIsReported'
    BY <1>1 DEF InIInv, Accounts, FlightsAreDistinct, MadeSoFar, RoutedAtMostOnce,
        AcceptedIsRouted, NoErrorIsReported
<1> QED
    BY <1>6, <1>7, <1>8, <1>9, <1>10, <1>11 DEF InIInv

\* The connection with the handler that goes on is the registered one, and there is
\* one handler.
LEMMA RunningHandler ==
    ASSUME InIInv, NEW c \in Conns, handling[c].at # "idle"
    PROVE  /\ c = registered /\ c \in Both /\ HandlingFits(handling[c])
           /\ handling[c].id \in InIds /\ handling[c].pub \in InPubs
           /\ ~IsOnItsWay(handling[c].id, toBroker[c])
           /\ ~IsOnItsWay(handling[c].id, toDevice[c])
           /\ \A d \in Conns : d # c => handling[d].at = "idle"
BY Shapes DEF InIInv, ConnectionsInOrder, OneAtATime, OneAtATimeOn, PacketsFit, Both

LEMMA addIncomingKeepsIInv ==
    ASSUME InIInv, NEW c \in Conns, addIncomingQoS2MessageId(c)
    PROVE  InIInv'
<1> DEFINE h == handling[c]
<1>1. /\ h.at = "new" /\ incoming' = incoming \cup {h.id}
      /\ handling' = [handling EXCEPT ![c].at = "accepted"]
      /\ UNCHANGED <<inconf, routed, toBroker, toDevice, lastConn, registered, flight, made, accepted>>
    BY DEF addIncomingQoS2MessageId
<1>2. /\ c = registered /\ HandlingFits(h) /\ h.id \in InIds /\ h.pub \in InPubs
      /\ ~IsOnItsWay(h.id, toBroker[c]) /\ ~IsOnItsWay(h.id, toDevice[c])
      /\ \A d \in Conns : d # c => handling[d].at = "idle"
    BY <1>1, RunningHandler
<1>3. /\ flight[h.id].phase = "publish" /\ flight[h.id].pub = h.pub /\ h.id \notin incoming
      /\ routed[h.pub] = 0
    BY <1>1, <1>2 DEF HandlingFits, InIInv, IdFits
<1>4. /\ handling'[c].at = "accepted" /\ handling'[c].id = h.id /\ handling'[c].pub = h.pub
      /\ \A d \in Conns : d # c => handling'[d] = handling[d]
      /\ handling' \in [Conns -> {NotHandling} \cup
                           [at : {"new", "duplicate", "accepted"}, id : InIds, pub : InPubs]]
    <2>1. h \in [at : {"new", "duplicate", "accepted"}, id : InIds, pub : InPubs]
        BY <1>1, Shapes DEF InIInv, InTypeOK
    <2>2. handling' = [handling EXCEPT ![c] = [h EXCEPT !.at = "accepted"]]
        BY <1>1
    <2> QED
        BY <2>1, <2>2 DEF InIInv, InTypeOK
<1> HIDE DEF h
<1>5. InTypeOK'
    BY <1>1, <1>2, <1>4 DEF InIInv, InTypeOK
<1>6. ConnectionsInOrder'
    BY <1>1, <1>2, <1>4 DEF InIInv, InTypeOK, ConnectionsInOrder
<1>7. OneAtATime'
    <2>1. OneAtATimeOn(c)'
        BY <1>1, <1>2, <1>4 DEF InIInv, OneAtATime, OneAtATimeOn, Both, IsOnItsWay
    <2>2. \A d \in Conns : d # c /\ OneAtATimeOn(d) => OneAtATimeOn(d)'
        BY <1>1, <1>2, <1>4 DEF OneAtATimeOn
    <2> QED
        BY <1>1, <1>2, <2>1, <2>2 DEF InIInv, InTypeOK, OneAtATime, Both
<1>8. PacketsFit'
    <2>1. \A d \in Both : \A q \in On(toDevice[d]) : q.id # h.id
        BY <1>2 DEF InIInv, ConnectionsInOrder, InTypeOK, IsOnItsWay, Both, On
    <2>2. HandlingFits(handling[c])'
        BY <1>1, <1>3, <1>4 DEF HandlingFits
    <2> QED
        BY <1>1, <1>2, <1>4, <2>1, <2>2
            DEF InIInv, InTypeOK, PacketsFit, Both, PacketFits, AnswerFits
<1>9. \A i \in InIds : IdFits(i)'
    BY <1>1, <1>2, <1>3, <1>4 DEF InIInv, IdFits, IsRouting
<1>10. Accounts' /\ NoErrorIsReported'
    BY <1>1 DEF InIInv, Accounts, FlightsAreDistinct, MadeSoFar, RoutedAtMostOnce,
        AcceptedIsRouted, NoErrorIsReported
<1> QED
    BY <1>5, <1>6, <1>7, <1>8, <1>9, <1>10 DEF InIInv

LEMMA RouteAndAcknowledgeKeepsIInv ==
    ASSUME InIInv, NEW c \in Conns, RouteAndAcknowledge(c)
    PROVE  InIInv'
<1> DEFINE h == handling[c]
           allowed == h.pub \notin inconf.refused
           answer == Packet("PUBREC", h.id, 0, allowed \/ ~inconf.mqtt5)
<1>1. /\ h.at = "accepted" /\ Send(c, answer) /\ handling' = [handling EXCEPT ![c] = NotHandling]
      /\ routed' = IF allowed THEN [routed EXCEPT ![h.pub] = @ + 1] ELSE routed
      /\ UNCHANGED <<inconf, incoming, toBroker, lastConn, registered, flight, made, accepted>>
    BY DEF RouteAndAcknowledge
<1>2. /\ c = registered /\ HandlingFits(h) /\ h.id \in InIds /\ h.pub \in InPubs
      /\ ~IsOnItsWay(h.id, toBroker[c]) /\ ~IsOnItsWay(h.id, toDevice[c])
      /\ \A d \in Conns : d # c => handling[d].at = "idle"
    BY <1>1, RunningHandler
<1>3. /\ flight[h.id].phase = "publish" /\ flight[h.id].pub = h.pub /\ h.id \in incoming
      /\ routed[h.pub] = 0
    BY <1>1, <1>2 DEF HandlingFits
<1>4. /\ answer \in Packets /\ answer.type = "PUBREC" /\ answer.id = h.id
      /\ answer.ok = TRUE
    <2>1. (allowed \/ ~inconf.mqtt5) = TRUE
        BY DEF InIInv, NoErrorIsReported
    <2> QED
        BY <1>2, <2>1, ShortPacketShape DEF PacketTypes
<1> HIDE DEF answer
<1>5. /\ toDevice' \in [Conns -> Seq(Packets)]
      /\ \A d \in Conns : d # c => toDevice'[d] = toDevice[d]
      /\ On(toDevice'[c]) \subseteq On(toDevice[c]) \cup {answer}
      /\ OncePerId(toDevice'[c])
      /\ \A d \in Conns : toDevice'[d] # <<>> => d = lastConn /\ d = registered
    BY <1>1, <1>2, <1>4, SentAnswer
<1>6. /\ handling'[c] = NotHandling /\ \A d \in Conns : handling'[d].at = "idle"
      /\ handling' \in [Conns -> {NotHandling} \cup
                           [at : {"new", "duplicate", "accepted"}, id : InIds, pub : InPubs]]
    BY <1>1, <1>2, Shapes DEF InIInv, InTypeOK
<1>7. /\ routed' \in [InPubs -> Nat] /\ \A q \in InPubs : q # h.pub => routed'[q] = routed[q]
      /\ routed'[h.pub] = IF allowed THEN 1 ELSE 0
    BY <1>1, <1>2, <1>3 DEF InIInv, InTypeOK
<1> HIDE DEF h
<1>8. InTypeOK'
    BY <1>1, <1>5, <1>6, <1>7 DEF InIInv, InTypeOK
<1>9. ConnectionsInOrder'
    BY <1>1, <1>5, <1>6 DEF InIInv, ConnectionsInOrder
<1>10. OneAtATime'
    <2>1. OneAtATimeOn(c)'
        BY <1>1, <1>2, <1>4, <1>5, <1>6 DEF InIInv, OneAtATime, OneAtATimeOn, Both, IsOnItsWay
    <2>2. \A d \in Conns : d # c /\ OneAtATimeOn(d) => OneAtATimeOn(d)'
        BY <1>1, <1>2, <1>4, <1>5, <1>6 DEF OneAtATimeOn
    <2> QED
        BY <1>1, <1>2, <2>1, <2>2 DEF InIInv, InTypeOK, OneAtATime, Both
<1>11. PacketsFit'
    BY <1>1, <1>2, <1>3, <1>4, <1>5, <1>6
        DEF InIInv, InTypeOK, PacketsFit, Both, PacketFits, AnswerFits
<1>12. \A i \in InIds : IdFits(i)'
    <2> SUFFICES ASSUME NEW i \in InIds PROVE IdFits(i)'
        OBVIOUS
    <2>1. i # h.id => ~IsRouting(i)
        BY <1>1, <1>2 DEF IsRouting, h
    <2>2. i # h.id /\ flight[i].phase = "publish" => flight[i].pub # h.pub /\ flight[i].pub \in InPubs
        BY <1>2, <1>3, Shapes DEF InIInv, Accounts, FlightsAreDistinct
    <2> QED
        BY <1>1, <1>3, <1>7, <2>1, <2>2 DEF InIInv, IdFits
<1>13. Accounts' /\ NoErrorIsReported'
    <2>1. h.pub <= made /\ h.pub \notin accepted
        BY <1>2, <1>3 DEF InIInv, Accounts, MadeSoFar, IdFits
    <2>2. made \in Nat /\ accepted \subseteq InPubs /\ InPubs \subseteq Nat
        BY DEF InIInv, InTypeOK, InPubs
    <2> QED
        BY <1>1, <1>2, <1>7, <2>1, <2>2 DEF InIInv, Accounts, FlightsAreDistinct, MadeSoFar,
            RoutedAtMostOnce, AcceptedIsRouted, NoErrorIsReported
<1> QED
    BY <1>8, <1>9, <1>10, <1>11, <1>12, <1>13 DEF InIInv

LEMMA AcknowledgeDuplicateKeepsIInv ==
    ASSUME InIInv, NEW c \in Conns, AcknowledgeDuplicate(c)
    PROVE  InIInv'
<1> DEFINE h == handling[c]
           answer == Packet("PUBREC", h.id, 0, TRUE)
<1>1. /\ h.at = "duplicate" /\ Send(c, answer) /\ handling' = [handling EXCEPT ![c] = NotHandling]
      /\ UNCHANGED <<inconf, incoming, routed, toBroker, lastConn, registered, flight, made, accepted>>
    BY DEF AcknowledgeDuplicate
<1>2. /\ c = registered /\ HandlingFits(h) /\ h.id \in InIds /\ h.pub \in InPubs
      /\ ~IsOnItsWay(h.id, toBroker[c]) /\ ~IsOnItsWay(h.id, toDevice[c])
      /\ \A d \in Conns : d # c => handling[d].at = "idle"
    BY <1>1, RunningHandler
<1>3. flight[h.id].phase = "publish" /\ h.id \in incoming
    BY <1>1, <1>2 DEF HandlingFits
<1>4. /\ answer \in Packets /\ answer.type = "PUBREC" /\ answer.id = h.id
      /\ answer.ok = TRUE
    BY <1>2, ShortPacketShape DEF PacketTypes
<1> HIDE DEF answer
<1>5. /\ toDevice' \in [Conns -> Seq(Packets)]
      /\ \A d \in Conns : d # c => toDevice'[d] = toDevice[d]
      /\ On(toDevice'[c]) \subseteq On(toDevice[c]) \cup {answer}
      /\ OncePerId(toDevice'[c])
      /\ \A d \in Conns : toDevice'[d] # <<>> => d = lastConn /\ d = registered
    BY <1>1, <1>2, <1>4, SentAnswer
<1>6. /\ handling'[c] = NotHandling /\ \A d \in Conns : handling'[d].at = "idle"
      /\ handling' \in [Conns -> {NotHandling} \cup
                           [at : {"new", "duplicate", "accepted"}, id : InIds, pub : InPubs]]
    BY <1>1, <1>2, Shapes DEF InIInv, InTypeOK
<1>7. ~\E d \in Conns : handling[d].at = "accepted"
    BY <1>1, <1>2
<1> HIDE DEF h
<1>8. InTypeOK'
    BY <1>1, <1>5, <1>6 DEF InIInv, InTypeOK
<1>9. ConnectionsInOrder'
    BY <1>1, <1>5, <1>6 DEF InIInv, ConnectionsInOrder
<1>10. OneAtATime'
    <2>1. OneAtATimeOn(c)'
        BY <1>1, <1>2, <1>4, <1>5, <1>6 DEF InIInv, OneAtATime, OneAtATimeOn, Both, IsOnItsWay
    <2>2. \A d \in Conns : d # c /\ OneAtATimeOn(d) => OneAtATimeOn(d)'
        BY <1>1, <1>2, <1>4, <1>5, <1>6 DEF OneAtATimeOn
    <2> QED
        BY <1>1, <1>2, <2>1, <2>2 DEF InIInv, InTypeOK, OneAtATime, Both
<1>11. PacketsFit'
    BY <1>1, <1>2, <1>3, <1>4, <1>5, <1>6
        DEF InIInv, InTypeOK, PacketsFit, Both, PacketFits, AnswerFits
<1>12. \A i \in InIds : IdFits(i)'
    BY <1>1, <1>6, <1>7 DEF InIInv, IdFits, IsRouting
<1>13. Accounts' /\ NoErrorIsReported'
    BY <1>1 DEF InIInv, Accounts, FlightsAreDistinct, MadeSoFar, RoutedAtMostOnce,
        AcceptedIsRouted, NoErrorIsReported
<1> QED
    BY <1>8, <1>9, <1>10, <1>11, <1>12, <1>13 DEF InIInv

LEMMA HandlePubRelKeepsIInv ==
    ASSUME InIInv, ~InThreads, NEW c \in Conns, HandlePubRel(c)
    PROVE  InIInv'
<1> DEFINE p == Head(toBroker[c])
           answer == Packet("PUBCOMP", p.id, 0, p.id \in incoming)
<1>1. /\ NextPacket(c, "PUBREL") /\ incoming' = incoming \ {p.id} /\ Send(c, answer)
      /\ UNCHANGED <<inconf, routed, handling, lastConn, registered, flight, made, accepted>>
    BY DEF HandlePubRel
<1>2. /\ c = registered /\ \A d \in Conns : handling[d].at = "idle"
      /\ p.id \in InIds /\ p.type = "PUBREL" /\ PacketFits(p)
      /\ IsOnItsWay(p.id, toBroker[c]) /\ ~IsOnItsWay(p.id, toDevice[c])
      /\ toBroker' \in [Conns -> Seq(Packets)]
      /\ \A d \in Conns : d # c => toBroker'[d] = toBroker[d]
      /\ On(toBroker'[c]) \subseteq On(toBroker[c])
      /\ OncePerId(toBroker'[c]) /\ ~IsOnItsWay(p.id, toBroker'[c])
    BY <1>1, TakenPacket
<1>3. flight[p.id].phase = "release"
    BY <1>2 DEF PacketFits
<1>4. /\ answer \in Packets /\ answer.type = "PUBCOMP" /\ answer.id = p.id
    <2>1. 0 \in 0..MaxPubs /\ (p.id \in incoming) \in BOOLEAN
        BY MaxPubsAssumption
    <2> QED
        BY <1>2, <2>1 DEF Packet, Packets, PacketTypes
<1> HIDE DEF answer, p
<1>5. /\ toDevice' \in [Conns -> Seq(Packets)]
      /\ \A d \in Conns : d # c => toDevice'[d] = toDevice[d]
      /\ On(toDevice'[c]) \subseteq On(toDevice[c]) \cup {answer}
      /\ OncePerId(toDevice'[c])
      /\ \A d \in Conns : toDevice'[d] # <<>> => d = lastConn /\ d = registered
    BY <1>1, <1>2, <1>4, SentAnswer
<1>6. InTypeOK'
    BY <1>1, <1>2, <1>5 DEF InIInv, InTypeOK
<1>7. ConnectionsInOrder'
    BY <1>1, <1>2, <1>5 DEF InIInv, InTypeOK, ConnectionsInOrder, Conns
<1>8. OneAtATime'
    <2>1. /\ \A i : IsOnItsWay(i, toBroker'[c]) => IsOnItsWay(i, toBroker[c]) /\ i # p.id
          /\ \A i : IsOnItsWay(i, toDevice'[c]) => IsOnItsWay(i, toDevice[c]) \/ i = p.id
        BY <1>2, <1>4, <1>5 DEF IsOnItsWay
    <2>2. OneAtATimeOn(c)'
        BY <1>1, <1>2, <1>5, <2>1 DEF InIInv, OneAtATime, OneAtATimeOn, Both
    <2>3. \A d \in Conns : d # c /\ OneAtATimeOn(d) => OneAtATimeOn(d)'
        BY <1>1, <1>2, <1>5 DEF OneAtATimeOn
    <2> QED
        BY <1>1, <1>2, <2>2, <2>3 DEF InIInv, InTypeOK, OneAtATime, Both
<1>9. PacketsFit'
    <2>1. \A d \in Both : \A q \in On(toDevice[d]) : q.id # p.id
        BY <1>2 DEF InIInv, ConnectionsInOrder, InTypeOK, IsOnItsWay, Both, On
    <2> QED
        BY <1>1, <1>2, <1>3, <1>4, <1>5, <2>1
            DEF InIInv, InTypeOK, PacketsFit, Both, PacketFits, AnswerFits
<1>10. \A i \in InIds : IdFits(i)'
    BY <1>1, <1>3 DEF InIInv, IdFits, IsRouting
<1>11. Accounts' /\ NoErrorIsReported'
    BY <1>1 DEF InIInv, Accounts, FlightsAreDistinct, MadeSoFar, RoutedAtMostOnce,
        AcceptedIsRouted, NoErrorIsReported
<1> QED
    BY <1>6, <1>7, <1>8, <1>9, <1>10, <1>11 DEF InIInv

LEMMA RegisterKeepsIInv ==
    ASSUME InIInv, ~InThreads, Register
    PROVE  InIInv'
<1>1. /\ registered' = lastConn /\ registered < lastConn
      /\ UNCHANGED <<inconf, incoming, routed, handling, toBroker, toDevice, lastConn, flight,
                     made, accepted>>
    BY DEF Register
<1>2. \A d \in Conns : handling[d].at = "idle"
    BY Shapes DEF InIInv, Register, ThreadIsIdle
<1>3. lastConn \in Both /\ Both' = {lastConn} /\ lastConn \in Conns /\ registered \in Conns
    BY <1>1 DEF Both, InIInv, InTypeOK
<1>4. InTypeOK' /\ ConnectionsInOrder'
    BY <1>1, <1>2, <1>3 DEF InIInv, InTypeOK, ConnectionsInOrder, Conns
<1>5. OneAtATime' /\ PacketsFit'
    BY <1>1, <1>3 DEF InIInv, OneAtATime, OneAtATimeOn, PacketsFit, PacketFits, AnswerFits,
        HandlingFits
<1>6. \A i \in InIds : IdFits(i)'
    BY <1>1 DEF InIInv, IdFits, IsRouting
<1>7. Accounts' /\ NoErrorIsReported'
    BY <1>1 DEF InIInv, Accounts, FlightsAreDistinct, MadeSoFar, RoutedAtMostOnce,
        AcceptedIsRouted, NoErrorIsReported
<1> QED
    BY <1>4, <1>5, <1>6, <1>7 DEF InIInv

LEMMA DropStaleKeepsIInv ==
    ASSUME InIInv, NEW c \in Conns, DropStale(c)
    PROVE  InIInv'
<1>1. /\ c < registered /\ toBroker' = [toBroker EXCEPT ![c] = <<>>]
      /\ UNCHANGED <<inconf, incoming, routed, handling, toDevice, lastConn, registered, flight,
                     made, accepted>>
    BY DEF DropStale, Stale
<1>2. /\ toBroker' \in [Conns -> Seq(Packets)] /\ toBroker'[c] = <<>>
      /\ \A d \in Conns : d # c => toBroker'[d] = toBroker[d]
    BY <1>1, OnNone DEF InIInv, InTypeOK
<1>3. c \notin Both /\ Both' = Both /\ Both \subseteq Conns
    BY <1>1 DEF Both, Conns, InIInv, InTypeOK, ConnectionsInOrder
<1>4. InTypeOK' /\ ConnectionsInOrder'
    BY <1>1, <1>2 DEF InIInv, InTypeOK, ConnectionsInOrder
<1>5. OneAtATime' /\ PacketsFit'
    BY <1>1, <1>2, <1>3 DEF InIInv, OneAtATime, OneAtATimeOn, PacketsFit, PacketFits, AnswerFits,
        HandlingFits
<1>6. \A i \in InIds : IdFits(i)'
    BY <1>1 DEF InIInv, IdFits, IsRouting
<1>7. Accounts' /\ NoErrorIsReported'
    BY <1>1 DEF InIInv, Accounts, FlightsAreDistinct, MadeSoFar, RoutedAtMostOnce,
        AcceptedIsRouted, NoErrorIsReported
<1> QED
    BY <1>4, <1>5, <1>6, <1>7 DEF InIInv

-----------------------------------------------------------------------------
(* The steps of the device                                                   *)

\* An id that is free is used nowhere.
LEMMA FreeId ==
    ASSUME InIInv, NEW i \in InIds, flight[i].phase = "none"
    PROVE  /\ \A c \in Both : /\ ~IsOnItsWay(i, toBroker[c]) /\ ~IsOnItsWay(i, toDevice[c])
                              /\ handling[c].at # "idle" => handling[c].id # i
           /\ i \notin incoming
BY DEF InIInv, PacketsFit, PacketFits, AnswerFits, HandlingFits, IsOnItsWay, IdFits

LEMMA DevicePublishesKeepsIInv ==
    ASSUME InIInv, NEW i \in InIds, DevicePublishes(i)
    PROVE  InIInv'
<1> DEFINE p == Packet("PUBLISH", i, made + 1, TRUE)
           f == [phase |-> "publish", pub |-> made + 1]
<1>1. /\ flight[i] = Nothing /\ made < MaxPubs /\ made' = made + 1
      /\ flight' = [flight EXCEPT ![i] = f]
      /\ toBroker' = [toBroker EXCEPT ![lastConn] = Append(@, p)]
      /\ UNCHANGED <<inconf, incoming, routed, handling, toDevice, lastConn, registered, accepted>>
    BY DEF DevicePublishes
<1>2. made + 1 \in InPubs /\ made + 1 \in 0..MaxPubs /\ made \in Nat /\ flight[i].phase = "none"
    BY <1>1, Shapes, MaxPubsAssumption DEF InIInv, InTypeOK, InPubs
<1>3. p \in Packets /\ p.type = "PUBLISH" /\ p.id = i /\ p.pub = made + 1
    BY <1>2, PublishShape
<1> HIDE DEF p
<1>4. /\ \A c \in Both : /\ ~IsOnItsWay(i, toBroker[c]) /\ ~IsOnItsWay(i, toDevice[c])
                         /\ handling[c].at # "idle" => handling[c].id # i
      /\ i \notin incoming
    BY <1>2, FreeId
<1>5. lastConn \in Both /\ Both' = Both /\ Both \subseteq Conns
    BY <1>1 DEF Both, InIInv, InTypeOK
<1>6. /\ toBroker' \in [Conns -> Seq(Packets)]
      /\ \A d \in Conns : d # lastConn => toBroker'[d] = toBroker[d]
      /\ On(toBroker'[lastConn]) = On(toBroker[lastConn]) \cup {p}
      /\ OncePerId(toBroker'[lastConn])
    <2>1. toBroker \in [Conns -> Seq(Packets)] /\ OncePerId(toBroker[lastConn])
        BY <1>5 DEF InIInv, InTypeOK, OneAtATime, OneAtATimeOn
    <2> QED
        BY <1>1, <1>3, <1>4, <1>5, <2>1, OnAppend
<1>7. /\ f \in [phase : {"publish", "release"}, pub : InPubs]
      /\ f.phase = "publish" /\ f.pub = made + 1
    BY <1>2
<1> HIDE DEF f
<1>8. /\ flight' \in [InIds -> {Nothing} \cup [phase : {"publish", "release"}, pub : InPubs]]
      /\ flight'[i] = f /\ \A j \in InIds : j # i => flight'[j] = flight[j]
    BY <1>1, <1>7 DEF InIInv, InTypeOK
<1>9. InTypeOK'
    BY <1>1, <1>2, <1>6, <1>8 DEF InIInv, InTypeOK
<1>10. ConnectionsInOrder'
    BY <1>1, <1>5, <1>6 DEF InIInv, ConnectionsInOrder, InTypeOK, Conns
<1>11. OneAtATime'
    <2>1. \A j : IsOnItsWay(j, toBroker'[lastConn]) => IsOnItsWay(j, toBroker[lastConn]) \/ j = i
        BY <1>3, <1>6 DEF IsOnItsWay
    <2>2. OneAtATimeOn(lastConn)'
        BY <1>1, <1>4, <1>5, <1>6, <2>1 DEF InIInv, OneAtATime, OneAtATimeOn
    <2>3. \A d \in Conns : d # lastConn /\ OneAtATimeOn(d) => OneAtATimeOn(d)'
        BY <1>1, <1>6 DEF OneAtATimeOn
    <2> QED
        BY <1>1, <1>5, <2>2, <2>3 DEF InIInv, OneAtATime
<1>12. PacketsFit'
    <2>1. \A c \in Both : /\ \A q \in On(toBroker[c]) : q \in Packets /\ q.id # i
                          /\ \A q \in On(toDevice[c]) : q \in Packets /\ q.id # i
        BY <1>4, <1>5 DEF InIInv, InTypeOK, IsOnItsWay, On
    <2>2. \A q \in Packets : q.id \in InIds
        BY DEF Packets
    <2>3. \A c \in Both : handling[c].at # "idle" => handling[c].id \in InIds
        BY <1>5, Shapes DEF InIInv
    <2> QED
        BY <1>1, <1>3, <1>4, <1>5, <1>6, <1>7, <1>8, <2>1, <2>2, <2>3
            DEF InIInv, PacketsFit, PacketFits, AnswerFits, HandlingFits
<1>13. made + 1 \notin accepted /\ routed[made + 1] = 0
    BY <1>2 DEF InIInv, Accounts, MadeSoFar
<1>14. \A j \in InIds : IdFits(j)'
    <2>1. IdFits(i)'
        BY <1>1, <1>4, <1>7, <1>8, <1>13 DEF IdFits
    <2>2. \A j \in InIds : j # i /\ IdFits(j) => IdFits(j)'
        BY <1>1, <1>8 DEF IdFits, IsRouting
    <2> QED
        BY <2>1, <2>2 DEF InIInv
<1>15. Accounts' /\ NoErrorIsReported'
    <2>1. \A j \in InIds : flight[j].phase # "none" => flight[j].pub <= made /\ flight[j].pub \in InPubs
        BY Shapes DEF InIInv, Accounts, MadeSoFar
    <2>2. InPubs \subseteq Nat /\ accepted \subseteq InPubs
        BY DEF InPubs, InIInv, InTypeOK
    <2>3. FlightsAreDistinct'
        BY <1>2, <1>7, <1>8, <2>1, <2>2 DEF InIInv, Accounts, FlightsAreDistinct
    <2>4. MadeSoFar'
        <3>1. \A j \in InIds : flight'[j].phase # "none" => flight'[j].pub <= made + 1
            <4> SUFFICES ASSUME NEW j \in InIds, flight'[j].phase # "none"
                         PROVE  flight'[j].pub <= made + 1
                OBVIOUS
            <4>1. CASE j = i
                BY <1>2, <1>7, <1>8, <4>1
            <4>2. CASE j # i
                <5>1. flight'[j] = flight[j]
                    BY <1>8, <4>2
                <5>2. flight[j].pub <= made /\ flight[j].pub \in Nat
                    BY <2>1, <2>2, <5>1
                <5> QED
                    BY <1>2, <5>1, <5>2
            <4> QED
                BY <4>1, <4>2
        <3>2. \A q \in accepted : q <= made + 1
            BY <1>2, <2>2 DEF InIInv, Accounts, MadeSoFar
        <3>3. \A q \in InPubs : q > made + 1 => routed[q] = 0
            BY <1>2, <2>2 DEF InIInv, Accounts, MadeSoFar
        <3> QED
            BY <1>1, <3>1, <3>2, <3>3 DEF MadeSoFar
    <2> QED
        BY <1>1, <2>3, <2>4 DEF InIInv, Accounts, RoutedAtMostOnce, AcceptedIsRouted,
            NoErrorIsReported
<1> QED
    BY <1>9, <1>10, <1>11, <1>12, <1>14, <1>15 DEF InIInv

\* An answer that the device takes from its connection, which is then registered.
LEMMA TakenAnswer ==
    ASSUME InIInv, toDevice[lastConn] # <<>>,
           toDevice' = [toDevice EXCEPT ![lastConn] = Tail(@)]
    PROVE  LET p == Head(toDevice[lastConn])
           IN  /\ registered = lastConn /\ Both = {lastConn} /\ lastConn \in Conns
               /\ p \in Packets /\ p.id \in InIds /\ AnswerFits(p)
               /\ ~IsOnItsWay(p.id, toBroker[lastConn])
               /\ handling[lastConn].at # "idle" => handling[lastConn].id # p.id
               /\ toDevice' \in [Conns -> Seq(Packets)]
               /\ \A d \in Conns : d # lastConn => toDevice'[d] = toDevice[d]
               /\ On(toDevice'[lastConn]) \subseteq On(toDevice[lastConn])
               /\ OncePerId(toDevice'[lastConn]) /\ ~IsOnItsWay(p.id, toDevice'[lastConn])
<1> DEFINE p == Head(toDevice[lastConn])
<1>1. /\ registered = lastConn /\ Both = {lastConn} /\ lastConn \in Conns
      /\ toDevice \in [Conns -> Seq(Packets)]
    BY DEF InIInv, InTypeOK, ConnectionsInOrder, Both
<1>2. /\ toDevice' \in [Conns -> Seq(Packets)] /\ toDevice'[lastConn] = Tail(toDevice[lastConn])
      /\ \A d \in Conns : d # lastConn => toDevice'[d] = toDevice[d]
    BY <1>1, OnTail
<1>3. OneAtATimeOn(lastConn)
    BY <1>1 DEF InIInv, OneAtATime
<1>4. /\ p \in Packets /\ p \in On(toDevice[lastConn])
      /\ On(toDevice'[lastConn]) \subseteq On(toDevice[lastConn])
      /\ OncePerId(toDevice'[lastConn]) /\ ~IsOnItsWay(p.id, toDevice'[lastConn])
    BY <1>1, <1>2, <1>3, OnTail DEF OneAtATimeOn
<1>5. p.id \in InIds /\ AnswerFits(p)
    BY <1>1, <1>4 DEF Packets, InIInv, PacketsFit
<1>6. IsOnItsWay(p.id, toDevice[lastConn])
    BY <1>4 DEF IsOnItsWay
<1>7. /\ ~IsOnItsWay(p.id, toBroker[lastConn])
      /\ handling[lastConn].at # "idle" => handling[lastConn].id # p.id
    BY <1>3, <1>5, <1>6 DEF OneAtATimeOn
<1> QED
    BY <1>1, <1>2, <1>4, <1>5, <1>7

LEMMA DeviceGetsPubRecKeepsIInv ==
    ASSUME InIInv, DeviceGetsPubRec
    PROVE  InIInv'
<1> DEFINE p == Head(toDevice[lastConn])
           answer == Packet("PUBREL", p.id, 0, TRUE)
<1>1. /\ toDevice[lastConn] # <<>> /\ p.type = "PUBREC"
      /\ toDevice' = [toDevice EXCEPT ![lastConn] = Tail(@)]
      /\ UNCHANGED <<inconf, incoming, routed, handling, lastConn, registered, made>>
    BY DEF DeviceGetsPubRec
<1>2. /\ registered = lastConn /\ Both = {lastConn} /\ lastConn \in Conns
      /\ p.id \in InIds /\ AnswerFits(p)
      /\ ~IsOnItsWay(p.id, toBroker[lastConn])
      /\ handling[lastConn].at # "idle" => handling[lastConn].id # p.id
      /\ toDevice' \in [Conns -> Seq(Packets)]
      /\ \A d \in Conns : d # lastConn => toDevice'[d] = toDevice[d]
      /\ On(toDevice'[lastConn]) \subseteq On(toDevice[lastConn])
      /\ OncePerId(toDevice'[lastConn]) /\ ~IsOnItsWay(p.id, toDevice'[lastConn])
    BY <1>1, TakenAnswer
<1>3. flight[p.id].phase = "publish" /\ p.id \in incoming /\ p.ok = TRUE
    BY <1>1, <1>2 DEF AnswerFits
<1>4. /\ flight' = [flight EXCEPT ![p.id].phase = "release"]
      /\ accepted' = accepted \cup {flight[p.id].pub}
      /\ toBroker' = [toBroker EXCEPT ![lastConn] = Append(@, answer)]
    BY <1>3 DEF DeviceGetsPubRec
<1>5. answer \in Packets /\ answer.type = "PUBREL" /\ answer.id = p.id
    BY <1>2, ShortPacketShape DEF PacketTypes
<1> HIDE DEF answer, p
<1>6. /\ toBroker' \in [Conns -> Seq(Packets)]
      /\ \A d \in Conns : d # lastConn => toBroker'[d] = toBroker[d]
      /\ On(toBroker'[lastConn]) = On(toBroker[lastConn]) \cup {answer}
      /\ OncePerId(toBroker'[lastConn])
    <2>1. toBroker \in [Conns -> Seq(Packets)] /\ OncePerId(toBroker[lastConn])
        BY <1>2 DEF InIInv, InTypeOK, OneAtATime, OneAtATimeOn
    <2> QED
        BY <1>2, <1>4, <1>5, <2>1, OnAppend
<1>7. /\ flight' \in [InIds -> {Nothing} \cup [phase : {"publish", "release"}, pub : InPubs]]
      /\ flight'[p.id].phase = "release" /\ flight'[p.id].pub = flight[p.id].pub
      /\ flight[p.id].pub \in InPubs
      /\ \A j \in InIds : j # p.id => flight'[j] = flight[j]
    <2>1. flight[p.id] \in [phase : {"publish", "release"}, pub : InPubs]
        BY <1>2, <1>3, Shapes DEF InIInv, InTypeOK
    <2>2. flight' = [flight EXCEPT ![p.id] = [flight[p.id] EXCEPT !.phase = "release"]]
        BY <1>4
    <2> QED
        BY <1>2, <2>1, <2>2 DEF InIInv, InTypeOK
<1>8. InTypeOK'
    BY <1>1, <1>2, <1>4, <1>6, <1>7 DEF InIInv, InTypeOK
<1>9. ConnectionsInOrder'
    BY <1>1, <1>2, <1>6 DEF InIInv, ConnectionsInOrder, InTypeOK, Conns
<1>10. OneAtATime'
    <2>1. /\ \A j : IsOnItsWay(j, toBroker'[lastConn]) =>
                        IsOnItsWay(j, toBroker[lastConn]) \/ j = p.id
          /\ \A j : IsOnItsWay(j, toDevice'[lastConn]) =>
                        IsOnItsWay(j, toDevice[lastConn]) /\ j # p.id
        BY <1>2, <1>5, <1>6 DEF IsOnItsWay
    <2> QED
        BY <1>1, <1>2, <1>6, <2>1 DEF InIInv, OneAtATime, OneAtATimeOn, Both
<1>11. PacketsFit'
    <2>1. /\ \A q \in On(toBroker[lastConn]) : q.id # p.id
          /\ \A q \in On(toDevice'[lastConn]) : q.id # p.id
        BY <1>2 DEF IsOnItsWay
    <2>2. /\ \A q \in On(toBroker[lastConn]) : q.id \in InIds
          /\ \A q \in On(toDevice'[lastConn]) : q.id \in InIds
        BY <1>2, OnPackets DEF InIInv, InTypeOK
    <2>3. handling[lastConn].at # "idle" => handling[lastConn].id \in InIds
        BY <1>2, Shapes DEF InIInv
    <2> QED
        <3>1. \A q \in On(toBroker'[lastConn]) : PacketFits(q)'
            BY <1>2, <1>5, <1>6, <1>7, <2>1, <2>2 DEF InIInv, PacketsFit, PacketFits
        <3>2. \A q \in On(toDevice'[lastConn]) : AnswerFits(q)'
            BY <1>1, <1>2, <1>7, <2>1, <2>2 DEF InIInv, PacketsFit, AnswerFits
        <3>3. handling[lastConn].at # "idle" => HandlingFits(handling[lastConn])'
            BY <1>1, <1>2, <1>7, <2>3 DEF InIInv, PacketsFit, HandlingFits
        <3> QED
            BY <1>1, <1>2, <3>1, <3>2, <3>3 DEF PacketsFit, Both
<1>12. ~IsRouting(p.id)
    BY <1>2 DEF InIInv, ConnectionsInOrder, IsRouting
<1>13. \A j \in InIds : IdFits(j)'
    <2> PICK i \in InIds : i = p.id
        BY <1>2
    <2>1. IdFits(i)'
        BY <1>7 DEF IdFits
    <2>2. \A j \in InIds : j # i /\ flight[j].phase = "publish" => flight[j].pub # flight[i].pub
        BY <1>2, <1>3 DEF InIInv, Accounts, FlightsAreDistinct
    <2>3. \A j \in InIds : j # i /\ IdFits(j) => IdFits(j)'
        BY <1>1, <1>4, <1>7, <2>2 DEF IdFits, IsRouting
    <2> QED
        BY <2>1, <2>3 DEF InIInv
<1>14. flight[p.id].pub <= made
       /\ (flight[p.id].pub \notin inconf.refused => routed[flight[p.id].pub] = 1)
    BY <1>2, <1>3, <1>12 DEF InIInv, Accounts, MadeSoFar, IdFits
<1>15. Accounts' /\ NoErrorIsReported'
    <2>1. FlightsAreDistinct'
        BY <1>2, <1>3, <1>7 DEF InIInv, Accounts, FlightsAreDistinct
    <2>2. MadeSoFar'
        BY <1>1, <1>2, <1>3, <1>4, <1>7, <1>14 DEF InIInv, Accounts, MadeSoFar
    <2> QED
        BY <1>1, <1>4, <1>14, <2>1, <2>2 DEF InIInv, Accounts, RoutedAtMostOnce,
            AcceptedIsRouted, NoErrorIsReported
<1> QED
    BY <1>8, <1>9, <1>10, <1>11, <1>13, <1>15 DEF InIInv

LEMMA DeviceGetsPubCompKeepsIInv ==
    ASSUME InIInv, DeviceGetsPubComp
    PROVE  InIInv'
<1> DEFINE p == Head(toDevice[lastConn])
<1>1. /\ toDevice[lastConn] # <<>> /\ p.type = "PUBCOMP"
      /\ toDevice' = [toDevice EXCEPT ![lastConn] = Tail(@)]
      /\ flight' = [flight EXCEPT ![p.id] = IF @.phase = "release" THEN Nothing ELSE @]
      /\ UNCHANGED <<inconf, incoming, routed, handling, toBroker, lastConn, registered, made,
                     accepted>>
    BY DEF DeviceGetsPubComp
<1>2. /\ registered = lastConn /\ Both = {lastConn} /\ lastConn \in Conns
      /\ p.id \in InIds /\ AnswerFits(p)
      /\ ~IsOnItsWay(p.id, toBroker[lastConn])
      /\ handling[lastConn].at # "idle" => handling[lastConn].id # p.id
      /\ toDevice' \in [Conns -> Seq(Packets)]
      /\ \A d \in Conns : d # lastConn => toDevice'[d] = toDevice[d]
      /\ On(toDevice'[lastConn]) \subseteq On(toDevice[lastConn])
      /\ OncePerId(toDevice'[lastConn]) /\ ~IsOnItsWay(p.id, toDevice'[lastConn])
    BY <1>1, TakenAnswer
<1>3. flight[p.id].phase = "release" /\ p.id \notin incoming
    BY <1>1, <1>2 DEF AnswerFits
<1> HIDE DEF p
<1>4. /\ flight' \in [InIds -> {Nothing} \cup [phase : {"publish", "release"}, pub : InPubs]]
      /\ flight'[p.id] = Nothing /\ flight'[p.id].phase = "none"
      /\ \A j \in InIds : j # p.id => flight'[j] = flight[j]
    BY <1>1, <1>2, <1>3, Shapes DEF InIInv, InTypeOK
<1>5. InTypeOK'
    BY <1>1, <1>2, <1>4 DEF InIInv, InTypeOK
<1>6. ConnectionsInOrder'
    BY <1>1, <1>2 DEF InIInv, ConnectionsInOrder, InTypeOK
<1>7. OneAtATime'
    <2>1. \A j : IsOnItsWay(j, toDevice'[lastConn]) => IsOnItsWay(j, toDevice[lastConn])
        BY <1>2 DEF IsOnItsWay
    <2> QED
        BY <1>1, <1>2, <2>1 DEF InIInv, OneAtATime, OneAtATimeOn, Both
<1>8. PacketsFit'
    <2>1. /\ \A q \in On(toBroker[lastConn]) : q.id # p.id
          /\ \A q \in On(toDevice'[lastConn]) : q.id # p.id
        BY <1>2 DEF IsOnItsWay
    <2>2. /\ \A q \in On(toBroker[lastConn]) : q.id \in InIds
          /\ \A q \in On(toDevice'[lastConn]) : q.id \in InIds
        BY <1>2, OnPackets DEF InIInv, InTypeOK
    <2>3. handling[lastConn].at # "idle" => handling[lastConn].id \in InIds
        BY <1>2, Shapes DEF InIInv
    <2> QED
        BY <1>1, <1>2, <1>4, <2>1, <2>2, <2>3
            DEF InIInv, PacketsFit, PacketFits, AnswerFits, HandlingFits, Both
<1>9. \A j \in InIds : IdFits(j)'
    <2> PICK i \in InIds : i = p.id
        BY <1>2
    <2>1. IdFits(i)'
        BY <1>1, <1>3, <1>4 DEF IdFits
    <2>2. \A j \in InIds : j # i /\ IdFits(j) => IdFits(j)'
        BY <1>1, <1>4 DEF IdFits, IsRouting
    <2> QED
        BY <2>1, <2>2 DEF InIInv
<1>10. Accounts' /\ NoErrorIsReported'
    <2>1. FlightsAreDistinct' /\ MadeSoFar'
        BY <1>1, <1>2, <1>4 DEF InIInv, Accounts, FlightsAreDistinct, MadeSoFar
    <2> QED
        BY <1>1, <2>1 DEF InIInv, Accounts, RoutedAtMostOnce, AcceptedIsRouted, NoErrorIsReported
<1> QED
    BY <1>5, <1>6, <1>7, <1>8, <1>9, <1>10 DEF InIInv

LEMMA DeviceReconnectsKeepsIInv ==
    ASSUME InIInv, DeviceReconnects
    PROVE  InIInv'
<1> DEFINE open == {i \in InIds : flight[i] # Nothing}
           new == lastConn + 1
<1>1. PICK order \in SetToSeqs(open) :
          toBroker' = [toBroker EXCEPT ![new] = [n \in DOMAIN order |-> Again(order[n])]]
    BY DEF DeviceReconnects
<1> DEFINE sent == [n \in DOMAIN order |-> Again(order[n])]
<1>2. /\ lastConn < MaxConns /\ lastConn' = new
      /\ toDevice' = [toDevice EXCEPT ![lastConn] = <<>>]
      /\ UNCHANGED <<inconf, incoming, routed, handling, registered, flight, made, accepted>>
    BY DEF DeviceReconnects
<1>3. \A i \in open : /\ Again(i) \in Packets /\ Again(i).id = i
                      /\ PacketFits(Again(i))
    <2> SUFFICES ASSUME NEW i \in open
                 PROVE  Again(i) \in Packets /\ Again(i).id = i /\ PacketFits(Again(i))
        OBVIOUS
    <2>1. i \in InIds /\ flight[i].phase \in {"publish", "release"} /\ flight[i].pub \in InPubs
        BY Shapes DEF InIInv
    <2>2. CASE flight[i].phase = "publish"
        <3>1. Again(i) = Packet("PUBLISH", i, flight[i].pub, TRUE)
            BY <2>2 DEF Again
        <3> QED
            <4>1. /\ Again(i) \in Packets /\ Again(i).type = "PUBLISH"
                  /\ Again(i).id = i /\ Again(i).pub = flight[i].pub
                <5> DEFINE q == Packet("PUBLISH", i, flight[i].pub, TRUE)
                <5>1. q \in Packets /\ q.type = "PUBLISH" /\ q.id = i /\ q.pub = flight[i].pub
                    BY <2>1, PublishShape
                <5> HIDE DEF q
                <5> QED
                    BY <3>1, <5>1 DEF q
            <4> QED
                BY <2>2, <4>1 DEF PacketFits
    <2>3. CASE flight[i].phase = "release"
        <3>1. Again(i) = Packet("PUBREL", i, 0, TRUE)
            BY <2>3 DEF Again
        <3> QED
            <4>1. Again(i) \in Packets /\ Again(i).type = "PUBREL" /\ Again(i).id = i
                <5> DEFINE q == Packet("PUBREL", i, 0, TRUE)
                <5>1. q \in Packets /\ q.type = "PUBREL" /\ q.id = i
                    BY <2>1, ShortPacketShape DEF PacketTypes
                <5> HIDE DEF q
                <5> QED
                    BY <3>1, <5>1 DEF q
            <4> QED
                BY <2>3, <4>1 DEF PacketFits
    <2> QED
        BY <2>1, <2>2, <2>3
<1>4. /\ sent \in Seq(Packets) /\ OncePerId(sent)
      /\ \A q \in On(sent) : PacketFits(q)
    BY <1>3, OnAgain
<1> HIDE DEF sent, open
<1>5. /\ new \in Conns /\ lastConn \in Conns /\ registered \in Conns /\ registered # new
      /\ registered <= new
    BY <1>2, MaxConnsAssumption DEF InIInv, InTypeOK, ConnectionsInOrder, Conns
<1>6. /\ toBroker' \in [Conns -> Seq(Packets)] /\ toBroker'[new] = sent
      /\ \A d \in Conns : d # new => toBroker'[d] = toBroker[d]
    BY <1>1, <1>4, <1>5 DEF InIInv, InTypeOK, sent
<1>7. toDevice' \in [Conns -> Seq(Packets)] /\ \A d \in Conns : toDevice'[d] = <<>>
    BY <1>2, <1>5, OnNone DEF InIInv, InTypeOK, ConnectionsInOrder
<1>8. handling[new].at = "idle"
    BY <1>5 DEF InIInv, ConnectionsInOrder
<1>9. InTypeOK'
    BY <1>2, <1>5, <1>6, <1>7 DEF InIInv, InTypeOK
<1>10. ConnectionsInOrder'
    BY <1>2, <1>5, <1>6, <1>7 DEF InIInv, InTypeOK, ConnectionsInOrder, Conns
<1>11. OneAtATime'
    <2>1. \A i : ~IsOnItsWay(i, <<>>)
        BY OnNone DEF IsOnItsWay
    <2> QED
        BY <1>2, <1>4, <1>5, <1>6, <1>7, <1>8, <2>1, OnNone
            DEF InIInv, OneAtATime, OneAtATimeOn, Both
<1>12. PacketsFit'
    BY <1>2, <1>4, <1>5, <1>6, <1>7, <1>8, OnNone
        DEF InIInv, PacketsFit, PacketFits, HandlingFits, Both
<1>13. \A i \in InIds : IdFits(i)'
    BY <1>2 DEF InIInv, IdFits, IsRouting
<1>14. Accounts' /\ NoErrorIsReported'
    BY <1>2 DEF InIInv, Accounts, FlightsAreDistinct, MadeSoFar, RoutedAtMostOnce,
        AcceptedIsRouted, NoErrorIsReported
<1> QED
    BY <1>9, <1>10, <1>11, <1>12, <1>13, <1>14 DEF InIInv

-----------------------------------------------------------------------------
(* Exactly once                                                              *)

LEMMA InInitIInv ==
    ASSUME InInit, Mqtt5Choices \subseteq {FALSE} \/ RefusedChoices \subseteq {{}}
    PROVE  InIInv
<1>1. /\ inconf \in [mqtt5 : Mqtt5Choices, refused : RefusedChoices] /\ incoming = {}
      /\ routed = [p \in InPubs |-> 0] /\ handling = [c \in Conns |-> NotHandling]
      /\ toBroker = [c \in Conns |-> <<>>] /\ toDevice = [c \in Conns |-> <<>>]
      /\ lastConn = 1 /\ registered = 1 /\ flight = [i \in InIds |-> Nothing]
      /\ made = 0 /\ accepted = {}
    BY DEF InInit
<1>2. 1 \in Conns /\ 0 \in 0..MaxPubs
    BY MaxPubsAssumption, MaxConnsAssumption DEF Conns
<1>3. InTypeOK
    BY <1>1, <1>2, OnNone DEF InTypeOK
<1>4. /\ \A c \in Conns : handling[c].at = "idle" /\ toBroker[c] = <<>> /\ toDevice[c] = <<>>
      /\ \A i \in InIds : flight[i].phase = "none"
    BY <1>1 DEF NotHandling, Nothing
<1>5. NoErrorIsReported
    BY <1>1 DEF NoErrorIsReported
<1>6. Both \subseteq Conns
    BY <1>1, <1>2 DEF Both
<1>7. ConnectionsInOrder
    BY <1>1, <1>4 DEF ConnectionsInOrder
<1>8. OneAtATime /\ PacketsFit
    BY <1>4, <1>6, OnNone DEF OneAtATime, OneAtATimeOn, IsOnItsWay, PacketsFit
<1>9. \A i \in InIds : IdFits(i)
    BY <1>1, <1>4 DEF IdFits
<1>10. Accounts
    BY <1>1, <1>4 DEF Accounts, FlightsAreDistinct, MadeSoFar, RoutedAtMostOnce, AcceptedIsRouted
<1> QED
    BY <1>3, <1>5, <1>7, <1>8, <1>9, <1>10 DEF InIInv

LEMMA InStepKeepsIInv ==
    ASSUME InIInv, ~InThreads, [InNext]_inVars
    PROVE  InIInv'
<1>1. CASE UNCHANGED inVars
    BY <1>1 DEF inVars, InIInv, InTypeOK, NoErrorIsReported, ConnectionsInOrder, OneAtATime,
        OneAtATimeOn, PacketsFit, PacketFits, AnswerFits, HandlingFits, IdFits, IsRouting, Both,
        Accounts, FlightsAreDistinct, MadeSoFar, RoutedAtMostOnce, AcceptedIsRouted
<1>2. ASSUME NEW c \in Conns, HandlerStep(c) PROVE InIInv'
    BY <1>2, CheckInTransitKeepsIInv, addIncomingKeepsIInv, RouteAndAcknowledgeKeepsIInv,
        AcknowledgeDuplicateKeepsIInv, HandlePubRelKeepsIInv, DropStaleKeepsIInv
        DEF HandlerStep
<1> QED
    BY <1>1, <1>2, DevicePublishesKeepsIInv, RegisterKeepsIInv, DeviceGetsPubRecKeepsIInv,
        DeviceGetsPubCompKeepsIInv, DeviceReconnectsKeepsIInv
        DEF InNext

\* The broker takes over each publish of a device exactly once, whatever is sent
\* again on whatever connection, and keeps no id behind, provided that one thread
\* handles a take-over (mqttpacket.cpp:2164, 2411; session.cpp:466) and that no PUBREC
\* reports an error: before MQTT 5, or where nothing is refused.
THEOREM ExactlyOnceHolds ==
    ASSUME ~InThreads, Mqtt5Choices \subseteq {FALSE} \/ RefusedChoices \subseteq {{}}
    PROVE  InSpec => [](InTypeOK /\ ExactlyOnce)
<1>1. InInit => InIInv
    BY InInitIInv
<1>2. InIInv /\ [InNext]_inVars => InIInv'
    BY InStepKeepsIInv
<1>3. InIInv => InTypeOK /\ ExactlyOnce
    <2>1. ASSUME InIInv PROVE NoIdIsKept
        <3>1. \A i \in incoming : i \in InIds /\ flight[i].phase # "none"
            BY <2>1 DEF InIInv, InTypeOK, IdFits
        <3>2. \A i \in InIds : flight[i] = Nothing <=> flight[i].phase = "none"
            BY <2>1, Shapes DEF InIInv
        <3> QED
            BY <3>1, <3>2 DEF NoIdIsKept
    <2> QED
        BY <2>1 DEF InIInv, Accounts, ExactlyOnce
<1> QED
    BY <1>1, <1>2, <1>3, PTL DEF InSpec

=============================================================================
