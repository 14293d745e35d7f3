--------------------------- MODULE ConnectionProofs ---------------------------
(* What a connection promises, for any number of packets, topics, clients and  *)
(* worker threads: a copied publish is what its receiver was promised, a login *)
(* is handled in the order it was sent, and the aliases and the wish to write  *)
(* of an output buffer agree with what the client and epoll know.              *)
EXTENDS PublishCopies, ClientLogin, ClientOutput, SequenceTheorems, WellFoundedInduction, TLAPS

-----------------------------------------------------------------------------
(* Copies of a publish: what is written for one receiver has nothing of another *)

CopyPackets ==
    [layout : {10, 11, 20, 21}, qos : 0..2, retain : BOOLEAN, dup : BOOLEAN,
     topic : {"topic", "changed", "none", "override"}, alias : {"no", "first", "known"},
     subId : {0, 1}, id : Nat]

IdFor(qos, r) == IF qos > 0 THEN r ELSE 0
Copy(layout, qos, retain, topic, alias, subId, id) ==
    [layout |-> layout, qos |-> qos, retain |-> retain, dup |-> FALSE,
     topic |-> topic, alias |-> alias, subId |-> subId, id |-> id]

\* A packet that any receiver of its layout may get, once it is stamped.
Shareable(p, key) ==
    /\ p \in CopyPackets
    /\ p.layout = key /\ (p.qos > 0 <=> key \in {11, 21})
    /\ p.topic = factory.topic /\ p.alias = "no" /\ p.subId = 0 /\ ~p.dup
    /\ p.qos = 0 => p.id = 0

\* Before there is a factory nothing was written.
NothingBefore ==
    ~factory.made =>
        /\ written = <<>> /\ stored = <<>> /\ cache = <<>>
        /\ packet = Incoming(origin) /\ factory.topic = "topic"

FactoryIsRight ==
    /\ factory \in [made : BOOLEAN, orgQos : 0..2, orgRetain : BOOLEAN,
                    topic : {"topic", "changed"}, reusable : BOOLEAN]
    /\ factory.reusable => origin.fromClient
    /\ factory.made /\ factory.reusable => Shareable(packet, LayoutKey(origin.mqtt5, factory.orgQos))

CacheIsRight ==
    /\ DOMAIN cache \subseteq {10, 11, 20, 21}
    /\ \A key \in DOMAIN cache : Shareable(cache[key], key)

StoredIsRight ==
    /\ DOMAIN stored \subseteq Receivers /\ DOMAIN written \subseteq Receivers
    /\ \A r \in DOMAIN stored :
          stored[r] = NewPublish(kindOf[r], getEffectiveQos(kindOf[r].maxQos))

CopyIInv ==
    /\ CopyTypeOK /\ NothingBefore /\ FactoryIsRight /\ CacheIsRight /\ StoredIsRight
    /\ CopiesAreExact

LEMMA LayoutsOf ==
    ASSUME NEW mqtt5 \in BOOLEAN, NEW qos \in 0..2
    PROVE  /\ LayoutKey(mqtt5, qos) \in {10, 11, 20, 21}
           /\ LayoutKey(mqtt5, qos) \in {11, 21} <=> qos > 0
           /\ \A m \in BOOLEAN, q \in 0..2 :
                 LayoutKey(mqtt5, qos) = LayoutKey(m, q) => mqtt5 = m /\ (qos > 0 <=> q > 0)
BY DEF LayoutKey

LEMMA KindsAreTyped ==
    ASSUME CopyTypeOK, NEW r \in Receivers
    PROVE  /\ kindOf[r] \in [mqtt5 : BOOLEAN, maxQos : 0..2, asPublished : BOOLEAN,
                             retains : BOOLEAN, alias : {"no", "first", "known"},
                             subId : {0, 1}, override : BOOLEAN, online : BOOLEAN]
           /\ ~kindOf[r].mqtt5 => kindOf[r].alias = "no"
           /\ r \in Nat /\ r > 1
<1>1. kindOf[r] \in ReceiverKinds
    BY DEF CopyTypeOK
<1>2. r \in Nat /\ r > 1
    BY ReceiverAssumption
<1> QED
    BY <1>1, <1>2, ReceiverAssumption

LEMMA EffectiveQos ==
    ASSUME NEW maxQos \in 0..2, NEW q \in 0..2
    PROVE  LowerQos(q, maxQos) \in 0..2
BY DEF LowerQos

LEMMA CopyInitIInv ==
    CopyInit => CopyIInv
<1> SUFFICES ASSUME CopyInit PROVE CopyIInv
    OBVIOUS
<1>1. DOMAIN cache = {} /\ DOMAIN written = {} /\ DOMAIN stored = {}
    BY DEF CopyInit
<1>2. CopyTypeOK
    BY <1>1 DEF CopyInit, CopyTypeOK
<1>3. NothingBefore /\ FactoryIsRight
    BY DEF CopyInit, NothingBefore, FactoryIsRight
<1>4. CacheIsRight /\ StoredIsRight /\ CopiesAreExact
    BY <1>1 DEF CacheIsRight, StoredIsRight, CopiesAreExact
<1> QED
    BY <1>2, <1>3, <1>4 DEF CopyIInv

LEMMA IncomingIsShareable ==
    ASSUME NEW o \in Origins
    PROVE  /\ Incoming(o) \in CopyPackets
           /\ Incoming(o).layout = LayoutKey(o.mqtt5, o.qos)
           /\ Incoming(o).qos = o.qos /\ Incoming(o).topic = "topic" /\ Incoming(o).alias = "no"
           /\ Incoming(o).subId = 0 /\ (o.qos = 0 => Incoming(o).id = 0)
<1>1. LayoutKey(o.mqtt5, o.qos) \in {10, 11, 20, 21}
    BY LayoutsOf DEF Origins
<1> QED
    BY <1>1 DEF Incoming, Origins, CopyPackets, OriginalId

LEMMA HandlePublishKeepsIInv ==
    ASSUME CopyIInv, NEW change \in PluginChanges, handlePublish(change)
    PROVE  CopyIInv'
<1> DEFINE changed == origin.prefixed \/ change = "topic"
           qos == IF change = "qos" THEN (origin.qos + 1) % 3 ELSE origin.qos
           retain == origin.retain # (change = "retain")
           kept == retain /\ origin.mode # "Downgrade"
<1>0. origin \in Origins /\ factory.made = FALSE
    BY DEF CopyIInv, CopyTypeOK, handlePublish, FactoryIsRight
<1>1. packet = Incoming(origin) /\ written = <<>> /\ stored = <<>> /\ cache = <<>>
    BY <1>0 DEF CopyIInv, NothingBefore
<1>2. qos \in 0..2 /\ kept \in BOOLEAN
    <2>1. origin.qos \in 0..2
        BY <1>0 DEF Origins
    <2>2. qos \in 0..2
        BY <2>1
    <2>3. kept \in BOOLEAN
        OBVIOUS
    <2> QED
        BY <2>2, <2>3
<1>3. /\ packet' = [packet EXCEPT !.retain = kept, !.dup = FALSE]
      /\ factory' = [made |-> TRUE, orgQos |-> qos, orgRetain |-> kept,
                     topic |-> IF changed THEN "changed" ELSE "topic",
                     reusable |-> ~(origin.aliased \/ changed \/ change = "qos")]
      /\ UNCHANGED <<origin, kindOf, cache, written, stored>>
      /\ origin.fromClient
    BY DEF handlePublish
<1>4. (~(origin.aliased \/ changed \/ change = "qos")) \in BOOLEAN
    OBVIOUS
<1>5. factory' \in [made : BOOLEAN, orgQos : 0..2, orgRetain : BOOLEAN,
                    topic : {"topic", "changed"}, reusable : BOOLEAN]
    BY <1>2, <1>3, <1>4
<1>6. factory'.reusable => Shareable(packet, LayoutKey(origin.mqtt5, factory.orgQos))'
    <2> SUFFICES ASSUME factory'.reusable
                 PROVE  Shareable(packet, LayoutKey(origin.mqtt5, factory.orgQos))'
        OBVIOUS
    <2>1. factory'.orgQos = origin.qos /\ factory'.topic = "topic"
        BY <1>3
    <2>2. /\ packet' \in CopyPackets /\ packet'.layout = LayoutKey(origin.mqtt5, origin.qos)
          /\ packet'.qos = origin.qos /\ packet'.topic = "topic" /\ packet'.alias = "no"
          /\ packet'.subId = 0 /\ ~packet'.dup /\ (origin.qos = 0 => packet'.id = 0)
        BY <1>0, <1>1, <1>2, <1>3, IncomingIsShareable DEF CopyPackets
    <2>3. origin.qos > 0 <=> LayoutKey(origin.mqtt5, origin.qos) \in {11, 21}
        BY <1>0, LayoutsOf DEF Origins
    <2> QED
        BY <1>3, <2>1, <2>2, <2>3 DEF Shareable
<1>7. DOMAIN cache = {} /\ DOMAIN written = {} /\ DOMAIN stored = {}
    BY <1>1
<1>8. CopyTypeOK' /\ NothingBefore' /\ FactoryIsRight'
    BY <1>3, <1>5, <1>6 DEF CopyIInv, CopyTypeOK, NothingBefore, FactoryIsRight
<1>9. CacheIsRight' /\ StoredIsRight' /\ CopiesAreExact'
    BY <1>3, <1>7 DEF CacheIsRight, StoredIsRight, CopiesAreExact
<1> QED
    BY <1>8, <1>9 DEF CopyIInv

LEMMA PublishOfBrokerKeepsIInv ==
    ASSUME CopyIInv, PublishOfBroker
    PROVE  CopyIInv'
<1>1. /\ factory' = [factory EXCEPT !.made = TRUE, !.orgQos = origin.qos, !.orgRetain = origin.retain]
      /\ UNCHANGED <<origin, kindOf, packet, cache, written, stored>>
      /\ ~origin.fromClient /\ ~factory.made
    BY DEF PublishOfBroker
<1>2. origin \in Origins
    BY DEF CopyIInv, CopyTypeOK
<1>3. written = <<>> /\ stored = <<>> /\ cache = <<>>
    BY <1>1 DEF CopyIInv, NothingBefore
<1>4. factory' \in [made : BOOLEAN, orgQos : 0..2, orgRetain : BOOLEAN,
                    topic : {"topic", "changed"}, reusable : BOOLEAN] /\ factory'.made /\ ~factory'.reusable
    BY <1>1, <1>2 DEF CopyIInv, FactoryIsRight, Origins
<1>5. DOMAIN cache = {} /\ DOMAIN written = {} /\ DOMAIN stored = {}
    BY <1>3
<1>6. CopyTypeOK' /\ NothingBefore' /\ FactoryIsRight'
    BY <1>1, <1>4 DEF CopyIInv, CopyTypeOK, NothingBefore, FactoryIsRight
<1>7. CacheIsRight' /\ StoredIsRight' /\ CopiesAreExact'
    BY <1>1, <1>5 DEF CacheIsRight, StoredIsRight, CopiesAreExact
<1> QED
    BY <1>6, <1>7 DEF CopyIInv

-----------------------------------------------------------------------------
LEMMA ConstructedType ==
    ASSUME NEW mqtt5 \in BOOLEAN, NEW qos \in 0..2, NEW alias \in {"no", "first", "known"},
           NEW subId \in {0, 1}, NEW topic \in {"topic", "changed", "override"}
    PROVE  Constructed(mqtt5, qos, alias, subId, topic) \in CopyPackets
<1>1. LayoutKey(mqtt5, qos) \in {10, 11, 20, 21}
    BY LayoutsOf
<1> QED
    BY <1>1 DEF Constructed, CopyPackets

\* What EXCEPT makes of a record.
LEMMA OtherSubId ==
    ASSUME NEW p
    PROVE  [p EXCEPT !.subId = 0] = [x \in DOMAIN p |-> IF x = "subId" THEN 0 ELSE p[x]]
OBVIOUS

\* A copy that differs in its subscription identifier.
LEMMA CopyWithoutId ==
    ASSUME NEW layout, NEW qos, NEW retain, NEW topic, NEW alias, NEW subId, NEW id
    PROVE  [Copy(layout, qos, retain, topic, alias, subId, id) EXCEPT !.subId = 0] =
               Copy(layout, qos, retain, topic, alias, 0, id)
<1> DEFINE p == Copy(layout, qos, retain, topic, alias, subId, id)
           new == Copy(layout, qos, retain, topic, alias, 0, id)
           changed == [p EXCEPT !.subId = 0]
<1>1. /\ p.layout = layout /\ p.qos = qos /\ p.retain = retain /\ p.topic = topic
      /\ p.alias = alias /\ p.id = id /\ new.dup = p.dup
      /\ new.layout = layout /\ new.qos = qos /\ new.retain = retain /\ new.topic = topic
      /\ new.alias = alias /\ new.id = id /\ new.subId = 0
    BY DEF Copy
<1>2. DOMAIN p = {"layout", "qos", "retain", "dup", "topic", "alias", "subId", "id"}
    BY DEF Copy
<1>3. DOMAIN new = DOMAIN p
    BY <1>2 DEF Copy
<1>4. p = [x \in DOMAIN p |-> p[x]] /\ new = [x \in DOMAIN new |-> new[x]]
    BY DEF Copy
<1> HIDE DEF p
<1>5. changed = [x \in DOMAIN p |-> IF x = "subId" THEN 0 ELSE p[x]]
    BY OtherSubId
<1> HIDE DEF new
<1>6. \A x \in DOMAIN p : new[x] = IF x = "subId" THEN 0 ELSE p[x]
    BY <1>1, <1>2
<1> HIDE DEF changed
<1>7. changed = new
    BY <1>3, <1>4, <1>5, <1>6
<1> QED
    BY <1>7 DEF p, new, changed

\* What becomes of a packet of the right layout when it is stamped for a receiver.
LEMMA StampedIsExact ==
    ASSUME NEW p \in CopyPackets, NEW r \in Nat, NEW qos \in 0..2, NEW retain \in BOOLEAN,
           p.qos > 0 <=> qos > 0, p.qos = 0 => p.id = 0, p.dup = FALSE
    PROVE  /\ Stamped(p, r, qos, retain) \in CopyPackets
           /\ Stamped(p, r, qos, retain) =
                Copy(p.layout, qos, retain, p.topic, p.alias, p.subId, IdFor(qos, r))
<1>1. CASE p.qos > 0
    <2>1. Stamped(p, r, qos, retain) = [p EXCEPT !.id = r, !.qos = qos, !.retain = retain]
        BY <1>1 DEF Stamped
    <2> QED
        BY <1>1, <2>1 DEF CopyPackets, Copy, IdFor
<1>2. CASE ~(p.qos > 0)
    <2>1. Stamped(p, r, qos, retain) = [p EXCEPT !.retain = retain]
        BY <1>2 DEF Stamped
    <2>2. p.qos = 0 /\ qos = 0 /\ p.id = 0
        BY <1>2 DEF CopyPackets
    <2>3. IdFor(qos, r) = 0
        BY <2>2 DEF IdFor
    <2> QED
        BY <2>1, <2>2, <2>3 DEF CopyPackets, Copy
<1> QED
    BY <1>1, <1>2

LEMMA StampedForReceiver ==
    ASSUME NEW key \in {10, 11, 20, 21}, NEW p, Shareable(p, key), NEW r \in Nat, NEW qos \in 0..2,
           NEW retain \in BOOLEAN, qos > 0 <=> key \in {11, 21}
    PROVE  Stamped(p, r, qos, retain) =
                Copy(key, qos, retain, factory.topic, "no", 0, IdFor(qos, r))
<1>1. p \in CopyPackets /\ (p.qos > 0 <=> qos > 0) /\ (p.qos = 0 => p.id = 0) /\ p.dup = FALSE
    BY DEF Shareable, CopyPackets
<1>2. Stamped(p, r, qos, retain) =
         Copy(p.layout, qos, retain, p.topic, p.alias, p.subId, IdFor(qos, r))
    BY <1>1, StampedIsExact
<1>3. p.layout = key /\ p.topic = factory.topic /\ p.alias = "no" /\ p.subId = 0
    BY DEF Shareable
<1> QED
    BY <1>2, <1>3

LEMMA StampedStaysShareable ==
    ASSUME NEW key \in {10, 11, 20, 21}, NEW p, Shareable(p, key), NEW r \in Nat, NEW qos \in 0..2,
           NEW retain \in BOOLEAN, qos > 0 <=> key \in {11, 21}
    PROVE  Shareable(Stamped(p, r, qos, retain), key)
<1>1. p \in CopyPackets /\ (p.qos > 0 <=> qos > 0) /\ (p.qos = 0 => p.id = 0) /\ p.dup = FALSE
    BY DEF Shareable, CopyPackets
<1>2. Stamped(p, r, qos, retain) =
                Copy(key, qos, retain, factory.topic, "no", 0, IdFor(qos, r))
    BY StampedForReceiver
<1>3. Stamped(p, r, qos, retain) \in CopyPackets
    BY <1>1, StampedIsExact
<1>4. LET q == Copy(key, qos, retain, factory.topic, "no", 0, IdFor(qos, r)) IN
      /\ q.layout = key /\ q.qos = qos /\ q.topic = factory.topic /\ q.alias = "no" /\ q.subId = 0
      /\ q.dup = FALSE /\ q.id = IdFor(qos, r)
    BY DEF Copy
<1>5. qos = 0 => IdFor(qos, r) = 0
    BY DEF IdFor
<1> QED
    BY <1>2, <1>3, <1>4, <1>5 DEF Shareable

\* A receiver that is written what it was promised, and what is kept for it.
LEMMA WrittenAsPromised ==
    ASSUME CopyIInv, NEW r \in Receivers, NEW p,
           Receives(r, p), UNCHANGED <<origin, kindOf, factory>>,
           stored' = stored \/ (/\ r \notin DOMAIN stored
                               /\ stored' = With(stored, r, NewPublish(kindOf[r],
                                                         getEffectiveQos(kindOf[r].maxQos)))),
           \/ p = Promised(r)
           \/ ~origin.fromClient /\ r \in DOMAIN stored /\ p = [Promised(r) EXCEPT !.subId = 0]
    PROVE  StoredIsRight' /\ CopiesAreExact'
<1>1. DOMAIN stored \subseteq DOMAIN stored'
    BY DEF With
<1>2. /\ DOMAIN written' = DOMAIN written \cup {r} /\ written'[r] = p
      /\ \A q \in DOMAIN written : q # r => written'[q] = written[q]
    BY DEF Receives, With
<1>3. \A q : Promised(q)' = Promised(q)
    BY DEF Promised, RetainFor, TopicFor
<1>4. CopiesAreExact'
    <2> SUFFICES ASSUME NEW q \in DOMAIN written'
                 PROVE  (\/ written[q] = Promised(q)
                         \/ ~origin.fromClient /\ q \in DOMAIN stored
                            /\ written[q] = [Promised(q) EXCEPT !.subId = 0])'
        BY DEF CopiesAreExact
    <2>1. CASE q = r
        BY <1>1, <1>2, <1>3, <2>1
    <2>2. CASE q # r
        BY <1>1, <1>2, <1>3, <2>2 DEF CopyIInv, CopiesAreExact
    <2> QED
        BY <2>1, <2>2
<1>5. \A q : NewPublish(kindOf[q], getEffectiveQos(kindOf[q].maxQos))' =
                NewPublish(kindOf[q], getEffectiveQos(kindOf[q].maxQos))
    BY DEF NewPublish, getEffectiveQos
<1>6. \A q \in DOMAIN stored' :
          stored'[q] = NewPublish(kindOf[q], getEffectiveQos(kindOf[q].maxQos))'
    BY <1>5 DEF CopyIInv, StoredIsRight, With
<1>7. DOMAIN stored' \subseteq Receivers /\ DOMAIN written' \subseteq Receivers
    BY <1>2 DEF CopyIInv, StoredIsRight, With
<1> QED
    BY <1>4, <1>6, <1>7 DEF StoredIsRight

LEMMA FactoryKeepsCopies ==
    ASSUME CopyIInv, UNCHANGED <<origin, kindOf, factory>>
    PROVE  /\ \A p, key : Shareable(p, key)' <=> Shareable(p', key)
           /\ factory.made => NothingBefore'
           /\ DOMAIN cache' \subseteq {10, 11, 20, 21} => CopyTypeOK'
BY DEF CopyIInv, CopyTypeOK, Shareable, NothingBefore

LEMMA WriteToKeepsIInv ==
    ASSUME CopyIInv, NEW r \in Receivers, WriteTo(r)
    PROVE  CopyIInv'
<1> DEFINE k == kindOf[r]
           qos == getEffectiveQos(k.maxQos)
<1>1. /\ factory.made /\ r \notin DOMAIN written /\ r \notin DOMAIN stored
      /\ UNCHANGED <<origin, kindOf, factory>>
      /\ stored' = stored \/ stored' = With(stored, r, NewPublish(k, qos))
    BY DEF WriteTo
<1>2. k \in [mqtt5 : BOOLEAN, maxQos : 0..2, asPublished : BOOLEAN,
             retains : BOOLEAN, alias : {"no", "first", "known"},
             subId : {0, 1}, override : BOOLEAN, online : BOOLEAN]
    BY KindsAreTyped DEF CopyIInv
<1>3. r \in Nat /\ (~k.mqtt5 => k.alias = "no")
    BY KindsAreTyped DEF CopyIInv
<1>4. factory.orgQos \in 0..2 /\ factory.orgRetain \in BOOLEAN /\ factory.topic \in {"topic", "changed"}
      /\ factory.reusable \in BOOLEAN
    BY DEF CopyIInv, FactoryIsRight
<1>5. qos \in 0..2 /\ qos = LowerQos(factory.orgQos, k.maxQos)
    BY <1>2, <1>4, EffectiveQos DEF getEffectiveQos
<1>6. RetainFor(k) \in BOOLEAN
    BY <1>2, <1>4 DEF RetainFor
<1>7. TopicFor(k) \in {"topic", "changed", "override"}
    BY <1>4 DEF TopicFor
<1>8. origin.mqtt5 \in BOOLEAN
    BY DEF CopyIInv, CopyTypeOK, Origins
<1> HIDE DEF qos
<1>10. Promised(r) = Copy(LayoutKey(k.mqtt5, qos), qos, RetainFor(k), IF k.alias = "known" THEN "none" ELSE TopicFor(k), k.alias,
                          IF k.mqtt5 THEN k.subId ELSE 0, IdFor(qos, r))
    BY <1>5 DEF Promised, Copy, IdFor
<1>11. CASE WriteOnce(r, k, qos)
    <2> DEFINE c == Constructed(k.mqtt5, qos, k.alias, k.subId, TopicFor(k))
    <2>1. /\ Receives(r, Stamped(c, r, qos, RetainFor(k)))
          /\ UNCHANGED <<packet, cache>>
        BY <1>11 DEF WriteOnce
    <2>2. /\ c \in CopyPackets /\ c.layout = LayoutKey(k.mqtt5, qos) /\ c.qos = qos /\ ~c.dup /\ c.id = 0
          /\ c.alias = (IF k.mqtt5 THEN k.alias ELSE "no")
          /\ c.subId = (IF k.mqtt5 THEN k.subId ELSE 0)
          /\ c.topic = (IF k.alias = "known" THEN "none" ELSE TopicFor(k))
        <3>1. c \in CopyPackets
            BY <1>2, <1>5, <1>7, ConstructedType
        <3> QED
            BY <3>1 DEF Constructed
    <2> HIDE DEF c
    <2>3. c.dup = FALSE /\ c.alias = k.alias
        BY <1>3, <2>2 DEF CopyPackets
    <2>4. Stamped(c, r, qos, RetainFor(k)) =
            Copy(c.layout, qos, RetainFor(k), c.topic, c.alias, c.subId, IdFor(qos, r))
        BY <1>3, <1>5, <1>6, <2>2, <2>3, StampedIsExact
    <2>5. Stamped(c, r, qos, RetainFor(k)) = Promised(r)
        BY <1>10, <2>2, <2>3, <2>4
    <2>6. StoredIsRight' /\ CopiesAreExact'
        BY <1>1, <2>1, <2>5, WrittenAsPromised DEF qos
    <2>7. FactoryIsRight' /\ CacheIsRight' /\ CopyTypeOK' /\ NothingBefore'
        BY <1>1, <2>1, FactoryKeepsCopies DEF CopyIInv, FactoryIsRight, CacheIsRight
    <2> QED
        BY <2>6, <2>7 DEF CopyIInv
<1>12. ASSUME ~HasOwnData(k)
       PROVE  /\ TopicFor(k) = factory.topic /\ k.alias = "no"
              /\ (IF k.mqtt5 THEN k.subId ELSE 0) = 0
    BY <1>2, <1>3, <1>12 DEF HasOwnData, TopicFor
<1>13. CASE WriteIncoming(r, k, qos)
    <2> DEFINE key == LayoutKey(k.mqtt5, qos)
    <2>1. /\ ~HasOwnData(k) /\ factory.reusable /\ LayoutKey(origin.mqtt5, factory.orgQos) = key
          /\ packet' = Stamped(packet, r, qos, RetainFor(k))
          /\ Receives(r, packet') /\ UNCHANGED cache
        BY <1>13 DEF WriteIncoming, IsReused
    <2>2. key \in {10, 11, 20, 21} /\ (qos > 0 <=> key \in {11, 21})
        BY <1>2, <1>5, LayoutsOf
    <2>3. Shareable(packet, key)
        BY <1>1, <2>1 DEF CopyIInv, FactoryIsRight
    <2>4. /\ Shareable(packet', key)
          /\ packet' = Copy(key, qos, RetainFor(k), factory.topic, "no", 0, IdFor(qos, r))
        <3>1. Shareable(Stamped(packet, r, qos, RetainFor(k)), key)
            BY <1>3, <1>5, <1>6, <2>2, <2>3, StampedStaysShareable
        <3>2. Stamped(packet, r, qos, RetainFor(k)) =
                 Copy(key, qos, RetainFor(k), factory.topic, "no", 0, IdFor(qos, r))
            BY <1>3, <1>5, <1>6, <2>2, <2>3, StampedForReceiver
        <3> QED
            BY <2>1, <3>1, <3>2
    <2>5. packet' = Promised(r)
        BY <1>10, <1>12, <2>1, <2>4
    <2>6. StoredIsRight' /\ CopiesAreExact'
        BY <1>1, <2>1, <2>5, WrittenAsPromised DEF qos
    <2>7. FactoryIsRight'
        BY <1>1, <2>1, <2>4, FactoryKeepsCopies DEF CopyIInv, FactoryIsRight
    <2>8. CacheIsRight' /\ CopyTypeOK' /\ NothingBefore'
        BY <1>1, <2>1, FactoryKeepsCopies DEF CopyIInv, CacheIsRight
    <2> QED
        BY <2>6, <2>7, <2>8 DEF CopyIInv
<1>14. CASE WriteCached(r, k, qos)
    <2> DEFINE key == LayoutKey(k.mqtt5, qos)
               cached == IF key \in DOMAIN cache THEN cache[key]
                         ELSE Constructed(k.mqtt5, qos, "no", 0, factory.topic)
               new == Stamped(cached, r, qos, RetainFor(k))
    <2>1. /\ ~HasOwnData(k) /\ cache' = With(cache, key, new)
          /\ Receives(r, cache'[key]) /\ UNCHANGED packet
        BY <1>14 DEF WriteCached
    <2>2. key \in {10, 11, 20, 21} /\ (qos > 0 <=> key \in {11, 21})
        BY <1>2, <1>5, LayoutsOf
    <2>3. Shareable(cached, key)
        <3>1. CASE key \in DOMAIN cache
            BY <3>1 DEF CopyIInv, CacheIsRight
        <3>2. CASE key \notin DOMAIN cache
            <4>1. cached = Constructed(k.mqtt5, qos, "no", 0, factory.topic)
                BY <3>2
            <4>2. cached \in CopyPackets
                BY <1>2, <1>4, <1>5, <4>1, ConstructedType
            <4> QED
                BY <1>2, <2>2, <4>1, <4>2 DEF Shareable, Constructed
        <3> QED
            BY <3>1, <3>2
    <2> HIDE DEF cached
    <2>4. /\ Shareable(new, key)
          /\ new = Copy(key, qos, RetainFor(k), factory.topic, "no", 0, IdFor(qos, r))
        <3>1. Shareable(new, key)
            BY <1>3, <1>5, <1>6, <2>2, <2>3, StampedStaysShareable
        <3>2. new = Copy(key, qos, RetainFor(k), factory.topic, "no", 0, IdFor(qos, r))
            BY <1>3, <1>5, <1>6, <2>2, <2>3, StampedForReceiver
        <3> QED
            BY <3>1, <3>2
    <2> HIDE DEF new, key
    <2>5. new = Promised(r)
        BY <1>10, <1>12, <2>1, <2>4 DEF key
    <2>6. /\ DOMAIN cache' = DOMAIN cache \cup {key} /\ cache'[key] = new
          /\ \A y \in DOMAIN cache : y # key => cache'[y] = cache[y]
        BY <2>1 DEF With
    <2>7. StoredIsRight' /\ CopiesAreExact'
        BY <1>1, <2>1, <2>5, <2>6, WrittenAsPromised DEF qos
    <2>8. DOMAIN cache' \subseteq {10, 11, 20, 21}
        BY <2>2, <2>6 DEF CopyIInv, CacheIsRight
    <2>9. \A y \in DOMAIN cache' : Shareable(cache'[y], y)
        BY <2>4, <2>6 DEF CopyIInv, CacheIsRight
    <2>10. \A y : Shareable(cache[y], y)' <=> Shareable(cache'[y], y)
        BY <1>1 DEF Shareable
    <2>11. CacheIsRight'
        BY <2>8, <2>9, <2>10 DEF CacheIsRight
    <2>12. FactoryIsRight' /\ CopyTypeOK' /\ NothingBefore'
        BY <1>1, <2>1, <2>8, FactoryKeepsCopies DEF CopyIInv, FactoryIsRight
    <2> QED
        BY <2>7, <2>11, <2>12 DEF CopyIInv
<1>15. CASE UNCHANGED <<packet, cache, written>>
    <2>1. StoredIsRight'
        <3>1. \A q : NewPublish(kindOf[q], getEffectiveQos(kindOf[q].maxQos))' =
                    NewPublish(kindOf[q], getEffectiveQos(kindOf[q].maxQos))
            BY <1>1 DEF NewPublish, getEffectiveQos
        <3> QED
            BY <1>1, <1>15, <3>1 DEF CopyIInv, StoredIsRight, qos, With
    <2>2. CopiesAreExact'
        <3>1. \A q : Promised(q)' = Promised(q)
            BY <1>1 DEF Promised, RetainFor, TopicFor
        <3>2. DOMAIN stored \subseteq DOMAIN stored'
            BY <1>1 DEF With
        <3> QED
            BY <1>1, <1>15, <3>1, <3>2 DEF CopyIInv, CopiesAreExact
    <2>3. FactoryIsRight' /\ CacheIsRight' /\ CopyTypeOK' /\ NothingBefore'
        BY <1>1, <1>15, FactoryKeepsCopies DEF CopyIInv, FactoryIsRight, CacheIsRight
    <2> QED
        BY <2>1, <2>2, <2>3 DEF CopyIInv
<1>16. \/ WriteOnce(r, k, qos) \/ WriteIncoming(r, k, qos) \/ WriteCached(r, k, qos)
       \/ UNCHANGED <<packet, cache, written>>
    BY DEF WriteTo, qos
<1> QED
    BY <1>11, <1>13, <1>14, <1>15, <1>16

LEMMA ResendKeepsIInv ==
    ASSUME CopyIInv, NEW r \in Receivers, Resend(r)
    PROVE  CopyIInv'
<1> DEFINE k == kindOf[r]
           p == stored[r]
           topic == IF k.override THEN "override" ELSE p.topic
           qos == getEffectiveQos(k.maxQos)
           c == Constructed(k.mqtt5, p.qos, k.alias, p.subId, topic)
           retain == p.retain /\ k.retains
<1>1. /\ r \in DOMAIN stored
      /\ Receives(r, Stamped(c, r, p.qos, retain))
      /\ UNCHANGED <<origin, kindOf, packet, factory, cache, stored>>
    BY DEF Resend
<1>2. k \in [mqtt5 : BOOLEAN, maxQos : 0..2, asPublished : BOOLEAN,
             retains : BOOLEAN, alias : {"no", "first", "known"},
             subId : {0, 1}, override : BOOLEAN, online : BOOLEAN]
    BY KindsAreTyped DEF CopyIInv
<1>3. r \in Nat /\ (~k.mqtt5 => k.alias = "no")
    BY KindsAreTyped DEF CopyIInv
<1>4. factory.orgQos \in 0..2 /\ factory.orgRetain \in BOOLEAN /\ factory.topic \in {"topic", "changed"}
    BY DEF CopyIInv, FactoryIsRight
<1>5. qos \in 0..2 /\ qos = LowerQos(factory.orgQos, k.maxQos)
    BY <1>2, <1>4, EffectiveQos DEF getEffectiveQos
<1>6. p = NewPublish(k, qos)
    BY <1>1 DEF CopyIInv, StoredIsRight
<1>7. /\ p.qos = qos /\ p.topic = factory.topic
      /\ p.retain = (factory.orgRetain /\ k.asPublished)
      /\ p.subId = IF origin.fromClient THEN k.subId ELSE 0
    BY <1>6 DEF NewPublish
<1>8. topic = TopicFor(k) /\ topic \in {"topic", "changed", "override"}
    BY <1>4, <1>7 DEF TopicFor
<1>9. retain = RetainFor(k) /\ retain \in BOOLEAN
    BY <1>2, <1>4, <1>7 DEF RetainFor
<1>10. p.subId \in {0, 1}
    BY <1>2, <1>7
<1> HIDE DEF qos
<1>11. Promised(r) = Copy(LayoutKey(k.mqtt5, qos), qos, RetainFor(k), IF k.alias = "known" THEN "none" ELSE TopicFor(k), k.alias,
                          IF k.mqtt5 THEN k.subId ELSE 0, IdFor(qos, r))
    BY <1>5 DEF Promised, Copy, IdFor
<1>12. /\ c \in CopyPackets /\ c.layout = LayoutKey(k.mqtt5, qos) /\ c.qos = qos /\ ~c.dup /\ c.id = 0
       /\ c.alias = (IF k.mqtt5 THEN k.alias ELSE "no")
       /\ c.subId = (IF k.mqtt5 THEN p.subId ELSE 0)
       /\ c.topic = (IF k.alias = "known" THEN "none" ELSE topic)
    <2>1. c \in CopyPackets
        BY <1>2, <1>5, <1>7, <1>8, <1>10, ConstructedType
    <2> QED
        BY <1>7, <2>1 DEF Constructed
<1> HIDE DEF c, topic, retain, p
<1>13. c.dup = FALSE /\ c.alias = k.alias
    BY <1>3, <1>12 DEF CopyPackets
<1>14. Stamped(c, r, p.qos, retain) =
         Copy(c.layout, qos, retain, c.topic, c.alias, c.subId, IdFor(qos, r))
    <2>1. Stamped(c, r, qos, retain) =
            Copy(c.layout, qos, retain, c.topic, c.alias, c.subId, IdFor(qos, r))
        BY <1>3, <1>5, <1>9, <1>12, <1>13, StampedIsExact
    <2> QED
        BY <1>7, <2>1
<1>15. \/ Stamped(c, r, p.qos, retain) = Promised(r)
       \/ ~origin.fromClient /\ Stamped(c, r, p.qos, retain) = [Promised(r) EXCEPT !.subId = 0]
    <2>1. CASE c.subId = IF k.mqtt5 THEN k.subId ELSE 0
        BY <1>8, <1>9, <1>11, <1>12, <1>13, <1>14, <2>1
    <2>2. CASE ~origin.fromClient
        <3>1. c.subId = 0
            BY <1>7, <1>12, <2>2
        <3>2. [Promised(r) EXCEPT !.subId = 0] =
                Copy(LayoutKey(k.mqtt5, qos), qos, RetainFor(k),
                     IF k.alias = "known" THEN "none" ELSE TopicFor(k), k.alias, 0, IdFor(qos, r))
            BY <1>11, CopyWithoutId
        <3>3. Stamped(c, r, p.qos, retain) =
                Copy(LayoutKey(k.mqtt5, qos), qos, RetainFor(k),
                     IF k.alias = "known" THEN "none" ELSE TopicFor(k), k.alias, 0, IdFor(qos, r))
            BY <1>8, <1>9, <1>12, <1>13, <1>14, <3>1
        <3> QED
            BY <2>2, <3>2, <3>3
    <2> QED
        BY <1>7, <1>12, <2>1, <2>2
<1>16. StoredIsRight' /\ CopiesAreExact'
    BY <1>1, <1>15, WrittenAsPromised
<1>17. factory.made
    BY <1>1 DEF CopyIInv, NothingBefore
<1>18. FactoryIsRight' /\ CacheIsRight' /\ CopyTypeOK' /\ NothingBefore'
    BY <1>1, <1>17, FactoryKeepsCopies DEF CopyIInv, FactoryIsRight, CacheIsRight
<1> QED
    BY <1>16, <1>18 DEF CopyIInv

(* Every receiver gets its own QoS, packet id, retain flag, alias, subscription  *)
(* identifier and topic, for any receivers in any order, and what a receiver     *)
(* before it made of the shared packets does not matter                         *)
(* (publishcopyfactory.cpp:35, client.cpp:480).                                 *)
THEOREM CopiesStayExact == CopySpec => []PublishCopiesAreSound
<1>1. CopyInit => CopyIInv
    BY CopyInitIInv
<1>2. CopyIInv /\ [CopyNext]_copyVars => CopyIInv'
    <2> SUFFICES ASSUME CopyIInv, [CopyNext]_copyVars PROVE CopyIInv'
        OBVIOUS
    <2>1. CASE UNCHANGED copyVars
        BY <2>1 DEF copyVars, CopyIInv, CopyTypeOK, NothingBefore, FactoryIsRight, CacheIsRight,
                    StoredIsRight, CopiesAreExact, Shareable, NewPublish, getEffectiveQos, Promised,
                    RetainFor, TopicFor
    <2> QED
        BY <2>1, HandlePublishKeepsIInv, PublishOfBrokerKeepsIInv, WriteToKeepsIInv, ResendKeepsIInv
            DEF CopyNext
<1>3. CopyIInv => PublishCopiesAreSound
    BY DEF CopyIInv, PublishCopiesAreSound
<1> QED
    BY <1>1, <1>2, <1>3, PTL DEF CopySpec

-----------------------------------------------------------------------------
(* The login: packets in the order in which they were sent                   *)

LoginPackets == [kind : Kinds, n : Nat]
Increasing(s) == \A i, j \in 1..Len(s) : i < j => s[i].n < s[j].n
Before(s, t) == \A i \in 1..Len(s), j \in 1..Len(t) : s[i].n < t[j].n
UpTo(s, m) == \A i \in 1..Len(s) : s[i].n <= m

\* What was handled, what waits for the plugin, what was read and what was not.
InOrder(handled, waits, batch, unread, m) ==
    /\ Increasing(handled) /\ Increasing(waits) /\ Increasing(batch) /\ Increasing(unread)
    /\ Before(handled, waits) /\ Before(handled, batch) /\ Before(handled, unread)
    /\ Before(waits, batch) /\ Before(waits, unread) /\ Before(batch, unread)
    /\ UpTo(handled, m) /\ UpTo(waits, m) /\ UpTo(batch, m) /\ UpTo(unread, m)

LEMMA NothingInOrder ==
    ASSUME NEW s
    PROVE  /\ Increasing(<<>>) /\ Before(<<>>, s) /\ Before(s, <<>>)
           /\ \A m : UpTo(<<>>, m)
BY DEF Increasing, Before, UpTo

LEMMA AppendedInOrder ==
    ASSUME NEW s \in Seq(LoginPackets), NEW p \in LoginPackets
    PROVE  /\ Append(s, p) \in Seq(LoginPackets)
           /\ Increasing(s) /\ (\A i \in 1..Len(s) : s[i].n < p.n) => Increasing(Append(s, p))
           /\ \A t \in Seq(LoginPackets) :
                 /\ Before(s, t) /\ (\A i \in 1..Len(t) : p.n < t[i].n) => Before(Append(s, p), t)
                 /\ Before(t, s) /\ (\A i \in 1..Len(t) : t[i].n < p.n) => Before(t, Append(s, p))
           /\ \A m : UpTo(s, m) /\ p.n <= m => UpTo(Append(s, p), m)
<1>1. /\ Append(s, p) \in Seq(LoginPackets) /\ Len(Append(s, p)) = Len(s) + 1
      /\ \A i \in 1..Len(s) : Append(s, p)[i] = s[i]
      /\ Append(s, p)[Len(s) + 1] = p
    OBVIOUS
<1>2. \A i \in 1..Len(Append(s, p)) : i \in 1..Len(s) \/ i = Len(s) + 1
    BY <1>1
<1>3. Len(s) \in Nat
    OBVIOUS
<1>4. ASSUME Increasing(s), \A i \in 1..Len(s) : s[i].n < p.n
      PROVE  Increasing(Append(s, p))
    <2> SUFFICES ASSUME NEW i \in 1..Len(Append(s, p)), NEW j \in 1..Len(Append(s, p)), i < j
                 PROVE  Append(s, p)[i].n < Append(s, p)[j].n
        BY DEF Increasing
    <2>1. i \in 1..Len(s)
        BY <1>1, <1>3
    <2>2. CASE j \in 1..Len(s)
        BY <1>1, <1>4, <2>1, <2>2 DEF Increasing
    <2>3. CASE j = Len(s) + 1
        BY <1>1, <1>4, <2>1, <2>3
    <2> QED
        BY <1>2, <2>2, <2>3
<1>5. ASSUME NEW t \in Seq(LoginPackets)
      PROVE  /\ Before(s, t) /\ (\A i \in 1..Len(t) : p.n < t[i].n) => Before(Append(s, p), t)
             /\ Before(t, s) /\ (\A i \in 1..Len(t) : t[i].n < p.n) => Before(t, Append(s, p))
    BY <1>1, <1>2 DEF Before
<1>6. \A m : UpTo(s, m) /\ p.n <= m => UpTo(Append(s, p), m)
    BY <1>1, <1>2 DEF UpTo
<1> QED
    BY <1>1, <1>4, <1>5, <1>6

LEMMA TailInOrder ==
    ASSUME NEW s \in Seq(LoginPackets), s # <<>>
    PROVE  /\ Head(s) \in LoginPackets /\ Tail(s) \in Seq(LoginPackets)
           /\ Increasing(s) => Increasing(Tail(s)) /\ (\A i \in 1..Len(Tail(s)) : Head(s).n < Tail(s)[i].n)
           /\ \A t \in Seq(LoginPackets) :
                 /\ Before(s, t) => Before(Tail(s), t) /\ (\A i \in 1..Len(t) : Head(s).n < t[i].n)
                 /\ Before(t, s) => Before(t, Tail(s)) /\ (\A i \in 1..Len(t) : t[i].n < Head(s).n)
           /\ \A m : UpTo(s, m) => UpTo(Tail(s), m) /\ Head(s).n <= m
<1>1. /\ Head(s) \in LoginPackets /\ Tail(s) \in Seq(LoginPackets)
      /\ Len(Tail(s)) = Len(s) - 1 /\ Len(s) \in Nat /\ 1 \in 1..Len(s) /\ Head(s) = s[1]
      /\ \A i \in 1..Len(Tail(s)) : Tail(s)[i] = s[i + 1]
    OBVIOUS
<1>2. \A i \in 1..Len(Tail(s)) : i + 1 \in 1..Len(s) /\ 1 < i + 1
    BY <1>1
<1>3. ASSUME Increasing(s)
      PROVE  Increasing(Tail(s)) /\ (\A i \in 1..Len(Tail(s)) : Head(s).n < Tail(s)[i].n)
    <2>1. \A i, j \in 1..Len(Tail(s)) : i < j => i + 1 < j + 1
        BY <1>1
    <2> QED
        BY <1>1, <1>2, <1>3, <2>1 DEF Increasing
<1>4. ASSUME NEW t \in Seq(LoginPackets)
      PROVE  /\ Before(s, t) => Before(Tail(s), t) /\ (\A i \in 1..Len(t) : Head(s).n < t[i].n)
             /\ Before(t, s) => Before(t, Tail(s)) /\ (\A i \in 1..Len(t) : t[i].n < Head(s).n)
    BY <1>1, <1>2 DEF Before
<1>5. \A m : UpTo(s, m) => UpTo(Tail(s), m) /\ Head(s).n <= m
    BY <1>1, <1>2 DEF UpTo
<1> QED
    BY <1>1, <1>3, <1>4, <1>5

LEMMA JoinedInOrder ==
    ASSUME NEW s \in Seq(LoginPackets), NEW t \in Seq(LoginPackets)
    PROVE  /\ s \o t \in Seq(LoginPackets)
           /\ Increasing(s) /\ Increasing(t) /\ Before(s, t) => Increasing(s \o t)
           /\ \A u \in Seq(LoginPackets) : Before(s, u) /\ Before(t, u) => Before(s \o t, u)
           /\ \A m : UpTo(s, m) /\ UpTo(t, m) => UpTo(s \o t, m)
<1>1. s \o t \in Seq(LoginPackets) /\ Len(s \o t) = Len(s) + Len(t) /\ Len(s) \in Nat /\ Len(t) \in Nat
    OBVIOUS
<1>2. \A i \in 1..Len(s \o t) :
         \/ i \in 1..Len(s) /\ (s \o t)[i] = s[i]
         \/ i - Len(s) \in 1..Len(t) /\ (s \o t)[i] = t[i - Len(s)]
    BY <1>1
<1>3. ASSUME Increasing(s), Increasing(t), Before(s, t)
      PROVE  Increasing(s \o t)
    <2> SUFFICES ASSUME NEW i \in 1..Len(s \o t), NEW j \in 1..Len(s \o t), i < j
                 PROVE  (s \o t)[i].n < (s \o t)[j].n
        BY DEF Increasing
    <2>1. CASE j \in 1..Len(s)
        <3>1. i \in 1..Len(s)
            BY <2>1, <1>1
        <3>2. (s \o t)[i] = s[i] /\ (s \o t)[j] = s[j]
            BY <1>1, <1>2, <2>1, <3>1
        <3> QED
            BY <1>3, <2>1, <3>1, <3>2 DEF Increasing
    <2>2. CASE j - Len(s) \in 1..Len(t) /\ (s \o t)[j] = t[j - Len(s)]
        <3>1. CASE i \in 1..Len(s) /\ (s \o t)[i] = s[i]
            BY <1>3, <2>2, <3>1 DEF Before
        <3>2. CASE i - Len(s) \in 1..Len(t) /\ (s \o t)[i] = t[i - Len(s)]
            <4>1. i - Len(s) < j - Len(s)
                BY <1>1
            <4> QED
                BY <1>3, <2>2, <3>2, <4>1 DEF Increasing
        <3> QED
            BY <1>2, <3>1, <3>2
    <2> QED
        BY <1>2, <2>1, <2>2
<1>4. \A u \in Seq(LoginPackets) : Before(s, u) /\ Before(t, u) => Before(s \o t, u)
    BY <1>2 DEF Before
<1>5. \A m : UpTo(s, m) /\ UpTo(t, m) => UpTo(s \o t, m)
    BY <1>2 DEF UpTo
<1> QED
    BY <1>1, <1>3, <1>4, <1>5

\* What the handlers do with the queues keeps the order.
LEMMA QueuesStayInOrder ==
    ASSUME NEW h \in Seq(LoginPackets), NEW a \in Seq(LoginPackets), NEW b \in Seq(LoginPackets),
           NEW u \in Seq(LoginPackets), NEW m \in Nat, InOrder(h, a, b, u, m)
    PROVE  /\ InOrder(h, <<>>, b, u, m)
           /\ InOrder(h \o a, <<>>, b, u, m)
           /\ InOrder(h, a, <<>>, u, m)
           /\ InOrder(h, a, <<>>, <<>>, m)
           /\ b = <<>> => InOrder(h, a, u, <<>>, m)
<1>1. InOrder(h, <<>>, b, u, m) /\ InOrder(h, a, <<>>, u, m) /\ InOrder(h, a, <<>>, <<>>, m)
    BY NothingInOrder DEF InOrder
<1>2. InOrder(h \o a, <<>>, b, u, m)
    BY NothingInOrder, JoinedInOrder DEF InOrder
<1>3. b = <<>> => InOrder(h, a, u, <<>>, m)
    BY NothingInOrder DEF InOrder
<1> QED
    BY <1>1, <1>2, <1>3

LEMMA SentInOrder ==
    ASSUME NEW h \in Seq(LoginPackets), NEW a \in Seq(LoginPackets), NEW b \in Seq(LoginPackets),
           NEW u \in Seq(LoginPackets), NEW m \in Nat, InOrder(h, a, b, u, m),
           NEW kind \in Kinds
    PROVE  LET p == [kind |-> kind, n |-> m + 1]
           IN  p \in LoginPackets /\ InOrder(h, a, b, Append(u, p), m + 1)
<1> DEFINE p == [kind |-> kind, n |-> m + 1]
<1>1. p \in LoginPackets /\ p.n = m + 1
    BY DEF LoginPackets
<1> HIDE DEF p
<1>2. ASSUME NEW s \in Seq(LoginPackets), UpTo(s, m)
      PROVE  UpTo(s, m + 1) /\ \A i \in 1..Len(s) : s[i].n < p.n
    <2>1. ASSUME NEW i \in 1..Len(s)
          PROVE  s[i].n <= m + 1 /\ s[i].n < p.n
        <3>1. s[i].n \in Nat
            <4>1. s[i] \in LoginPackets
                OBVIOUS
            <4> QED
                BY <4>1 DEF LoginPackets
        <3>2. s[i].n <= m
            BY <1>2 DEF UpTo
        <3> QED
            BY <1>1, <3>1, <3>2
    <2> QED
        BY <2>1 DEF UpTo
<1>3. /\ \A i \in 1..Len(h) : h[i].n < p.n
      /\ \A i \in 1..Len(a) : a[i].n < p.n
      /\ \A i \in 1..Len(b) : b[i].n < p.n
      /\ \A i \in 1..Len(u) : u[i].n < p.n
      /\ UpTo(h, m + 1) /\ UpTo(a, m + 1) /\ UpTo(b, m + 1) /\ UpTo(u, m + 1)
    BY <1>2 DEF InOrder
<1>4. p.n <= m + 1
    BY <1>1
<1>5. Increasing(Append(u, p)) /\ UpTo(Append(u, p), m + 1)
    BY <1>1, <1>3, <1>4, AppendedInOrder DEF InOrder
<1>6. Before(h, Append(u, p)) /\ Before(a, Append(u, p)) /\ Before(b, Append(u, p))
    BY <1>1, <1>3, AppendedInOrder DEF InOrder
<1>7. InOrder(h, a, b, Append(u, p), m + 1)
    BY <1>3, <1>5, <1>6 DEF InOrder
<1> QED
    BY <1>1, <1>7 DEF p

\* The next packet of an event is handled, kept for later, or dropped.
LEMMA NextInOrder ==
    ASSUME NEW h \in Seq(LoginPackets), NEW a \in Seq(LoginPackets), NEW b \in Seq(LoginPackets),
           NEW u \in Seq(LoginPackets), NEW m \in Nat, InOrder(h, a, b, u, m), b # <<>>
    PROVE  /\ Head(b) \in LoginPackets /\ Tail(b) \in Seq(LoginPackets)
           /\ InOrder(h, a, Tail(b), u, m)
           /\ InOrder(h, Append(a, Head(b)), Tail(b), u, m)
           /\ a = <<>> => InOrder(Append(h, Head(b)), a, Tail(b), u, m)
<1> DEFINE p == Head(b)
           t == Tail(b)
<1>1. p \in LoginPackets /\ t \in Seq(LoginPackets)
    BY TailInOrder
<1>2. /\ \A i \in 1..Len(h) : h[i].n < p.n
      /\ \A i \in 1..Len(a) : a[i].n < p.n
      /\ \A i \in 1..Len(t) : p.n < t[i].n
      /\ \A i \in 1..Len(u) : p.n < u[i].n
      /\ p.n <= m
    BY TailInOrder DEF InOrder
<1>3. Increasing(t) /\ UpTo(t, m) /\ Before(t, u) /\ Before(h, t) /\ Before(a, t)
    BY TailInOrder DEF InOrder
<1>4. InOrder(h, a, t, u, m)
    BY <1>3 DEF InOrder
<1> HIDE DEF p, t
<1>5. Increasing(Append(a, p)) /\ UpTo(Append(a, p), m)
    BY <1>1, <1>2, AppendedInOrder DEF InOrder
<1>6. Before(h, Append(a, p)) /\ Before(Append(a, p), t) /\ Before(Append(a, p), u)
    BY <1>1, <1>2, <1>3, AppendedInOrder DEF InOrder
<1>7. InOrder(h, Append(a, p), t, u, m)
    BY <1>3, <1>5, <1>6 DEF InOrder
<1>8. Increasing(Append(h, p)) /\ UpTo(Append(h, p), m)
    BY <1>1, <1>2, AppendedInOrder DEF InOrder
<1>9. Before(Append(h, p), t) /\ Before(Append(h, p), u)
    BY <1>1, <1>2, <1>3, AppendedInOrder DEF InOrder
<1>10. a = <<>> => InOrder(Append(h, p), a, t, u, m)
    BY <1>3, <1>8, <1>9, NothingInOrder DEF InOrder
<1> QED
    BY <1>1, <1>4, <1>7, <1>10 DEF p, t

-----------------------------------------------------------------------------
(* The login: what the client was told                                       *)

ToldPackets == {"CONNACK success", "CONNACK deny", "AUTH success", "AUTH continue", "DISCONNECT"}

\* Whoever was told that it is logged in is not told it twice, or denied after it.
LetsIn(p) == p = "CONNACK success"
IsConnack(p) == p \in {"CONNACK success", "CONNACK deny"}
IsForLoggedIn(p) == p \in {"AUTH success", "DISCONNECT"}
IsLetIn(out) == \E i \in 1..Len(out) : LetsIn(out[i])
ToldOnce(out) ==
    /\ \A i, j \in 1..Len(out) : i < j /\ LetsIn(out[i]) => ~IsConnack(out[j])
    /\ \A j \in 1..Len(out) : IsForLoggedIn(out[j]) => \E i \in 1..(j - 1) : LetsIn(out[i])

LEMMA OneMorePacket ==
    ASSUME NEW S, NEW out \in Seq(S), NEW p \in S
    PROVE  /\ out \o <<p>> \in Seq(S) /\ Len(out) \in Nat
           /\ Len(out \o <<p>>) = Len(out) + 1
           /\ \A i \in 1..Len(out) : (out \o <<p>>)[i] = out[i]
           /\ (out \o <<p>>)[Len(out) + 1] = p
<1>1. <<p>> \in Seq(S) /\ Len(<<p>>) = 1 /\ <<p>>[1] = p
    OBVIOUS
<1> DEFINE t == <<p>>
<1> HIDE DEF t
<1>2. out \o t \in Seq(S) /\ Len(out \o t) = Len(out) + Len(t) /\ Len(out) \in Nat
    BY <1>1 DEF t
<1>3. \A i \in 1..Len(out) + Len(t) : (out \o t)[i] = IF i <= Len(out) THEN out[i] ELSE t[i - Len(out)]
    BY <1>1 DEF t
<1>4. Len(t) = 1 /\ t[1] = p
    BY <1>1 DEF t
<1>5. (out \o t)[Len(out) + 1] = p
    BY <1>2, <1>3, <1>4
<1>6. \A i \in 1..Len(out) : (out \o t)[i] = out[i]
    BY <1>2, <1>3, <1>4
<1> QED
    BY <1>2, <1>4, <1>5, <1>6 DEF t

LEMMA ToldOneMore ==
    ASSUME NEW out \in Seq(ToldPackets), ToldOnce(out), NEW p \in ToldPackets,
           IsConnack(p) => ~IsLetIn(out), IsForLoggedIn(p) => IsLetIn(out)
    PROVE  /\ out \o <<p>> \in Seq(ToldPackets)
           /\ ToldOnce(out \o <<p>>)
           /\ IsLetIn(out \o <<p>>) <=> IsLetIn(out) \/ LetsIn(p)
<1> DEFINE new == out \o <<p>>
           n == Len(out)
<1>1. /\ new \in Seq(ToldPackets) /\ Len(new) = n + 1 /\ n \in Nat
      /\ \A i \in 1..n : new[i] = out[i]
      /\ new[n + 1] = p
    BY OneMorePacket
<1> HIDE DEF new
<1>2. \A i \in 1..Len(new) : i \in 1..n \/ i = n + 1
    BY <1>1
<1>3. n + 1 \in 1..Len(new) /\ \A i \in 1..n : i \in 1..Len(new)
    BY <1>1
<1>4. IsLetIn(new) <=> IsLetIn(out) \/ LetsIn(p)
    BY <1>1, <1>2, <1>3 DEF IsLetIn
<1>5. ASSUME NEW i \in 1..Len(new), NEW j \in 1..Len(new), i < j, LetsIn(new[i])
      PROVE  ~IsConnack(new[j])
    <2>1. i \in 1..n /\ LetsIn(out[i])
        BY <1>1, <1>5
    <2>2. CASE j \in 1..n
        BY <1>1, <1>5, <2>1, <2>2 DEF ToldOnce
    <2>3. CASE j = n + 1
        BY <1>1, <2>1, <2>3 DEF IsLetIn
    <2> QED
        BY <1>2, <2>2, <2>3
<1>6. ASSUME NEW j \in 1..Len(new), IsForLoggedIn(new[j])
      PROVE  \E i \in 1..(j - 1) : LetsIn(new[i])
    <2>1. CASE j \in 1..n
        <3>1. PICK i \in 1..(j - 1) : LetsIn(out[i])
            BY <1>1, <1>6, <2>1 DEF ToldOnce
        <3>2. i \in 1..n
            BY <2>1, <1>1
        <3> QED
            BY <1>1, <3>1, <3>2
    <2>2. CASE j = n + 1
        <3>1. PICK i \in 1..n : LetsIn(out[i])
            BY <1>1, <1>6, <2>2 DEF IsLetIn
        <3> QED
            BY <1>1, <2>2, <3>1
    <2> QED
        BY <1>2, <2>1, <2>2
<1>7. ToldOnce(new)
    BY <1>5, <1>6 DEF ToldOnce
<1> QED
    BY <1>1, <1>4, <1>7 DEF new

-----------------------------------------------------------------------------
(* The login: the inductive invariant                                        *)

LoginFields ==
    [stage : {"NotInitiated", "SendPendingAppData", "Now"},
     connectSeen : BOOLEAN, authenticated : BOOLEAN, asyncAuthenticating : BOOLEAN,
     method : BOOLEAN, stagedWill : BOOLEAN, will : BOOLEAN, dropped : Nat,
     registered : BOOLEAN, removed : BOOLEAN]
ReadyStates ==
    {Waiting} \cup [at : {"result", "packets"}, in : BOOLEAN, out : BOOLEAN, batch : Seq(LoginPackets)]
Batch == IF ready.at = "epoll" THEN <<>> ELSE ready.batch

LoginShape ==
    /\ lconf \in LoginConfigs /\ login \in LoginFields /\ ready \in ReadyStates
    /\ device \in [sent : Nat, auths : Nat, unread : Seq(LoginPackets)]
    /\ afterAsync \in Seq(LoginPackets) /\ handledApp \in Seq(LoginPackets)
    /\ asyncAuthResult \in Results \cup {"none"} /\ loginTasks \in Seq(Results \cup {"remove"})
    /\ loginOut \in Seq(ToldPackets)

\* A will that is kept may be published, and one that waits for the login came with
\* CONNECT.
WillsAreRight(l) ==
    /\ l.will => l.authenticated /\ lconf.will /\ lconf.willAllowed
    /\ l.stagedWill => lconf.will

\* Packets wait only for an answer of the plugin, and nothing is handled before it.
WaitsForPlugin(l, handled, waits) ==
    /\ waits # <<>> => l.asyncAuthenticating /\ ~l.authenticated
    /\ handled # <<>> => l.authenticated

LoginIInv ==
    /\ LoginShape
    /\ InOrder(handledApp, afterAsync, Batch, device.unread, device.sent)
    /\ ready.at = "result" => ready.batch = <<>>
    /\ WaitsForPlugin(login, handledApp, afterAsync)
    /\ ToldOnce(loginOut) /\ (login.authenticated <=> IsLetIn(loginOut))
    /\ WillsAreRight(login) /\ WillNeedsLogin

\* What the handlers of a packet, or of an answer, may do with the client, with what
\* it is told, and with the packets that waited.
ClientEffect ==
    /\ login' \in LoginFields /\ loginOut' \in Seq(ToldPackets)
    /\ ToldOnce(loginOut') /\ (login'.authenticated <=> IsLetIn(loginOut'))
    /\ WillsAreRight(login')
    /\ WaitsForPlugin(login', handledApp', afterAsync')
    /\ login.authenticated => login'.authenticated
QueueEffect ==
    \/ handledApp' = handledApp /\ afterAsync' = afterAsync
    \/ handledApp' = handledApp /\ afterAsync' = <<>>
    \/ handledApp' = handledApp \o afterAsync /\ afterAsync' = <<>>
HandlersEffect == ClientEffect /\ QueueEffect

\* The client as the handlers see it: CONNECT was read, or the plugin asked.
Seen(l) ==
    /\ l \in LoginFields /\ WillsAreRight(l)
    /\ l.authenticated = login.authenticated /\ l.asyncAuthenticating = login.asyncAuthenticating

LEMMA EndLoginEffect ==
    ASSUME LoginIInv, NEW l, Seen(l), EndLogin(l)
    PROVE  HandlersEffect
<1> DEFINE p == IF l.authenticated THEN "DISCONNECT" ELSE "CONNACK deny"
<1>1. /\ login' = [l EXCEPT !.stage = IF @ = "Now" THEN @ ELSE "SendPendingAppData"]
      /\ loginOut' = loginOut \o <<p>> /\ UNCHANGED <<handledApp, afterAsync>>
    BY DEF EndLogin, Write
<1>2. /\ login' \in LoginFields /\ login'.authenticated = login.authenticated
      /\ login'.asyncAuthenticating = login.asyncAuthenticating
      /\ login'.will = l.will /\ login'.stagedWill = l.stagedWill
    BY <1>1 DEF LoginFields, Seen
<1>3. loginOut \in Seq(ToldPackets) /\ p \in ToldPackets
    BY DEF LoginIInv, LoginShape, ToldPackets
<1>4. ToldOnce(loginOut) /\ (l.authenticated <=> IsLetIn(loginOut))
    BY DEF LoginIInv, Seen
<1>5. (IsConnack(p) => ~IsLetIn(loginOut)) /\ (IsForLoggedIn(p) => IsLetIn(loginOut)) /\ ~LetsIn(p)
    BY <1>4 DEF LetsIn, IsConnack, IsForLoggedIn
<1> HIDE DEF p
<1>6. loginOut' \in Seq(ToldPackets) /\ ToldOnce(loginOut') /\ (IsLetIn(loginOut') <=> IsLetIn(loginOut))
    BY <1>1, <1>3, <1>4, <1>5, ToldOneMore
<1>7. login'.authenticated <=> IsLetIn(loginOut')
    BY <1>2, <1>4, <1>6 DEF Seen
<1>8. WillsAreRight(login') /\ WaitsForPlugin(login', handledApp', afterAsync')
    BY <1>1, <1>2 DEF Seen, WillsAreRight, WaitsForPlugin, LoginIInv
<1> QED
    BY <1>1, <1>2, <1>6, <1>7, <1>8 DEF HandlersEffect, ClientEffect, QueueEffect, Seen

LEMMA SucceedEffect ==
    ASSUME LoginIInv, NEW l, Seen(l), ~l.authenticated, Succeed(l)
    PROVE  HandlersEffect
<1> DEFINE p == "CONNACK success"
<1>1. /\ login' = [LoggedIn(l) EXCEPT !.asyncAuthenticating = FALSE]
      /\ loginOut' = loginOut \o <<p>>
      /\ IF l.asyncAuthenticating
         THEN handledApp' = handledApp \o AfterAsync(l) /\ afterAsync' = <<>>
         ELSE UNCHANGED <<handledApp, afterAsync>>
    BY DEF Succeed, Write
<1>2. l \in LoginFields /\ lconf.will \in BOOLEAN /\ lconf.willAllowed \in BOOLEAN
    BY LoginConfigsAssumption DEF Seen, LoginIInv, LoginShape
<1>3. /\ login' \in LoginFields /\ login'.authenticated = TRUE
      /\ login'.will = (l.stagedWill /\ lconf.willAllowed)
      /\ login'.stagedWill = (l.stagedWill /\ ~lconf.willAllowed)
    <2>1. (l.stagedWill /\ lconf.willAllowed) \in BOOLEAN /\ (l.stagedWill /\ ~lconf.willAllowed) \in BOOLEAN
        OBVIOUS
    <2>2. LoggedIn(l) \in LoginFields
        BY <1>2, <2>1 DEF LoggedIn, LoginFields
    <2>3. /\ LoggedIn(l).authenticated = TRUE /\ LoggedIn(l).will = (l.stagedWill /\ lconf.willAllowed)
          /\ LoggedIn(l).stagedWill = (l.stagedWill /\ ~lconf.willAllowed)
        BY <1>2 DEF LoggedIn, LoginFields
    <2> QED
        BY <1>1, <2>2, <2>3 DEF LoginFields
<1>4. WillsAreRight(login')
    BY <1>3 DEF WillsAreRight, Seen
<1>5. loginOut \in Seq(ToldPackets) /\ p \in ToldPackets
    BY DEF LoginIInv, LoginShape, ToldPackets
<1>6. ToldOnce(loginOut) /\ ~IsLetIn(loginOut)
    BY DEF LoginIInv, Seen
<1>7. LetsIn(p) /\ ~IsForLoggedIn(p)
    BY DEF LetsIn, IsForLoggedIn
<1> HIDE DEF p
<1>8. loginOut' \in Seq(ToldPackets) /\ ToldOnce(loginOut') /\ IsLetIn(loginOut')
    BY <1>1, <1>5, <1>6, <1>7, ToldOneMore
<1>9. l.asyncAuthenticating = login.asyncAuthenticating
    BY DEF Seen
<1>10. login.asyncAuthenticating \/ afterAsync = <<>>
    BY DEF LoginIInv, WaitsForPlugin
<1>11. AfterAsync(l) = afterAsync \/ AfterAsync(l) = <<>>
    BY DEF AfterAsync
<1>12. handledApp \in Seq(LoginPackets) /\ handledApp \o <<>> = handledApp
    BY DEF LoginIInv, LoginShape
<1>13. QueueEffect /\ afterAsync' = <<>>
    BY <1>1, <1>9, <1>10, <1>11, <1>12 DEF QueueEffect
<1>14. WaitsForPlugin(login', handledApp', afterAsync')
    BY <1>3, <1>13 DEF WaitsForPlugin
<1> QED
    BY <1>3, <1>4, <1>8, <1>13, <1>14 DEF HandlersEffect, ClientEffect

\* A client that is changed in nothing that the login is about.
LEMMA NoEffect ==
    ASSUME LoginIInv, login' \in LoginFields, WillsAreRight(login'),
           login'.authenticated = login.authenticated,
           login.asyncAuthenticating => login'.asyncAuthenticating,
           UNCHANGED <<loginOut, handledApp, afterAsync>>
    PROVE  HandlersEffect
<1>1. ClientEffect
    BY DEF LoginIInv, LoginShape, ClientEffect, WaitsForPlugin
<1> QED
    BY <1>1 DEF HandlersEffect, QueueEffect

LEMMA ContinuationEffect ==
    ASSUME LoginIInv, NEW l, Seen(l), NEW r, continuationOfAuthentication(l, r)
    PROVE  HandlersEffect
<1>1. CASE r = "auth_continue" \/ (r = "success" /\ l.authenticated)
    <2> DEFINE p == IF r = "success" THEN "AUTH success" ELSE "AUTH continue"
    <2>1. CASE /\ login' = l /\ loginOut' = loginOut \o <<p>>
               /\ UNCHANGED <<handledApp, afterAsync>>
        <3>1. loginOut \in Seq(ToldPackets) /\ p \in ToldPackets
            BY DEF LoginIInv, LoginShape, ToldPackets
        <3>2. ToldOnce(loginOut) /\ (l.authenticated <=> IsLetIn(loginOut))
            BY DEF LoginIInv, Seen
        <3>3. (IsForLoggedIn(p) => IsLetIn(loginOut)) /\ ~LetsIn(p) /\ ~IsConnack(p)
            BY <1>1, <3>2 DEF LetsIn, IsConnack, IsForLoggedIn
        <3> HIDE DEF p
        <3>4. loginOut' \in Seq(ToldPackets) /\ ToldOnce(loginOut') /\ (IsLetIn(loginOut') <=> IsLetIn(loginOut))
            BY <2>1, <3>1, <3>2, <3>3, ToldOneMore
        <3>5. ClientEffect
            BY <2>1, <3>2, <3>4 DEF ClientEffect, Seen, LoginIInv, WaitsForPlugin
        <3> QED
            BY <2>1, <3>5 DEF HandlersEffect, QueueEffect
    <2>2. r # "login_denied"
        BY <1>1
    <2>3. ~(r = "success" /\ ~l.authenticated)
        BY <1>1
    <2> QED
        BY <2>1, <2>2, <2>3 DEF continuationOfAuthentication, Write
<1>2. CASE r = "success" /\ ~l.authenticated
    <2>1. Succeed(l)
        BY <1>2 DEF continuationOfAuthentication
    <2> QED
        BY <1>2, <2>1, SucceedEffect
<1>3. CASE r = "login_denied"
    <2>1. EndLogin(l)
        BY <1>3 DEF continuationOfAuthentication
    <2> QED
        BY <2>1, EndLoginEffect
<1> QED
    BY <1>1, <1>2, <1>3 DEF continuationOfAuthentication

LEMMA AskPluginEffect ==
    ASSUME LoginIInv, NEW l, Seen(l), AskPlugin(l)
    PROVE  HandlersEffect
<1>1. CASE /\ login' = [l EXCEPT !.asyncAuthenticating = TRUE]
           /\ UNCHANGED <<loginOut, epollForOut, handledApp, afterAsync>>
    <2>1. /\ login' \in LoginFields /\ login'.authenticated = l.authenticated
          /\ login'.asyncAuthenticating = TRUE
          /\ login'.will = l.will /\ login'.stagedWill = l.stagedWill
        BY <1>1 DEF Seen, LoginFields
    <2>2. WillsAreRight(login')
        BY <2>1 DEF Seen, WillsAreRight
    <2> QED
        BY <1>1, <2>1, <2>2, NoEffect DEF Seen
<1>2. CASE continuationOfAuthentication(l, "auth_continue")
    BY <1>2, ContinuationEffect
<1>3. CASE \E r \in {"success", "login_denied"} : continuationOfAuthentication(l, r)
    BY <1>3, ContinuationEffect
<1> QED
    BY <1>1, <1>2, <1>3 DEF AskPlugin

LEMMA RemovedEffect ==
    ASSUME LoginIInv, login' = RemovedLogin(login), UNCHANGED <<loginOut, handledApp, afterAsync>>
    PROVE  HandlersEffect
<1>1. login \in LoginFields /\ WillsAreRight(login)
    BY DEF LoginIInv, LoginShape
<1>2. /\ login' \in LoginFields /\ login'.authenticated = login.authenticated
      /\ login'.asyncAuthenticating = login.asyncAuthenticating
      /\ login'.will = FALSE /\ login'.stagedWill = login.stagedWill
    BY <1>1 DEF RemovedLogin, LoginFields
<1>3. WillsAreRight(login')
    BY <1>1, <1>2 DEF WillsAreRight
<1> QED
    BY <1>2, <1>3, NoEffect

LEMMA SeenLogin ==
    ASSUME LoginIInv
    PROVE  Seen(login)
BY DEF LoginIInv, LoginShape, Seen

LEMMA ThrowProtocolErrorEffect ==
    ASSUME LoginIInv, ThrowProtocolError
    PROVE  /\ HandlersEffect /\ ready' = Waiting /\ UNCHANGED <<loginTasks, calls>>
           /\ willPublished' => willPublished \/ login.will
<1>1. CASE EndLogin(login) /\ UNCHANGED willPublished
    BY <1>1, SeenLogin, EndLoginEffect DEF ThrowProtocolError
<1>2. CASE /\ login' = RemovedLogin(login) /\ willPublished' = (willPublished \/ login.will)
           /\ UNCHANGED <<loginOut, epollForOut, handledApp, afterAsync>>
    BY <1>2, RemovedEffect DEF ThrowProtocolError
<1> QED
    BY <1>1, <1>2 DEF ThrowProtocolError

\* What an action has to do to keep the invariant.
LEMMA EffectKeepsIInv ==
    ASSUME LoginIInv, ClientEffect, UNCHANGED lconf, LoginShape',
           ready'.at = "result" => ready'.batch = <<>>,
           willPublished' => willPublished \/ login.will,
           InOrder(handledApp', afterAsync', Batch', device'.unread, device'.sent)
    PROVE  LoginIInv'
<1>1. WillNeedsLogin'
    BY DEF LoginIInv, WillNeedsLogin, WillsAreRight, ClientEffect
<1>2. WillsAreRight(login)'
    BY DEF WillsAreRight, ClientEffect
<1>3. WaitsForPlugin(login, handledApp, afterAsync)'
    BY DEF ClientEffect
<1>4. (ToldOnce(loginOut) /\ (login.authenticated <=> IsLetIn(loginOut)))'
    BY DEF ClientEffect
<1>5. InOrder(handledApp, afterAsync, Batch, device.unread, device.sent)'
    OBVIOUS
<1> QED
    BY <1>1, <1>2, <1>3, <1>4, <1>5 DEF LoginIInv

LEMMA LoginTyped ==
    ASSUME LoginIInv
    PROVE  /\ login \in LoginFields /\ ready \in ReadyStates
           /\ device \in [sent : Nat, auths : Nat, unread : Seq(LoginPackets)]
           /\ device.sent \in Nat /\ device.unread \in Seq(LoginPackets)
           /\ afterAsync \in Seq(LoginPackets) /\ handledApp \in Seq(LoginPackets)
           /\ Batch \in Seq(LoginPackets)
           /\ InOrder(handledApp, afterAsync, Batch, device.unread, device.sent)
<1>1. Batch \in Seq(LoginPackets)
    <2>1. CASE ready = Waiting
        BY <2>1 DEF Batch, Waiting
    <2>2. CASE ready # Waiting
        BY <2>2 DEF LoginIInv, LoginShape, ReadyStates, Batch
    <2> QED
        BY <2>1, <2>2
<1> QED
    BY <1>1 DEF LoginIInv, LoginShape

\* The order after the handlers, when nothing more was taken from the device.
LEMMA EffectOrder ==
    ASSUME LoginIInv, QueueEffect
    PROVE  /\ handledApp' \in Seq(LoginPackets) /\ afterAsync' \in Seq(LoginPackets)
           /\ InOrder(handledApp', afterAsync', Batch, device.unread, device.sent)
<1>1. handledApp \o afterAsync \in Seq(LoginPackets) /\ <<>> \in Seq(LoginPackets)
    BY LoginTyped
<1> QED
    BY <1>1, LoginTyped, QueuesStayInOrder DEF QueueEffect

-----------------------------------------------------------------------------
(* The login: the actions                                                    *)

LEMMA DeviceKeepsLogin ==
    ASSUME LoginIInv, NEW kind \in Kinds, DeviceSendsKind(kind)
    PROVE  LoginIInv'
<1> DEFINE p == [kind |-> kind, n |-> device.sent + 1]
<1>1. /\ device' = [sent |-> device.sent + 1, auths |-> device.auths + (IF kind = "AUTH" THEN 1 ELSE 0),
                    unread |-> Append(device.unread, p)]
      /\ UNCHANGED <<lconf, login, afterAsync, asyncAuthResult, loginTasks, calls, ready, loginOut,
                     flushed, epollForOut, handledApp, willPublished>>
    BY DEF DeviceSendsKind
<1>2. p \in LoginPackets /\ InOrder(handledApp, afterAsync, Batch, Append(device.unread, p), device.sent + 1)
    BY LoginTyped, SentInOrder
<1> HIDE DEF p
<1>3. device' \in [sent : Nat, auths : Nat, unread : Seq(LoginPackets)]
    BY <1>1, <1>2, LoginTyped
<1>4. LoginShape'
    BY <1>1, <1>3 DEF LoginIInv, LoginShape
<1>5. Batch' = Batch
    BY <1>1 DEF Batch
<1>6. ClientEffect
    BY <1>1, LoginTyped, NoEffect DEF LoginIInv, HandlersEffect
<1>7. InOrder(handledApp', afterAsync', Batch', device'.unread, device'.sent)
    BY <1>1, <1>2, <1>5
<1> QED
    BY <1>1, <1>4, <1>6, <1>7, EffectKeepsIInv DEF LoginIInv

LEMMA PluginKeepsLogin ==
    ASSUME LoginIInv, NEW r \in Results, PluginAnswers(r)
    PROVE  LoginIInv'
<1>1. /\ loginTasks' = Append(loginTasks, r)
      /\ UNCHANGED <<lconf, device, login, afterAsync, asyncAuthResult, ready, loginOut, flushed,
                     epollForOut, handledApp, willPublished>>
    BY DEF PluginAnswers
<1>2. loginTasks' \in Seq(Results \cup {"remove"})
    BY <1>1 DEF LoginIInv, LoginShape
<1>3. LoginShape' /\ Batch' = Batch
    BY <1>1, <1>2 DEF LoginIInv, LoginShape, Batch
<1>4. ClientEffect
    BY <1>1, LoginTyped, NoEffect DEF LoginIInv, HandlersEffect
<1> QED
    BY <1>1, <1>3, <1>4, EffectKeepsIInv DEF LoginIInv

LEMMA PerformTaskKeepsLogin ==
    ASSUME LoginIInv, PerformTask
    PROVE  LoginIInv'
<1>1. /\ loginTasks # <<>> /\ loginTasks' = Tail(loginTasks)
      /\ UNCHANGED <<lconf, device, afterAsync, calls, ready, loginOut, flushed, handledApp>>
    BY DEF PerformTask
<1>2. /\ loginTasks' \in Seq(Results \cup {"remove"}) /\ Head(loginTasks) \in Results \cup {"remove"}
    BY <1>1 DEF LoginIInv, LoginShape
<1>3. Batch' = Batch
    BY <1>1 DEF Batch
<1>4. CASE Head(loginTasks) = "remove"
    <2>1. /\ login' = RemovedLogin(login) /\ willPublished' = (willPublished \/ login.will)
          /\ UNCHANGED asyncAuthResult
        BY <1>4 DEF PerformTask
    <2>2. HandlersEffect
        BY <1>1, <2>1, RemovedEffect
    <2>3. LoginShape'
        BY <1>1, <1>2, <2>1, <2>2 DEF LoginIInv, LoginShape, HandlersEffect, ClientEffect
    <2> QED
        BY <1>1, <1>3, <2>1, <2>2, <2>3, EffectKeepsIInv DEF LoginIInv, HandlersEffect
<1>5. CASE Head(loginTasks) # "remove"
    <2>1. asyncAuthResult' = Head(loginTasks) /\ UNCHANGED <<login, willPublished>>
        BY <1>5 DEF PerformTask, setAsyncAuthResult
    <2>2. HandlersEffect
        BY <1>1, <2>1, LoginTyped, NoEffect DEF LoginIInv
    <2>3. LoginShape'
        BY <1>1, <1>2, <1>5, <2>1 DEF LoginIInv, LoginShape
    <2> QED
        BY <1>1, <1>3, <2>1, <2>2, <2>3, EffectKeepsIInv DEF LoginIInv, HandlersEffect
<1> QED
    BY <1>4, <1>5

LEMMA ClientReadyKeepsLogin ==
    ASSUME LoginIInv, ClientReady
    PROVE  LoginIInv'
<1>1. /\ ready.at = "epoll"
      /\ UNCHANGED <<lconf, device, login, afterAsync, asyncAuthResult, loginTasks, calls, loginOut,
                     flushed, epollForOut, handledApp, willPublished>>
    BY DEF ClientReady
<1>2. PICK in, out \in BOOLEAN : ready' = [at |-> "result", in |-> in, out |-> out, batch |-> <<>>]
    BY DEF ClientReady
<1>3. ready' \in ReadyStates /\ ready'.at = "result" /\ ready'.batch = <<>>
    <2>1. <<>> \in Seq(LoginPackets)
        OBVIOUS
    <2> QED
        BY <1>2, <2>1 DEF ReadyStates
<1>4. Batch' = <<>> /\ Batch = <<>>
    BY <1>1, <1>3 DEF Batch
<1>5. LoginShape'
    BY <1>1, <1>3 DEF LoginIInv, LoginShape
<1>6. ClientEffect
    BY <1>1, LoginTyped, NoEffect DEF LoginIInv, HandlersEffect
<1> QED
    BY <1>1, <1>3, <1>4, <1>5, <1>6, LoginTyped, EffectKeepsIInv

LEMMA TakeResultKeepsLogin ==
    ASSUME LoginIInv, TakeResult
    PROVE  LoginIInv'
<1> DEFINE b == IF ready.in THEN device.unread ELSE <<>>
<1>1. /\ ready.at = "result" /\ ready' = [ready EXCEPT !.at = "packets", !.batch = b]
      /\ device' = IF ready.in THEN [device EXCEPT !.unread = <<>>] ELSE device
      /\ UNCHANGED <<lconf, loginTasks, calls, flushed, willPublished>>
    BY DEF TakeResult
<1>2. /\ HandlersEffect
      /\ asyncAuthResult' \in {asyncAuthResult, "none"}
    <2>1. CASE continuationOfAuthentication(login, asyncAuthResult) /\ asyncAuthResult' = "none"
        BY <2>1, SeenLogin, ContinuationEffect
    <2>2. CASE UNCHANGED <<asyncAuthResult, login, afterAsync, loginOut, epollForOut, handledApp>>
        BY <2>2, LoginTyped, NoEffect DEF LoginIInv
    <2> QED
        BY <2>1, <2>2 DEF TakeResult
<1>3. /\ ready \in [at : {"result", "packets"}, in : BOOLEAN, out : BOOLEAN, batch : Seq(LoginPackets)]
      /\ ready.batch = <<>> /\ Batch = <<>>
    BY <1>1, LoginTyped DEF LoginIInv, ReadyStates, Waiting, Batch
<1>4. b \in Seq(LoginPackets)
    BY LoginTyped
<1> HIDE DEF b
<1>5. ready' \in ReadyStates /\ ready'.at = "packets" /\ ready'.batch = b
    BY <1>1, <1>3, <1>4 DEF ReadyStates
<1>6. Batch' = b
    BY <1>5 DEF Batch
<1>7. device' \in [sent : Nat, auths : Nat, unread : Seq(LoginPackets)]
    <2>1. <<>> \in Seq(LoginPackets)
        OBVIOUS
    <2>2. [device EXCEPT !.unread = <<>>] \in [sent : Nat, auths : Nat, unread : Seq(LoginPackets)]
        BY <2>1, LoginTyped
    <2> QED
        BY <1>1, <2>2, LoginTyped
<1>8. InOrder(handledApp', afterAsync', Batch, device.unread, device.sent)
      /\ handledApp' \in Seq(LoginPackets) /\ afterAsync' \in Seq(LoginPackets)
    BY <1>2, EffectOrder DEF HandlersEffect
<1>9. InOrder(handledApp', afterAsync', b, device'.unread, device'.sent)
    <2>1. CASE ready.in
        <3>1. b = device.unread /\ device'.unread = <<>> /\ device'.sent = device.sent
            BY <1>1, <2>1, LoginTyped DEF b
        <3> QED
            BY <1>3, <1>8, <3>1, LoginTyped, QueuesStayInOrder
    <2>2. CASE ~ready.in
        BY <1>1, <1>3, <1>8, <2>2 DEF b
    <2> QED
        BY <2>1, <2>2
<1>10. LoginShape'
    BY <1>1, <1>2, <1>5, <1>7, <1>8 DEF LoginIInv, LoginShape, HandlersEffect, ClientEffect
<1> QED
    BY <1>1, <1>2, <1>5, <1>6, <1>9, <1>10, EffectKeepsIInv DEF HandlersEffect

\* A packet of the event is done with.
LEMMA HandledPacket ==
    ASSUME LoginIInv, ready.at = "packets", ready.batch # <<>>,
           ready' = [ready EXCEPT !.batch = Tail(@)]
    PROVE  /\ Batch = ready.batch /\ Batch # <<>> /\ Batch' = Tail(Batch)
           /\ ready' \in ReadyStates /\ ready'.at = "packets"
<1>1. ready \in [at : {"result", "packets"}, in : BOOLEAN, out : BOOLEAN, batch : Seq(LoginPackets)]
    BY LoginTyped DEF ReadyStates, Waiting
<1>2. Tail(ready.batch) \in Seq(LoginPackets)
    BY <1>1
<1>3. ready' \in ReadyStates /\ ready'.at = "packets" /\ ready'.batch = Tail(ready.batch)
    BY <1>1, <1>2 DEF ReadyStates
<1> QED
    BY <1>3 DEF Batch

\* Packets that are handled by what the login is about.
LEMMA PacketKeepsLogin ==
    ASSUME LoginIInv, ready.at = "packets", ready.batch # <<>>, HandlersEffect,
           UNCHANGED <<lconf, device, asyncAuthResult>>,
           loginTasks' \in Seq(Results \cup {"remove"}),
           willPublished' => willPublished \/ login.will,
           ready' = Waiting \/ ready' = [ready EXCEPT !.batch = Tail(@)]
    PROVE  LoginIInv'
<1>1. /\ handledApp' \in Seq(LoginPackets) /\ afterAsync' \in Seq(LoginPackets)
      /\ InOrder(handledApp', afterAsync', Batch, device.unread, device.sent)
    BY EffectOrder DEF HandlersEffect
<1>2. CASE ready' = Waiting
    <2>1. ready' \in ReadyStates /\ ready'.at = "epoll" /\ Batch' = <<>>
        BY <1>2 DEF ReadyStates, Waiting, Batch
    <2>2. LoginShape'
        BY <1>1, <2>1 DEF LoginIInv, LoginShape, HandlersEffect, ClientEffect
    <2>3. InOrder(handledApp', afterAsync', Batch', device'.unread, device'.sent)
        BY <1>1, <2>1, LoginTyped, QueuesStayInOrder
    <2> QED
        BY <2>1, <2>2, <2>3, EffectKeepsIInv DEF HandlersEffect
<1>3. CASE ready' = [ready EXCEPT !.batch = Tail(@)]
    <2>1. /\ Batch # <<>> /\ Batch' = Tail(Batch)
          /\ ready' \in ReadyStates /\ ready'.at = "packets"
        BY <1>3, HandledPacket
    <2>2. LoginShape'
        BY <1>1, <2>1 DEF LoginIInv, LoginShape, HandlersEffect, ClientEffect
    <2>3. InOrder(handledApp', afterAsync', Batch', device'.unread, device'.sent)
        BY <1>1, <2>1, LoginTyped, NextInOrder
    <2> QED
        BY <2>1, <2>2, <2>3, EffectKeepsIInv DEF HandlersEffect
<1> QED
    BY <1>2, <1>3

LEMMA TasksTyped ==
    ASSUME LoginIInv
    PROVE  /\ loginTasks \in Seq(Results \cup {"remove"})
           /\ Append(loginTasks, "remove") \in Seq(Results \cup {"remove"})
BY DEF LoginIInv, LoginShape

LEMMA HandleNothingKeepsLogin ==
    ASSUME LoginIInv, HandleNothing
    PROVE  LoginIInv'
<1>1. /\ ready.at = "packets" /\ ready.batch # <<>> /\ ready' = [ready EXCEPT !.batch = Tail(@)]
      /\ UNCHANGED <<lconf, device, asyncAuthResult, login, afterAsync, loginTasks, loginOut, handledApp,
                     willPublished>>
    BY DEF HandleNothing, NextPacketIs, Handled
<1>2. HandlersEffect
    BY <1>1, LoginTyped, NoEffect DEF LoginIInv
<1> QED
    BY <1>1, <1>2, TasksTyped, PacketKeepsLogin

LEMMA HandleConnectKeepsLogin ==
    ASSUME LoginIInv, HandleConnect
    PROVE  LoginIInv'
<1>1. /\ ready.at = "packets" /\ ready.batch # <<>> /\ UNCHANGED <<lconf, device, asyncAuthResult>>
    BY DEF HandleConnect, NextPacketIs
<1>2. CASE login.connectSeen
    BY <1>1, <1>2, TasksTyped, ThrowProtocolErrorEffect, PacketKeepsLogin DEF HandleConnect
<1>3. CASE ~login.connectSeen
    <2>1. Seen(ConnectedLogin)
        <3>1. lconf.extended \in BOOLEAN /\ lconf.will \in BOOLEAN
            BY LoginConfigsAssumption DEF LoginIInv, LoginShape
        <3>2. /\ ConnectedLogin \in LoginFields /\ ConnectedLogin.authenticated = login.authenticated
              /\ ConnectedLogin.asyncAuthenticating = login.asyncAuthenticating
              /\ ConnectedLogin.will = login.will /\ ConnectedLogin.stagedWill = lconf.will
            BY <3>1, LoginTyped DEF ConnectedLogin, LoginFields
        <3> QED
            BY <3>2 DEF Seen, WillsAreRight, LoginIInv
    <2>2. AskPlugin(ConnectedLogin) /\ Handled /\ UNCHANGED loginTasks
        BY <1>3 DEF HandleConnect
    <2> QED
        BY <1>1, <2>1, <2>2, TasksTyped, AskPluginEffect, PacketKeepsLogin DEF Handled
<1> QED
    BY <1>2, <1>3

LEMMA HandleExtendedAuthKeepsLogin ==
    ASSUME LoginIInv, HandleExtendedAuth
    PROVE  LoginIInv'
<1>1. /\ ready.at = "packets" /\ ready.batch # <<>> /\ UNCHANGED <<lconf, device, asyncAuthResult>>
    BY DEF HandleExtendedAuth, NextPacketIs
<1>2. CASE ~login.method
    BY <1>1, <1>2, TasksTyped, ThrowProtocolErrorEffect, PacketKeepsLogin DEF HandleExtendedAuth
<1>3. CASE login.method
    BY <1>1, <1>3, SeenLogin, TasksTyped, AskPluginEffect, PacketKeepsLogin
        DEF HandleExtendedAuth, Handled
<1> QED
    BY <1>2, <1>3

LEMMA HandleDisconnectKeepsLogin ==
    ASSUME LoginIInv, HandleDisconnect
    PROVE  LoginIInv'
<1>1. /\ ready.at = "packets" /\ ready.batch # <<>> /\ ready' = [ready EXCEPT !.batch = Tail(@)]
      /\ UNCHANGED <<lconf, device, asyncAuthResult, afterAsync, loginOut, handledApp, willPublished>>
      /\ loginTasks' = Append(loginTasks, "remove")
    BY DEF HandleDisconnect, NextPacketIs, Handled
<1>2. PICK success \in BOOLEAN :
          login' = [login EXCEPT !.stage = "Now", !.will = @ /\ ~success, !.stagedWill = @ /\ ~success]
    BY DEF HandleDisconnect
<1>3. (login.will /\ ~success) \in BOOLEAN /\ (login.stagedWill /\ ~success) \in BOOLEAN
    OBVIOUS
<1>4. /\ login' \in LoginFields /\ login'.authenticated = login.authenticated
      /\ login'.asyncAuthenticating = login.asyncAuthenticating
      /\ login'.will = (login.will /\ ~success) /\ login'.stagedWill = (login.stagedWill /\ ~success)
    BY <1>2, <1>3, LoginTyped DEF LoginFields
<1>5. WillsAreRight(login')
    BY <1>4 DEF LoginIInv, WillsAreRight
<1>6. HandlersEffect
    BY <1>1, <1>4, <1>5, NoEffect
<1> QED
    BY <1>1, <1>6, TasksTyped, PacketKeepsLogin

LEMMA HandleAppKeepsLogin ==
    ASSUME LoginIInv, HandleApp
    PROVE  LoginIInv'
<1>1. /\ ready.at = "packets" /\ ready.batch # <<>> /\ ready' = [ready EXCEPT !.batch = Tail(@)]
      /\ login.authenticated /\ handledApp' = Append(handledApp, Head(ready.batch))
      /\ UNCHANGED <<lconf, device, asyncAuthResult, login, afterAsync, loginTasks, loginOut, willPublished>>
    BY DEF HandleApp, NextPacketIs, Handled
<1>2. /\ Batch = ready.batch /\ Batch # <<>> /\ Batch' = Tail(Batch)
      /\ ready' \in ReadyStates /\ ready'.at = "packets"
    BY <1>1, HandledPacket
<1>3. afterAsync = <<>>
    BY <1>1 DEF LoginIInv, WaitsForPlugin
<1>4. /\ Head(Batch) \in LoginPackets
      /\ InOrder(Append(handledApp, Head(Batch)), afterAsync, Tail(Batch), device.unread, device.sent)
    BY <1>2, <1>3, LoginTyped, NextInOrder
<1>5. handledApp' \in Seq(LoginPackets)
    BY <1>1, <1>2, <1>4, LoginTyped, AppendedInOrder
<1>6. LoginShape'
    BY <1>1, <1>2, <1>5 DEF LoginIInv, LoginShape
<1>7. ClientEffect
    BY <1>1, <1>3 DEF LoginIInv, LoginShape, ClientEffect, WaitsForPlugin
<1> QED
    BY <1>1, <1>2, <1>4, <1>6, <1>7, EffectKeepsIInv

LEMMA DeferAppKeepsLogin ==
    ASSUME LoginIInv, DeferApp
    PROVE  LoginIInv'
<1>1. /\ ready.at = "packets" /\ ready.batch # <<>> /\ UNCHANGED <<lconf, device, asyncAuthResult>>
      /\ ~login.authenticated /\ login.asyncAuthenticating
    BY DEF DeferApp, NextPacketIs
<1>2. CASE ThrowProtocolError
    BY <1>1, <1>2, TasksTyped, ThrowProtocolErrorEffect, PacketKeepsLogin
<1>3. CASE /\ afterAsync' = Append(afterAsync, Head(ready.batch)) /\ Handled
           /\ UNCHANGED <<login, loginTasks, calls, loginOut, epollForOut, handledApp>>
    <2>1. /\ Batch = ready.batch /\ Batch # <<>> /\ Batch' = Tail(Batch)
          /\ ready' \in ReadyStates /\ ready'.at = "packets"
        BY <1>1, <1>3, HandledPacket DEF Handled
    <2>2. /\ Head(Batch) \in LoginPackets
          /\ InOrder(handledApp, Append(afterAsync, Head(Batch)), Tail(Batch), device.unread, device.sent)
        BY <2>1, LoginTyped, NextInOrder
    <2>3. afterAsync' \in Seq(LoginPackets)
        BY <1>3, <2>1, <2>2, LoginTyped, AppendedInOrder
    <2>4. LoginShape'
        BY <1>1, <1>3, <2>1, <2>3 DEF LoginIInv, LoginShape
    <2>5. ClientEffect
        BY <1>1, <1>3 DEF LoginIInv, LoginShape, ClientEffect, WaitsForPlugin
    <2> QED
        BY <1>1, <1>3, <2>1, <2>2, <2>4, <2>5, EffectKeepsIInv DEF Handled
<1> QED
    BY <1>2, <1>3 DEF DeferApp

LEMMA DropAppKeepsLogin ==
    ASSUME LoginIInv, DropApp
    PROVE  LoginIInv'
<1>1. /\ ready.at = "packets" /\ ready.batch # <<>> /\ UNCHANGED <<lconf, device, asyncAuthResult>>
    BY DEF DropApp, NextPacketIs
<1>2. CASE ThrowProtocolError
    BY <1>1, <1>2, TasksTyped, ThrowProtocolErrorEffect, PacketKeepsLogin
<1>3. CASE /\ login' = [login EXCEPT !.dropped = @ + 1] /\ Handled
           /\ UNCHANGED <<afterAsync, loginTasks, calls, loginOut, epollForOut, handledApp>>
    <2>1. /\ login' \in LoginFields /\ login'.authenticated = login.authenticated
          /\ login'.asyncAuthenticating = login.asyncAuthenticating
          /\ login'.will = login.will /\ login'.stagedWill = login.stagedWill
        BY <1>3, LoginTyped DEF LoginFields
    <2>2. WillsAreRight(login')
        BY <2>1 DEF LoginIInv, WillsAreRight
    <2>3. HandlersEffect
        BY <1>3, <2>1, <2>2, NoEffect
    <2> QED
        BY <1>1, <1>3, <2>3, TasksTyped, PacketKeepsLogin DEF Handled
<1> QED
    BY <1>2, <1>3 DEF DropApp

LEMMA EndOfEventKeepsLogin ==
    ASSUME LoginIInv, EndOfEvent
    PROVE  LoginIInv'
<1>1. /\ ready' = Waiting
      /\ UNCHANGED <<lconf, device, afterAsync, asyncAuthResult, loginTasks, calls, loginOut, handledApp>>
    BY DEF EndOfEvent
<1>2. HandlersEffect /\ (willPublished' => willPublished \/ login.will)
    <2>1. CASE login' = RemovedLogin(login) /\ willPublished' = (willPublished \/ login.will)
        BY <1>1, <2>1, RemovedEffect
    <2>2. CASE login' = login /\ (willPublished' => willPublished \/ login.will)
        BY <1>1, <2>2, LoginTyped, NoEffect DEF LoginIInv
    <2>3. CASE ~ready.out
        BY <2>2, <2>3 DEF EndOfEvent
    <2>4. CASE ready.out /\ login.stage = "NotInitiated"
        BY <2>2, <2>4 DEF EndOfEvent
    <2>5. CASE ready.out /\ login.stage # "NotInitiated"
        <3>1. login' = RemovedLogin(login) /\ (willPublished' => willPublished \/ login.will)
            BY <2>5 DEF EndOfEvent
        <3> QED
            BY <1>1, <3>1, RemovedEffect
    <2> QED
        BY <2>3, <2>4, <2>5
<1>3. ready' \in ReadyStates /\ ready'.at = "epoll" /\ Batch' = <<>>
    BY <1>1 DEF ReadyStates, Waiting, Batch
<1>4. LoginShape'
    BY <1>1, <1>2, <1>3 DEF LoginIInv, LoginShape, HandlersEffect, ClientEffect
<1>5. InOrder(handledApp', afterAsync', Batch', device'.unread, device'.sent)
    BY <1>1, <1>3, LoginTyped, QueuesStayInOrder
<1> QED
    BY <1>1, <1>2, <1>3, <1>4, <1>5, EffectKeepsIInv DEF HandlersEffect

LEMMA SocketDisconnectKeepsLogin ==
    ASSUME LoginIInv, SocketDisconnect
    PROVE  LoginIInv'
<1>1. /\ login' = RemovedLogin(login) /\ willPublished' = (willPublished \/ login.will)
      /\ UNCHANGED <<lconf, device, afterAsync, asyncAuthResult, loginTasks, calls, ready, loginOut,
                     flushed, epollForOut, handledApp>>
    BY DEF SocketDisconnect
<1>2. HandlersEffect
    BY <1>1, RemovedEffect
<1>3. LoginShape' /\ Batch' = Batch
    BY <1>1, <1>2 DEF LoginIInv, LoginShape, Batch, HandlersEffect, ClientEffect
<1> QED
    BY <1>1, <1>2, <1>3, EffectKeepsIInv DEF LoginIInv, HandlersEffect

LEMMA LoginInitIInv ==
    LoginInit => LoginIInv
<1> SUFFICES ASSUME LoginInit PROVE LoginIInv
    OBVIOUS
<1>1. <<>> \in Seq(LoginPackets) /\ <<>> \in Seq(ToldPackets) /\ <<>> \in Seq(Results \cup {"remove"})
    OBVIOUS
<1>2. /\ login \in LoginFields /\ login.authenticated = FALSE /\ login.will = FALSE
      /\ login.stagedWill = FALSE
    BY DEF LoginInit, LoginFields
<1>3. LoginShape
    BY <1>1, <1>2 DEF LoginInit, LoginShape, ReadyStates
<1>4. /\ handledApp = <<>> /\ afterAsync = <<>> /\ Batch = <<>> /\ device.unread = <<>> /\ loginOut = <<>>
      /\ ready.at = "epoll" /\ ~willPublished
    BY DEF LoginInit, Batch, Waiting
<1>5. InOrder(handledApp, afterAsync, Batch, device.unread, device.sent)
    BY <1>4, NothingInOrder DEF InOrder
<1>6. ToldOnce(loginOut) /\ ~IsLetIn(loginOut)
    <2>1. Len(loginOut) = 0
        BY <1>4
    <2> QED
        BY <2>1 DEF ToldOnce, IsLetIn
<1> QED
    BY <1>2, <1>3, <1>4, <1>5, <1>6 DEF LoginIInv, WaitsForPlugin, WillsAreRight, WillNeedsLogin

(* For any device, plugin and bounds: nobody is let in twice or denied after it, *)
(* packets are handled in the order in which they were sent, also those that     *)
(* waited for the plugin, and a will needs a login that may publish it           *)
(* (threaddata.cpp:194, client.cpp:1310).                                       *)
THEOREM LoginStaysSound == LoginSpec => []LoginIsSound
<1>1. LoginInit => LoginIInv
    BY LoginInitIInv
<1>2. LoginIInv /\ [LoginNext]_loginVars => LoginIInv'
    <2> SUFFICES ASSUME LoginIInv, [LoginNext]_loginVars PROVE LoginIInv'
        OBVIOUS
    <2>1. CASE UNCHANGED loginVars
        BY <2>1 DEF loginVars, LoginIInv, LoginShape, Batch, WaitsForPlugin, WillsAreRight, WillNeedsLogin
    <2>2. CASE DeviceSends \/ DeviceAnswers
        BY <2>2, DeviceKeepsLogin DEF DeviceSends, DeviceAnswers, Kinds
    <2>3. CASE \E r \in Results : PluginAnswers(r)
        BY <2>3, PluginKeepsLogin
    <2>4. CASE LoopStep
        BY <2>4, PerformTaskKeepsLogin, ClientReadyKeepsLogin, TakeResultKeepsLogin,
           HandleNothingKeepsLogin, HandleConnectKeepsLogin, HandleExtendedAuthKeepsLogin,
           HandleDisconnectKeepsLogin, HandleAppKeepsLogin, DeferAppKeepsLogin, DropAppKeepsLogin,
           EndOfEventKeepsLogin DEF LoopStep
    <2>5. CASE SocketDisconnect
        BY <2>5, SocketDisconnectKeepsLogin
    <2> QED
        BY <2>1, <2>2, <2>3, <2>4, <2>5 DEF LoginNext
<1>3. LoginIInv => LoginIsSound
    BY DEF LoginIInv, LoginIsSound, OneConnack, HandledInOrder, WillNeedsLogin, InOrder, Increasing,
           Before, WaitsForPlugin, ToldOnce, IsLetIn, LetsIn, IsConnack, IsForLoggedIn
<1> QED
    BY <1>1, <1>2, <1>3, PTL DEF LoginSpec

-----------------------------------------------------------------------------
(* Topic aliases: the inductive invariant                                    *)

OutPackets == [topic : OutTopics \cup {NoTopic}, alias : 0..MaxAlias, skip : BOOLEAN]
Writing(t) == writer[t] # Resting

\* A packet that tells the client an alias, among the first n of a buffer.
Introduced(buf, a, n) == \E j \in 1..n : buf[j].alias = a /\ ~buf[j].skip

\* An alias is that of one topic.
AliasesDiffer(al, cur) ==
    /\ \A topic \in OutTopics : al[topic] <= cur
    /\ \A topic, other \in OutTopics : al[topic] # 0 /\ al[topic] = al[other] => topic = other

\* Aliases in packets, and those that the client has learned, are those of the topics.
BufferAgrees(buf, al) ==
    \A i \in 1..Len(buf) :
        /\ buf[i].alias # 0 => buf[i].topic \in OutTopics /\ al[buf[i].topic] = buf[i].alias
        /\ buf[i].skip => buf[i].alias # 0
DeviceAgrees(dev, al) ==
    \A a \in 1..MaxAlias : dev[a] # NoTopic => dev[a] \in OutTopics /\ al[dev[a]] = a

\* An alias in use is known to the client, or on its way to it.
AliasesReach(buf, al, dev) ==
    \A topic \in OutTopics :
        al[topic] # 0 => dev[al[topic]] = topic \/ Introduced(buf, al[topic], Len(buf))
SkipsReach(buf, dev) ==
    \A i \in 1..Len(buf) :
        buf[i].skip => dev[buf[i].alias] = buf[i].topic \/ Introduced(buf, buf[i].alias, i - 1)

AliasesRight(buf, al, dev, cur) ==
    /\ AliasesDiffer(al, cur) /\ BufferAgrees(buf, al) /\ DeviceAgrees(dev, al)
    /\ AliasesReach(buf, al, dev) /\ SkipsReach(buf, dev)

\* A thread that has taken an alias: a new one with the lock, or that of the topic.
WriterAgrees(t) ==
    LET w == writer[t] IN
    /\ w.topic \in OutTopics /\ w.alias \in 0..MaxAlias /\ w.skip \in BOOLEAN /\ w.next \in BOOLEAN
    /\ w.next => /\ aliasLock = t /\ w.alias = cur_alias + 1 /\ ~w.skip /\ aliases[w.topic] = 0
    /\ w.skip => w.alias # 0 /\ aliases[w.topic] = w.alias
    /\ ~w.next /\ ~w.skip => w.alias = 0

OutShape ==
    /\ AliasTypeOK /\ writebuf \in Seq(OutPackets)
    /\ DOMAIN writer = Writers /\ writer = [t \in Writers |-> writer[t]]
    /\ readyForWriting \in BOOLEAN /\ readyForReading \in BOOLEAN /\ changingRead \in BOOLEAN
    /\ epollIn \in BOOLEAN /\ epollOut \in BOOLEAN

OutIInv ==
    /\ OutShape
    /\ AliasesRight(writebuf, aliases, deviceAliases, cur_alias)
    /\ \A t \in Writers : Writing(t) => WriterAgrees(t)
    /\ EpollIsRight

LEMMA HasMaximum ==
    ASSUME NEW n \in Nat, NEW S, S \subseteq 1..n, S # {}
    PROVE  \E x \in S : \A y \in S : y <= x
<1> DEFINE T == {n - x : x \in S}
<1>1. T \subseteq Nat /\ T # {}
    <2>1. \A x \in S : x \in 1..n /\ n - x \in Nat
        OBVIOUS
    <2> QED
        BY <2>1
<1>2. PICK m \in T : \A k \in T : ~ (<<k, m>> \in OpToRel(<, Nat))
    BY <1>1, NatLessThanWellFounded, WFMin
<1>3. \A k \in T : ~ (k < m)
    BY <1>1, <1>2 DEF OpToRel
<1>4. PICK x \in S : m = n - x
    BY <1>2
<1>5. ASSUME NEW y \in S
      PROVE  y <= x
    <2>1. n - y \in T
        OBVIOUS
    <2>2. ~(n - y < n - x)
        BY <1>3, <1>4, <2>1
    <2> QED
        BY <2>2
<1> QED
    BY <1>5

\* The alias that a packet without a topic has is known when it arrives.
LEMMA RightAliasIsKnown ==
    ASSUME OutIInv
    PROVE  AliasIsKnown
<1>1. /\ writebuf \in Seq(OutPackets) /\ Len(writebuf) \in Nat
      /\ AliasesDiffer(aliases, cur_alias) /\ BufferAgrees(writebuf, aliases)
      /\ SkipsReach(writebuf, deviceAliases)
    BY DEF OutIInv, OutShape, AliasesRight
<1> SUFFICES ASSUME NEW i \in 1..Len(writebuf), writebuf[i].skip
             PROVE  LET a == writebuf[i].alias
                        defs == {j \in 1..(i - 1) : writebuf[j].alias = a /\ ~writebuf[j].skip}
                    IN  writebuf[i].topic = IF defs = {} THEN deviceAliases[a]
                            ELSE writebuf[CHOOSE j \in defs : \A k \in defs : k <= j].topic
    BY DEF AliasIsKnown
<1> DEFINE a == writebuf[i].alias
           defs == {j \in 1..(i - 1) : writebuf[j].alias = a /\ ~writebuf[j].skip}
<1>2. /\ a # 0 /\ writebuf[i].topic \in OutTopics /\ aliases[writebuf[i].topic] = a
      /\ deviceAliases[a] = writebuf[i].topic \/ Introduced(writebuf, a, i - 1)
    BY <1>1 DEF BufferAgrees, SkipsReach
<1>3. CASE defs = {}
    <2>1. ~Introduced(writebuf, a, i - 1)
        BY <1>3 DEF Introduced
    <2> QED
        BY <1>2, <1>3, <2>1
<1>4. CASE defs # {}
    <2> DEFINE j == CHOOSE x \in defs : \A k \in defs : k <= x
    <2>1. i - 1 \in Nat /\ defs \subseteq 1..(i - 1)
        OBVIOUS
    <2>2. \E x \in defs : \A k \in defs : k <= x
        BY <1>4, <2>1, HasMaximum
    <2>3. j \in defs
        BY <2>2
    <2>4. j \in 1..Len(writebuf) /\ writebuf[j].alias = a
        BY <1>1, <2>3
    <2> HIDE DEF j
    <2>5. writebuf[j].topic \in OutTopics /\ aliases[writebuf[j].topic] = a
        BY <1>1, <1>2, <2>4 DEF BufferAgrees
    <2>6. writebuf[j].topic = writebuf[i].topic
        BY <1>1, <1>2, <2>5 DEF AliasesDiffer
    <2> QED
        BY <1>4, <2>6 DEF j
<1> QED
    BY <1>3, <1>4

-----------------------------------------------------------------------------
(* Topic aliases: what the steps do                                          *)

LEMMA AppendedPacket ==
    ASSUME NEW buf \in Seq(OutPackets), NEW p \in OutPackets
    PROVE  /\ Append(buf, p) \in Seq(OutPackets) /\ Len(buf) \in Nat
           /\ Len(Append(buf, p)) = Len(buf) + 1
           /\ \A i \in 1..Len(buf) : Append(buf, p)[i] = buf[i]
           /\ Append(buf, p)[Len(buf) + 1] = p
           /\ \A i \in 1..Len(Append(buf, p)) : i \in 1..Len(buf) \/ i = Len(buf) + 1
           /\ \A a : Introduced(buf, a, Len(buf)) => Introduced(Append(buf, p), a, Len(Append(buf, p)))
<1>1. /\ Append(buf, p) \in Seq(OutPackets) /\ Len(buf) \in Nat
      /\ Len(Append(buf, p)) = Len(buf) + 1
      /\ \A i \in 1..Len(buf) : Append(buf, p)[i] = buf[i]
      /\ Append(buf, p)[Len(buf) + 1] = p
    OBVIOUS
<1>2. \A i \in 1..Len(Append(buf, p)) : i \in 1..Len(buf) \/ i = Len(buf) + 1
    BY <1>1
<1>3. \A a : Introduced(buf, a, Len(buf)) => Introduced(Append(buf, p), a, Len(Append(buf, p)))
    BY <1>1 DEF Introduced
<1> QED
    BY <1>1, <1>2, <1>3

LEMMA IntroducedStays ==
    ASSUME NEW buf \in Seq(OutPackets), NEW p \in OutPackets, NEW a, NEW n \in 0..Len(buf),
           Introduced(buf, a, n)
    PROVE  Introduced(Append(buf, p), a, n)
<1>1. \A j \in 1..n : j \in 1..Len(buf)
    OBVIOUS
<1>2. \A j \in 1..n : Append(buf, p)[j] = buf[j]
    BY <1>1, AppendedPacket
<1> QED
    BY <1>2 DEF Introduced

LEMMA KnownAliasKeeps ==
    ASSUME NEW buf \in Seq(OutPackets), NEW al, NEW dev, NEW cur, AliasesRight(buf, al, dev, cur),
           NEW p \in OutPackets,
           p.alias # 0 => p.topic \in OutTopics /\ al[p.topic] = p.alias,
           p.skip => p.alias # 0
    PROVE  AliasesRight(Append(buf, p), al, dev, cur)
<1> DEFINE new == Append(buf, p)
           n == Len(buf)
<1>1. /\ n \in Nat /\ Len(new) = n + 1 /\ \A i \in 1..n : new[i] = buf[i]
      /\ new[n + 1] = p /\ \A i \in 1..Len(new) : i \in 1..n \/ i = n + 1
    BY AppendedPacket
<1>2. \A a : Introduced(buf, a, n) => Introduced(new, a, Len(new))
    BY AppendedPacket
<1> HIDE DEF new
<1>3. BufferAgrees(new, al)
    BY <1>1 DEF AliasesRight, BufferAgrees
<1>4. AliasesReach(new, al, dev)
    BY <1>2 DEF AliasesRight, AliasesReach
<1>5. SkipsReach(new, dev)
    <2> SUFFICES ASSUME NEW i \in 1..Len(new), new[i].skip
                 PROVE  dev[new[i].alias] = new[i].topic \/ Introduced(new, new[i].alias, i - 1)
        BY DEF SkipsReach
    <2>1. CASE i \in 1..n
        <3>1. i - 1 \in 0..n
            BY <1>1, <2>1
        <3>2. dev[buf[i].alias] = buf[i].topic \/ Introduced(buf, buf[i].alias, i - 1)
            BY <1>1, <2>1 DEF AliasesRight, SkipsReach
        <3>3. Introduced(buf, buf[i].alias, i - 1) => Introduced(new, buf[i].alias, i - 1)
            BY <3>1, IntroducedStays DEF new
        <3> QED
            BY <1>1, <2>1, <3>2, <3>3
    <2>2. CASE i = n + 1
        <3>1. new[i] = p /\ p.alias # 0 /\ p.topic \in OutTopics /\ al[p.topic] = p.alias
            BY <1>1, <2>2
        <3>2. dev[p.alias] = p.topic \/ Introduced(buf, p.alias, n)
            BY <3>1 DEF AliasesRight, AliasesReach
        <3>3. n \in 0..n /\ i - 1 = n
            BY <1>1, <2>2
        <3>4. Introduced(buf, p.alias, n) => Introduced(new, p.alias, n)
            BY <3>3, IntroducedStays DEF new
        <3> QED
            BY <3>1, <3>2, <3>3, <3>4
    <2> QED
        BY <1>1, <2>1, <2>2
<1> QED
    BY <1>3, <1>4, <1>5 DEF AliasesRight, new

LEMMA NewAliasKeeps ==
    ASSUME NEW buf \in Seq(OutPackets), NEW al \in [OutTopics -> 0..MaxAlias], NEW dev,
           NEW cur \in 0..MaxAlias, AliasesRight(buf, al, dev, cur),
           NEW topic \in OutTopics, al[topic] = 0, cur + 1 \in 0..MaxAlias
    PROVE  AliasesRight(Append(buf, Publish(topic, cur + 1, FALSE)), [al EXCEPT ![topic] = cur + 1],
                        dev, cur + 1)
<1> DEFINE p == Publish(topic, cur + 1, FALSE)
           new == Append(buf, p)
           n == Len(buf)
           later == [al EXCEPT ![topic] = cur + 1]
<1>0. p \in OutPackets /\ p.topic = topic /\ p.alias = cur + 1 /\ ~p.skip
    BY DEF Publish, OutPackets
<1> HIDE DEF p
<1>1. /\ n \in Nat /\ Len(new) = n + 1 /\ \A i \in 1..n : new[i] = buf[i]
      /\ new[n + 1] = p /\ \A i \in 1..Len(new) : i \in 1..n \/ i = n + 1
    BY <1>0, AppendedPacket
<1>2. \A a : Introduced(buf, a, n) => Introduced(new, a, Len(new))
    BY <1>0, AppendedPacket
<1> HIDE DEF new
<1>3. /\ later[topic] = cur + 1
      /\ \A other \in OutTopics : other # topic => later[other] = al[other]
      /\ \A other \in OutTopics : al[other] # 0 => other # topic /\ later[other] = al[other]
      /\ \A other \in OutTopics : al[other] \in 0..MaxAlias /\ al[other] <= cur
    BY DEF AliasesRight, AliasesDiffer
<1> HIDE DEF later
<1>4. AliasesDiffer(later, cur + 1)
    <2>1. ASSUME NEW other \in OutTopics
          PROVE  later[other] <= cur + 1
        BY <1>3
    <2>2. ASSUME NEW t \in OutTopics, NEW u \in OutTopics, later[t] # 0, later[t] = later[u]
          PROVE  t = u
        <3>1. CASE t = topic
            BY <1>3, <2>2, <3>1
        <3>2. CASE u = topic
            BY <1>3, <2>2, <3>2
        <3>3. CASE t # topic /\ u # topic
            BY <1>3, <2>2, <3>3 DEF AliasesRight, AliasesDiffer
        <3> QED
            BY <3>1, <3>2, <3>3
    <2> QED
        BY <2>1, <2>2 DEF AliasesDiffer
<1>5. BufferAgrees(new, later)
    <2> SUFFICES ASSUME NEW i \in 1..Len(new)
                 PROVE  /\ new[i].alias # 0 => new[i].topic \in OutTopics /\ later[new[i].topic] = new[i].alias
                        /\ new[i].skip => new[i].alias # 0
        BY DEF BufferAgrees
    <2>1. CASE i \in 1..n
        BY <1>1, <1>3, <2>1 DEF AliasesRight, BufferAgrees
    <2>2. CASE i = n + 1
        BY <1>0, <1>1, <1>3, <2>2
    <2> QED
        BY <1>1, <2>1, <2>2
<1>6. DeviceAgrees(dev, later)
    <2> SUFFICES ASSUME NEW a \in 1..MaxAlias, dev[a] # NoTopic
                 PROVE  dev[a] \in OutTopics /\ later[dev[a]] = a
        BY DEF DeviceAgrees
    <2>1. dev[a] \in OutTopics /\ al[dev[a]] = a /\ a # 0
        BY MaxAliasAssumption DEF AliasesRight, DeviceAgrees
    <2> QED
        BY <1>3, <2>1
<1>7. AliasesReach(new, later, dev)
    <2> SUFFICES ASSUME NEW t \in OutTopics, later[t] # 0
                 PROVE  dev[later[t]] = t \/ Introduced(new, later[t], Len(new))
        BY DEF AliasesReach
    <2>1. CASE t = topic
        BY <1>0, <1>1, <1>3, <2>1 DEF Introduced
    <2>2. CASE t # topic
        BY <1>2, <1>3, <2>2 DEF AliasesRight, AliasesReach
    <2> QED
        BY <2>1, <2>2
<1>8. SkipsReach(new, dev)
    <2> SUFFICES ASSUME NEW i \in 1..Len(new), new[i].skip
                 PROVE  dev[new[i].alias] = new[i].topic \/ Introduced(new, new[i].alias, i - 1)
        BY DEF SkipsReach
    <2>1. i \in 1..n
        BY <1>0, <1>1
    <2>2. i - 1 \in 0..n
        BY <1>1, <2>1
    <2>3. dev[buf[i].alias] = buf[i].topic \/ Introduced(buf, buf[i].alias, i - 1)
        BY <1>1, <2>1 DEF AliasesRight, SkipsReach
    <2>4. Introduced(buf, buf[i].alias, i - 1) => Introduced(new, buf[i].alias, i - 1)
        BY <1>0, <2>2, IntroducedStays DEF new
    <2> QED
        BY <1>1, <2>1, <2>3, <2>4
<1> QED
    BY <1>4, <1>5, <1>6, <1>7, <1>8 DEF AliasesRight, new, later, p

\* What the client learns from the packets that its socket takes.
LEMMA LearnedAliases ==
    ASSUME NEW packets \in Seq(OutPackets), NEW a \in 1..MaxAlias
    PROVE  /\ ~Introduced(packets, a, Len(packets)) => Learn(packets)[a] = deviceAliases[a]
           /\ Introduced(packets, a, Len(packets)) =>
                 \E j \in 1..Len(packets) : /\ packets[j].alias = a /\ ~packets[j].skip
                                            /\ Learn(packets)[a] = packets[j].topic
<1> DEFINE defs == {i \in 1..Len(packets) : packets[i].alias = a /\ ~packets[i].skip}
           last == CHOOSE i \in defs : \A j \in defs : j <= i
<1>1. Learn(packets)[a] = IF defs = {} THEN deviceAliases[a] ELSE packets[last].topic
    BY DEF Learn
<1>2. defs # {} => last \in defs
    <2>1. Len(packets) \in Nat /\ defs \subseteq 1..Len(packets)
        OBVIOUS
    <2>2. defs # {} => \E i \in defs : \A j \in defs : j <= i
        BY <2>1, HasMaximum
    <2> QED
        BY <2>2
<1>3. defs # {} <=> Introduced(packets, a, Len(packets))
    BY DEF Introduced
<1> HIDE DEF last
<1> QED
    BY <1>1, <1>2, <1>3

LEMMA TakenPackets ==
    ASSUME NEW buf \in Seq(OutPackets), NEW n \in 0..Len(buf)
    PROVE  /\ SubSeq(buf, 1, n) \in Seq(OutPackets) /\ Len(SubSeq(buf, 1, n)) = n
           /\ \A i \in 1..n : SubSeq(buf, 1, n)[i] = buf[i]
           /\ SubSeq(buf, n + 1, Len(buf)) \in Seq(OutPackets)
           /\ Len(SubSeq(buf, n + 1, Len(buf))) = Len(buf) - n
           /\ \A i \in 1..(Len(buf) - n) : SubSeq(buf, n + 1, Len(buf))[i] = buf[n + i]
<1>1. Len(buf) \in Nat /\ n \in Nat /\ \A i \in 1..Len(buf) : buf[i] \in OutPackets
    OBVIOUS
<1>2. SubSeq(buf, 1, n) \in Seq(OutPackets) /\ Len(SubSeq(buf, 1, n)) = IF 1 <= n THEN n - 1 + 1 ELSE 0
    BY <1>1, SubSeqProperties
<1>3. \A i \in 1..(n - 1 + 1) : SubSeq(buf, 1, n)[i] = buf[1 + i - 1]
    BY <1>1, SubSeqProperties
<1>4. /\ SubSeq(buf, n + 1, Len(buf)) \in Seq(OutPackets)
      /\ Len(SubSeq(buf, n + 1, Len(buf))) = IF n + 1 <= Len(buf) THEN Len(buf) - (n + 1) + 1 ELSE 0
    BY <1>1, SubSeqProperties
<1>5. \A i \in 1..(Len(buf) - (n + 1) + 1) : SubSeq(buf, n + 1, Len(buf))[i] = buf[n + 1 + i - 1]
    BY <1>1, SubSeqProperties
<1>6. n - 1 + 1 = n /\ Len(buf) - (n + 1) + 1 = Len(buf) - n
    BY <1>1
<1>7. ASSUME NEW i \in 1..n
      PROVE  SubSeq(buf, 1, n)[i] = buf[i]
    <2>1. i \in 1..(n - 1 + 1) /\ 1 + i - 1 = i
        BY <1>6
    <2> QED
        BY <1>3, <2>1
<1>8. ASSUME NEW i \in 1..(Len(buf) - n)
      PROVE  SubSeq(buf, n + 1, Len(buf))[i] = buf[n + i]
    <2>1. i \in 1..(Len(buf) - (n + 1) + 1) /\ n + 1 + i - 1 = n + i
        BY <1>1, <1>6
    <2> QED
        BY <1>5, <2>1
<1>9. Len(SubSeq(buf, 1, n)) = n /\ Len(SubSeq(buf, n + 1, Len(buf))) = Len(buf) - n
    <2>1. (1 <= n \/ n = 0) /\ (n + 1 <= Len(buf) \/ n = Len(buf)) /\ Len(buf) - Len(buf) = 0
        BY <1>1
    <2>2. Len(SubSeq(buf, 1, n)) = n
        BY <1>1, <1>2, <2>1
    <2>3. Len(SubSeq(buf, n + 1, Len(buf))) = Len(buf) - n
        <3>1. CASE n + 1 <= Len(buf)
            BY <1>4, <1>6, <3>1
        <3>2. CASE n = Len(buf)
            <4>1. ~(n + 1 <= Len(buf)) /\ Len(buf) - n = 0
                BY <1>1, <3>2
            <4> QED
                BY <1>4, <4>1
        <3> QED
            BY <2>1, <3>1, <3>2
    <2> QED
        BY <2>2, <2>3
<1> QED
    BY <1>2, <1>4, <1>7, <1>8, <1>9

LEMMA TakenKeeps ==
    ASSUME NEW buf \in Seq(OutPackets), NEW al \in [OutTopics -> 0..MaxAlias], NEW cur,
           deviceAliases \in [1..MaxAlias -> OutTopics \cup {NoTopic}],
           AliasesRight(buf, al, deviceAliases, cur), NEW n \in 0..Len(buf)
    PROVE  /\ AliasesRight(SubSeq(buf, n + 1, Len(buf)), al, Learn(SubSeq(buf, 1, n)), cur)
           /\ Learn(SubSeq(buf, 1, n)) \in [1..MaxAlias -> OutTopics \cup {NoTopic}]
<1> DEFINE taken == SubSeq(buf, 1, n)
           new == SubSeq(buf, n + 1, Len(buf))
           dev == Learn(taken)
<1>1. /\ taken \in Seq(OutPackets) /\ Len(taken) = n /\ \A i \in 1..n : taken[i] = buf[i]
      /\ new \in Seq(OutPackets) /\ Len(new) = Len(buf) - n
      /\ \A i \in 1..Len(new) : new[i] = buf[n + i]
    BY TakenPackets
<1>2. /\ Len(buf) \in Nat /\ n \in Nat
      /\ \A i \in 1..Len(new) : n + i \in 1..Len(buf)
      /\ \A i \in 1..Len(buf) : i \in 1..n \/ i - n \in 1..Len(new)
      /\ \A i \in 1..n : i \in 1..Len(buf)
      /\ \A i \in 1..Len(buf) : i \notin 1..n => n + (i - n) = i
    BY <1>1
<1> HIDE DEF taken, new
\* What it knows of an alias is still so, and what was taken is known.
<1>3. ASSUME NEW a \in 1..MaxAlias
      PROVE  \/ dev[a] = deviceAliases[a] /\ ~Introduced(taken, a, n)
             \/ \E j \in 1..n : buf[j].alias = a /\ ~buf[j].skip /\ dev[a] = buf[j].topic
    <2>1. CASE ~Introduced(taken, a, Len(taken))
        <3>1. dev[a] = deviceAliases[a]
            BY <1>1, <2>1, LearnedAliases
        <3> QED
            BY <1>1, <2>1, <3>1
    <2>2. CASE Introduced(taken, a, Len(taken))
        <3>1. PICK j \in 1..Len(taken) : taken[j].alias = a /\ ~taken[j].skip /\ dev[a] = taken[j].topic
            BY <1>1, <2>2, LearnedAliases
        <3> QED
            BY <1>1, <3>1
    <2> QED
        BY <2>1, <2>2
<1>4. ASSUME NEW a \in 1..MaxAlias, NEW j \in 1..n, buf[j].alias = a
      PROVE  buf[j].topic \in OutTopics /\ al[buf[j].topic] = a
    BY <1>2, <1>4, MaxAliasAssumption DEF AliasesRight, BufferAgrees
<1>5. ASSUME NEW topic \in OutTopics, NEW a \in 1..MaxAlias, al[topic] = a,
             deviceAliases[a] = topic \/ Introduced(taken, a, n)
      PROVE  dev[a] = topic
    <2>1. CASE dev[a] = deviceAliases[a] /\ ~Introduced(taken, a, n)
        BY <1>5, <2>1
    <2>2. CASE \E j \in 1..n : buf[j].alias = a /\ ~buf[j].skip /\ dev[a] = buf[j].topic
        <3>1. PICK j \in 1..n : buf[j].alias = a /\ dev[a] = buf[j].topic
            BY <2>2
        <3>2. buf[j].topic \in OutTopics /\ al[buf[j].topic] = a
            BY <1>4, <3>1
        <3>3. a # 0
            OBVIOUS
        <3> QED
            BY <1>5, <3>1, <3>2, <3>3 DEF AliasesRight, AliasesDiffer
    <2> QED
        BY <1>3, <2>1, <2>2
<1>6. dev = [a \in 1..MaxAlias |-> dev[a]]
    BY DEF Learn
<1> HIDE DEF dev
<1>7. DeviceAgrees(dev, al) /\ dev \in [1..MaxAlias -> OutTopics \cup {NoTopic}]
    <2>1. ASSUME NEW a \in 1..MaxAlias
          PROVE  /\ dev[a] \in OutTopics \cup {NoTopic}
                 /\ dev[a] # NoTopic => dev[a] \in OutTopics /\ al[dev[a]] = a
        <3>1. CASE dev[a] = deviceAliases[a]
            BY <3>1 DEF AliasesRight, DeviceAgrees
        <3>2. CASE \E j \in 1..n : buf[j].alias = a /\ ~buf[j].skip /\ dev[a] = buf[j].topic
            BY <1>4, <3>2
        <3> QED
            BY <1>3, <3>1, <3>2
    <2> QED
        BY <1>6, <2>1 DEF DeviceAgrees
\* A packet that introduces an alias was taken, or is still there.
<1>8. ASSUME NEW a, NEW m \in 0..Len(buf), Introduced(buf, a, m)
      PROVE  Introduced(taken, a, n) \/ (m > n /\ Introduced(new, a, m - n))
    <2>1. PICK j \in 1..m : buf[j].alias = a /\ ~buf[j].skip
        BY <1>8 DEF Introduced
    <2>2. j \in 1..Len(buf)
        BY <1>2, <2>1
    <2>3. CASE j \in 1..n
        BY <1>1, <2>1, <2>3 DEF Introduced
    <2>4. CASE j \notin 1..n
        <3>1. j - n \in 1..Len(new) /\ n + (j - n) = j /\ m > n /\ j - n \in 1..(m - n)
            BY <1>2, <2>1, <2>2, <2>4
        <3>2. new[j - n] = buf[j]
            BY <1>1, <3>1
        <3> QED
            BY <2>1, <3>1, <3>2 DEF Introduced
    <2> QED
        BY <2>3, <2>4
<1>9. BufferAgrees(new, al)
    <2> SUFFICES ASSUME NEW i \in 1..Len(new)
                 PROVE  /\ new[i].alias # 0 => new[i].topic \in OutTopics /\ al[new[i].topic] = new[i].alias
                        /\ new[i].skip => new[i].alias # 0
        BY DEF BufferAgrees
    <2>1. n + i \in 1..Len(buf) /\ new[i] = buf[n + i]
        BY <1>1, <1>2
    <2> QED
        BY <2>1 DEF AliasesRight, BufferAgrees
<1>10. AliasesReach(new, al, dev)
    <2> SUFFICES ASSUME NEW topic \in OutTopics, al[topic] # 0
                 PROVE  dev[al[topic]] = topic \/ Introduced(new, al[topic], Len(new))
        BY DEF AliasesReach
    <2>1. al[topic] \in 1..MaxAlias
        BY MaxAliasAssumption
    <2>2. deviceAliases[al[topic]] = topic \/ Introduced(buf, al[topic], Len(buf))
        BY DEF AliasesRight, AliasesReach
    <2>3. Len(buf) \in 0..Len(buf) /\ Len(buf) - n = Len(new)
        BY <1>1, <1>2
    <2>4. Introduced(buf, al[topic], Len(buf)) =>
              Introduced(taken, al[topic], n) \/ Introduced(new, al[topic], Len(new))
        BY <1>8, <2>3
    <2> QED
        BY <1>5, <2>1, <2>2, <2>4
<1>11. SkipsReach(new, dev)
    <2> SUFFICES ASSUME NEW i \in 1..Len(new), new[i].skip
                 PROVE  dev[new[i].alias] = new[i].topic \/ Introduced(new, new[i].alias, i - 1)
        BY DEF SkipsReach
    <2> DEFINE p == buf[n + i]
    <2>1. n + i \in 1..Len(buf) /\ new[i] = p
        BY <1>1, <1>2
    <2>2. p \in OutPackets
        BY <2>1
    <2>3. p.alias # 0 /\ p.topic \in OutTopics /\ al[p.topic] = p.alias
        BY <2>1 DEF AliasesRight, BufferAgrees
    <2>4. p.alias \in 1..MaxAlias
        BY <2>2, <2>3, MaxAliasAssumption DEF OutPackets
    <2>5. deviceAliases[p.alias] = p.topic \/ Introduced(buf, p.alias, n + i - 1)
        BY <2>1 DEF AliasesRight, SkipsReach
    <2>6. n + i - 1 \in 0..Len(buf) /\ n + i - 1 - n = i - 1
        BY <1>2, <2>1
    <2> HIDE DEF p
    <2>7. Introduced(buf, p.alias, n + i - 1) => Introduced(taken, p.alias, n) \/ Introduced(new, p.alias, i - 1)
        BY <1>8, <2>6
    <2> QED
        BY <1>5, <2>1, <2>3, <2>4, <2>5, <2>7
<1> QED
    BY <1>7, <1>9, <1>10, <1>11 DEF AliasesRight, taken, new, dev

-----------------------------------------------------------------------------
(* Output: the actions                                                       *)

LEMMA OutTyped ==
    ASSUME OutIInv
    PROVE  /\ aliases \in [OutTopics -> 0..MaxAlias] /\ cur_alias \in 0..MaxAlias
           /\ aliasLock \in Writers \cup {NoTopic}
           /\ deviceAliases \in [1..MaxAlias -> OutTopics \cup {NoTopic}]
           /\ writebuf \in Seq(OutPackets) /\ DOMAIN writer = Writers
           /\ AliasesRight(writebuf, aliases, deviceAliases, cur_alias)
           /\ \A t \in Writers : Writing(t) => WriterAgrees(t)
BY DEF OutIInv, OutShape, AliasTypeOK

\* The steps that leave the aliases alone.
LEMMA AliasesStay ==
    ASSUME OutIInv, UNCHANGED <<aliases, cur_alias, aliasLock, writer>>
    PROVE  \A t \in Writers : Writing(t)' => WriterAgrees(t)'
BY OutTyped DEF Writing, WriterAgrees

\* The events that epoll waits for, after setReadyForWriting.
LEMMA EpollAfterWrite ==
    ASSUME OutIInv, setReadyForWriting(TRUE, stage), UNCHANGED <<stage, readyForReading, changingRead>>
    PROVE  EpollIsRight' /\ readyForWriting' \in BOOLEAN /\ epollIn' \in BOOLEAN /\ epollOut' \in BOOLEAN
<1>1. CASE stage = "Now" \/ TRUE = readyForWriting
    BY <1>1 DEF setReadyForWriting, OutIInv, OutShape, EpollIsRight
<1>2. CASE ~(stage = "Now" \/ TRUE = readyForWriting)
    BY <1>2 DEF setReadyForWriting, OutIInv, OutShape, EpollIsRight
<1> QED
    BY <1>1, <1>2

LEMMA TakeAliasKeepsOutput ==
    ASSUME OutIInv, NEW t \in Writers, NEW topic \in OutTopics, TakeAlias(t, topic)
    PROVE  OutIInv'
<1> DEFINE known == aliases[topic] # 0
           new == ~known /\ cur_alias < MaxAlias
           w == [topic |-> topic, skip |-> known, next |-> new,
                 alias |-> IF new THEN cur_alias + 1 ELSE aliases[topic]]
<1>1. /\ writer[t] = Resting /\ (MaxAlias > 0 => aliasLock = NoTopic)
      /\ writer' = [writer EXCEPT ![t] = w]
      /\ aliasLock' = IF new THEN t ELSE aliasLock
      /\ UNCHANGED <<aliases, cur_alias, writebuf, deviceAliases, stage, readyForWriting,
                     readyForReading, changingRead, epollIn, epollOut>>
    BY DEF TakeAlias
<1>2. /\ w.topic = topic /\ w.skip = known /\ w.next = new
      /\ w.alias = (IF new THEN cur_alias + 1 ELSE aliases[topic])
    OBVIOUS
<1>3. known \in BOOLEAN /\ new \in BOOLEAN
    OBVIOUS
<1>4. new => MaxAlias > 0 /\ cur_alias + 1 \in 0..MaxAlias
    BY OutTyped, MaxAliasAssumption
<1>5. (new => aliasLock' = t /\ aliases[topic] = 0) /\ (known => aliases[topic] # 0) /\ ~(known /\ new)
    BY <1>1
<1>6. ~new /\ ~known => aliases[topic] = 0
    OBVIOUS
<1>7. aliases[topic] \in 0..MaxAlias
    BY OutTyped
<1>8. w.alias \in 0..MaxAlias
    BY <1>2, <1>4, <1>7
<1> HIDE DEF w, known, new
<1>9. \A other \in Writers : writer'[other] = IF other = t THEN w ELSE writer[other]
    BY <1>1, OutTyped
<1>10. WriterAgrees(t)'
    <2>1. w.next => aliasLock' = t /\ w.alias = cur_alias + 1 /\ ~w.skip /\ aliases[topic] = 0
        BY <1>2, <1>5
    <2>2. w.skip => w.alias # 0 /\ aliases[topic] = w.alias
        BY <1>2, <1>5
    <2>3. ~w.next /\ ~w.skip => w.alias = 0
        BY <1>2, <1>6
    <2> QED
        BY <1>1, <1>2, <1>3, <1>8, <1>9, <2>1, <2>2, <2>3 DEF WriterAgrees
<1>11. ASSUME NEW other \in Writers, other # t, Writing(other)'
       PROVE  WriterAgrees(other)'
    <2>1. writer'[other] = writer[other] /\ WriterAgrees(other)
        BY <1>9, <1>11, OutTyped DEF Writing
    <2>2. writer[other].next => aliasLock = other
        BY <2>1 DEF WriterAgrees
    <2>3. writer[other].next => aliasLock' = aliasLock
        BY <1>1, <1>4, <2>2, NoTopicAssumption
    <2> QED
        BY <1>1, <2>1, <2>3 DEF WriterAgrees
<1>12. \A other \in Writers : Writing(other)' => WriterAgrees(other)'
    BY <1>10, <1>11
<1>13. OutShape'
    <2>1. aliasLock' \in Writers \cup {NoTopic}
        BY <1>1, OutTyped
    <2> QED
        BY <1>1, <2>1 DEF OutIInv, OutShape, AliasTypeOK
<1>14. EpollIsRight'
    BY <1>1 DEF OutIInv, EpollIsRight
<1> QED
    BY <1>1, <1>12, <1>13, <1>14, OutTyped DEF OutIInv

\* The end of a write: an alias that is kept, or is not.
LEMMA EndOfWriteAgrees ==
    ASSUME OutIInv, NEW t \in Writers, Writing(t), NEW success \in BOOLEAN, EndOfWrite(t, success),
           UNCHANGED deviceAliases
    PROVE  /\ AliasTypeOK'
           /\ DOMAIN writer' = Writers /\ writer' = [u \in Writers |-> writer'[u]]
           /\ \A u \in Writers : Writing(u)' => WriterAgrees(u)'
           /\ ~(writer[t].next /\ success) => UNCHANGED <<aliases, cur_alias>>
           /\ writer[t].next /\ success =>
                 /\ aliases' = [aliases EXCEPT ![writer[t].topic] = cur_alias + 1]
                 /\ cur_alias' = cur_alias + 1
<1> DEFINE w == writer[t]
           keep == w.next /\ success
<1>1. /\ aliases' = IF keep THEN [aliases EXCEPT ![w.topic] = w.alias] ELSE aliases
      /\ cur_alias' = IF keep THEN w.alias ELSE cur_alias
      /\ aliasLock' = IF w.next THEN NoTopic ELSE aliasLock
      /\ writer' = [writer EXCEPT ![t] = Resting]
    BY DEF EndOfWrite
<1>2. /\ w.topic \in OutTopics /\ w.alias \in 0..MaxAlias /\ w.next \in BOOLEAN
      /\ w.next => aliasLock = t /\ w.alias = cur_alias + 1 /\ aliases[w.topic] = 0
    BY OutTyped DEF WriterAgrees
<1>3. \A u \in Writers : writer'[u] = IF u = t THEN Resting ELSE writer[u]
    BY <1>1, OutTyped
<1>4. DOMAIN writer' = Writers /\ writer' = [u \in Writers |-> writer'[u]]
    BY <1>1, OutTyped
<1>5. /\ keep => aliases' = [aliases EXCEPT ![w.topic] = cur_alias + 1] /\ cur_alias' = cur_alias + 1
      /\ ~keep => UNCHANGED <<aliases, cur_alias>>
    BY <1>1, <1>2
<1> HIDE DEF w
<1>6. ASSUME NEW topic \in OutTopics, aliases[topic] # 0
      PROVE  aliases'[topic] = aliases[topic]
    BY <1>2, <1>5, <1>6, OutTyped
<1>7. ASSUME NEW u \in Writers, Writing(u)'
      PROVE  WriterAgrees(u)'
    <2>1. u # t /\ writer'[u] = writer[u]
        BY <1>3, <1>7 DEF Writing
    <2>2. WriterAgrees(u)
        BY <1>7, <2>1, OutTyped DEF Writing
    <2>3. writer[u].next => ~w.next
        BY <1>2, <2>1, <2>2 DEF WriterAgrees
    <2>4. writer[u].next => UNCHANGED <<aliases, cur_alias, aliasLock>>
        BY <1>1, <1>5, <2>3
    <2>5. writer[u].skip => aliases'[writer[u].topic] = aliases[writer[u].topic]
        BY <1>6, <2>2 DEF WriterAgrees
    <2> QED
        BY <2>1, <2>2, <2>4, <2>5 DEF WriterAgrees
<1>8. AliasTypeOK'
    <2>1. aliases' \in [OutTopics -> 0..MaxAlias] /\ cur_alias' \in 0..MaxAlias
        BY <1>1, <1>2, OutTyped
    <2>2. aliasLock' \in Writers \cup {NoTopic}
        BY <1>1, OutTyped
    <2> QED
        BY <2>1, <2>2, OutTyped DEF AliasTypeOK
<1> QED
    BY <1>4, <1>5, <1>7, <1>8 DEF w

LEMMA WritePublishKeepsOutput ==
    ASSUME OutIInv, NEW t \in Writers, WritePublish(t)
    PROVE  OutIInv'
<1> DEFINE w == writer[t]
           p == Publish(w.topic, w.alias, w.skip)
<1>1. /\ Writing(t) /\ EndOfWrite(t, TRUE) /\ writebuf' = Append(writebuf, p)
      /\ setReadyForWriting(TRUE, stage)
      /\ UNCHANGED <<deviceAliases, stage, readyForReading, changingRead>>
    BY DEF WritePublish, Writing
<1>2. /\ w.topic \in OutTopics /\ w.alias \in 0..MaxAlias /\ w.skip \in BOOLEAN /\ w.next \in BOOLEAN
      /\ w.next => aliasLock = t /\ w.alias = cur_alias + 1 /\ ~w.skip /\ aliases[w.topic] = 0
      /\ w.skip => w.alias # 0 /\ aliases[w.topic] = w.alias
      /\ ~w.next /\ ~w.skip => w.alias = 0
    BY <1>1, OutTyped DEF WriterAgrees
<1>3. p \in OutPackets /\ p.topic = w.topic /\ p.alias = w.alias /\ p.skip = w.skip
    BY <1>2 DEF Publish, OutPackets
<1>4. /\ AliasTypeOK'
      /\ DOMAIN writer' = Writers /\ writer' = [u \in Writers |-> writer'[u]]
      /\ \A u \in Writers : Writing(u)' => WriterAgrees(u)'
      /\ ~w.next => UNCHANGED <<aliases, cur_alias>>
      /\ w.next => aliases' = [aliases EXCEPT ![w.topic] = cur_alias + 1] /\ cur_alias' = cur_alias + 1
    BY <1>1, EndOfWriteAgrees
<1>5. AliasesRight(writebuf', aliases', deviceAliases', cur_alias')
    <2>1. CASE w.next
        <3>1. p = Publish(w.topic, cur_alias + 1, FALSE)
            BY <1>2, <2>1
        <3>2. cur_alias + 1 \in 0..MaxAlias
            BY <1>2, <2>1
        <3> HIDE DEF p, w
        <3>3. AliasesRight(Append(writebuf, p), [aliases EXCEPT ![w.topic] = cur_alias + 1],
                           deviceAliases, cur_alias + 1)
            BY <1>2, <2>1, <3>1, <3>2, OutTyped, NewAliasKeeps
        <3> QED
            BY <1>1, <1>4, <2>1, <3>3
    <2>2. CASE ~w.next
        <3>1. (p.alias # 0 => p.topic \in OutTopics /\ aliases[p.topic] = p.alias) /\ (p.skip => p.alias # 0)
            BY <1>2, <1>3, <2>2
        <3> HIDE DEF p, w
        <3>2. AliasesRight(Append(writebuf, p), aliases, deviceAliases, cur_alias)
            BY <1>3, <3>1, OutTyped, KnownAliasKeeps
        <3> QED
            BY <1>1, <1>4, <2>2, <3>2
    <2> QED
        BY <1>2, <2>1, <2>2
<1>6. writebuf' \in Seq(OutPackets)
    <2> HIDE DEF p
    <2> QED
        BY <1>1, <1>3, OutTyped, AppendedPacket
<1>7. EpollIsRight' /\ readyForWriting' \in BOOLEAN /\ epollIn' \in BOOLEAN /\ epollOut' \in BOOLEAN
    BY <1>1, EpollAfterWrite
<1>8. OutShape'
    BY <1>1, <1>4, <1>6, <1>7 DEF OutIInv, OutShape
<1> QED
    BY <1>4, <1>5, <1>7, <1>8 DEF OutIInv

LEMMA DropPublishKeepsOutput ==
    ASSUME OutIInv, NEW t \in Writers, DropPublish(t)
    PROVE  OutIInv'
<1>1. /\ Writing(t) /\ EndOfWrite(t, FALSE)
      /\ UNCHANGED <<writebuf, writes, deviceAliases, stage, readyForWriting, readyForReading,
                     changingRead, epollIn, epollOut>>
    BY DEF DropPublish, Writing
<1>2. /\ AliasTypeOK'
      /\ DOMAIN writer' = Writers /\ writer' = [u \in Writers |-> writer'[u]]
      /\ \A u \in Writers : Writing(u)' => WriterAgrees(u)'
      /\ UNCHANGED <<aliases, cur_alias>>
    BY <1>1, EndOfWriteAgrees
<1>3. OutShape' /\ EpollIsRight'
    BY <1>1, <1>2 DEF OutIInv, OutShape, EpollIsRight
<1> QED
    BY <1>1, <1>2, <1>3, OutTyped DEF OutIInv

LEMMA WriteBufIntoFdKeepsOutput ==
    ASSUME OutIInv, NEW n \in 0..Len(writebuf), writeBufIntoFd(n)
    PROVE  OutIInv'
<1> DEFINE pending == n < Len(writebuf)
<1>1. /\ epollOut /\ ~changingRead
      /\ deviceAliases' = Learn(SubSeq(writebuf, 1, n))
      /\ writebuf' = SubSeq(writebuf, n + 1, Len(writebuf))
      /\ stage' = StageAfterWrite(pending)
      /\ setReadyForWriting(pending, stage')
      /\ UNCHANGED <<aliases, cur_alias, aliasLock, writer, readyForReading, changingRead>>
    BY DEF writeBufIntoFd
<1>2. /\ AliasesRight(writebuf', aliases, deviceAliases', cur_alias)
      /\ deviceAliases' \in [1..MaxAlias -> OutTopics \cup {NoTopic}]
    BY <1>1, OutTyped, TakenKeeps
<1>3. writebuf' \in Seq(OutPackets) /\ Len(writebuf') = Len(writebuf) - n
    BY <1>1, OutTyped, TakenPackets
<1>4. (writebuf' # <<>> => pending) /\ pending \in BOOLEAN
    <2>1. Len(writebuf) \in Nat /\ (writebuf' # <<>> => Len(writebuf') > 0)
        BY <1>3, OutTyped
    <2> QED
        BY <1>3, <2>1
<1>5. stage' # "Now" => stage # "Now"
    BY <1>1 DEF StageAfterWrite
<1> HIDE DEF pending
<1>6. EpollIsRight' /\ readyForWriting' \in BOOLEAN /\ epollIn' \in BOOLEAN /\ epollOut' \in BOOLEAN
    <2>1. CASE stage' = "Now"
        BY <1>1, <1>4, <2>1 DEF setReadyForWriting, OutIInv, OutShape, EpollIsRight
    <2>2. CASE stage' # "Now" /\ pending = readyForWriting
        BY <1>1, <1>4, <1>5, <2>2 DEF setReadyForWriting, OutIInv, OutShape, EpollIsRight
    <2>3. CASE stage' # "Now" /\ pending # readyForWriting
        BY <1>1, <1>4, <1>5, <2>3 DEF setReadyForWriting, OutIInv, OutShape, EpollIsRight
    <2> QED
        BY <2>1, <2>2, <2>3
<1>7. OutShape'
    BY <1>1, <1>2, <1>3, <1>6 DEF OutIInv, OutShape, AliasTypeOK
<1> QED
    BY <1>1, <1>2, <1>6, <1>7, AliasesStay DEF OutIInv

LEMMA DisconnectClientKeepsOutput ==
    ASSUME OutIInv, DisconnectClient
    PROVE  OutIInv'
<1>1. /\ stage = "NotInitiated" /\ stage' = "SendPendingAppData"
      /\ UNCHANGED <<aliases, cur_alias, aliasLock, writer, deviceAliases, readyForReading, changingRead>>
    BY DEF DisconnectClient
<1>2. CASE UNCHANGED <<writebuf, readyForWriting, epollIn, epollOut>>
    <2>1. OutShape' /\ EpollIsRight'
        BY <1>1, <1>2 DEF OutIInv, OutShape, AliasTypeOK, EpollIsRight
    <2> QED
        BY <1>1, <1>2, <2>1, OutTyped, AliasesStay DEF OutIInv
<1>3. CASE writebuf' = Append(writebuf, DisconnectPacket) /\ setReadyForWriting(TRUE, stage')
    <2>1. DisconnectPacket \in OutPackets /\ DisconnectPacket.alias = 0 /\ ~DisconnectPacket.skip
        BY MaxAliasAssumption DEF DisconnectPacket, Publish, OutPackets
    <2>2. AliasesRight(writebuf', aliases, deviceAliases, cur_alias) /\ writebuf' \in Seq(OutPackets)
        BY <1>3, <2>1, OutTyped, KnownAliasKeeps, AppendedPacket
    <2>3. EpollIsRight' /\ readyForWriting' \in BOOLEAN /\ epollIn' \in BOOLEAN /\ epollOut' \in BOOLEAN
        <3>1. CASE TRUE = readyForWriting
            BY <1>1, <1>3, <3>1 DEF setReadyForWriting, OutIInv, OutShape, EpollIsRight
        <3>2. CASE TRUE # readyForWriting
            BY <1>1, <1>3, <3>2 DEF setReadyForWriting, OutIInv, OutShape, EpollIsRight
        <3> QED
            BY <3>1, <3>2
    <2>4. OutShape'
        BY <1>1, <2>2, <2>3 DEF OutIInv, OutShape, AliasTypeOK
    <2> QED
        BY <1>1, <2>2, <2>3, <2>4, AliasesStay DEF OutIInv
<1> QED
    BY <1>2, <1>3 DEF DisconnectClient

LEMMA ReadChangeKeepsOutput ==
    ASSUME OutIInv, BeginReadChange \/ EndReadChange
    PROVE  OutIInv'
<1>1. UNCHANGED <<aliases, cur_alias, aliasLock, writer, writebuf, deviceAliases, stage, readyForWriting>>
    BY DEF BeginReadChange, EndReadChange
<1>2. EpollIsRight' /\ readyForReading' \in BOOLEAN /\ changingRead' \in BOOLEAN
      /\ epollIn' \in BOOLEAN /\ epollOut' \in BOOLEAN
    <2>1. CASE BeginReadChange
        BY <2>1 DEF BeginReadChange, OutIInv, OutShape, EpollIsRight
    <2>2. CASE EndReadChange
        BY <2>2 DEF EndReadChange, OutIInv, OutShape, EpollIsRight
    <2> QED
        BY <2>1, <2>2
<1>3. OutShape'
    BY <1>1, <1>2 DEF OutIInv, OutShape, AliasTypeOK
<1> QED
    BY <1>1, <1>2, <1>3, OutTyped, AliasesStay DEF OutIInv

LEMMA OutInitIInv ==
    OutInit => OutIInv
<1> SUFFICES ASSUME OutInit PROVE OutIInv
    OBVIOUS
<1>1. /\ \A topic \in OutTopics : aliases[topic] = 0
      /\ writebuf = <<>> /\ Len(writebuf) = 0 /\ cur_alias = 0
      /\ \A a \in 1..MaxAlias : deviceAliases[a] = NoTopic
      /\ \A t \in Writers : writer[t] = Resting
    BY DEF OutInit
<1>2. AliasTypeOK
    BY MaxAliasAssumption DEF OutInit, AliasTypeOK
<1>3. AliasesRight(writebuf, aliases, deviceAliases, cur_alias)
    BY <1>1 DEF AliasesRight, AliasesDiffer, BufferAgrees, DeviceAgrees, AliasesReach, SkipsReach
<1>4. OutShape
    <2>1. DOMAIN writer = Writers /\ writer = [t \in Writers |-> writer[t]]
        BY DEF OutInit
    <2>2. writebuf \in Seq(OutPackets)
        BY <1>1
    <2>3. /\ readyForWriting \in BOOLEAN /\ readyForReading \in BOOLEAN /\ changingRead \in BOOLEAN
          /\ epollIn \in BOOLEAN /\ epollOut \in BOOLEAN
        BY DEF OutInit
    <2> QED
        BY <1>2, <2>1, <2>2, <2>3 DEF OutShape
<1>5. EpollIsRight
    BY DEF OutInit, EpollIsRight
<1> QED
    BY <1>1, <1>3, <1>4, <1>5 DEF OutIInv, Writing

(* For any number of threads that write, and whatever is dropped: a packet       *)
(* without a topic never reaches the client before the one that told it the      *)
(* alias, and bytes never stay behind in the buffer with nobody waiting for the   *)
(* socket (client.cpp:434-487, 931-990).                                         *)
THEOREM OutputStaysSound == OutSpec => []OutputIsSound
<1>1. OutInit => OutIInv
    BY OutInitIInv
<1>2. OutIInv /\ [OutNext]_outVars => OutIInv'
    <2> SUFFICES ASSUME OutIInv, [OutNext]_outVars PROVE OutIInv'
        OBVIOUS
    <2>1. CASE UNCHANGED outVars
        <3>1. UNCHANGED <<aliases, cur_alias, aliasLock, writer, writebuf, deviceAliases, stage,
                          readyForWriting, readyForReading, changingRead, epollIn, epollOut>>
            BY <2>1 DEF outVars
        <3>2. OutShape' /\ EpollIsRight'
            BY <3>1 DEF OutIInv, OutShape, AliasTypeOK, EpollIsRight
        <3> QED
            BY <3>1, <3>2, OutTyped, AliasesStay DEF OutIInv
    <2> QED
        BY <2>1, TakeAliasKeepsOutput, WritePublishKeepsOutput, DropPublishKeepsOutput,
           WriteBufIntoFdKeepsOutput, DisconnectClientKeepsOutput, ReadChangeKeepsOutput DEF OutNext
<1>3. OutIInv => OutputIsSound
    BY RightAliasIsKnown DEF OutIInv, OutputIsSound
<1> QED
    BY <1>1, <1>2, <1>3, PTL DEF OutSpec

===============================================================================
