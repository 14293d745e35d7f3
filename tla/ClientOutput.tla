----------------------------- MODULE ClientOutput -----------------------------
(* What is written to a client (client.cpp:387-591, 925-990): any thread       *)
(* writes packets into the write buffer under its lock, the client's own       *)
(* thread writes the buffer to the socket.  Outgoing topic aliases have a lock *)
(* of their own, which is kept until the packet that introduces an alias is in *)
(* the buffer.  The events that epoll waits for are changed under the lock of  *)
(* the buffer; the flag for reading is changed before.                         *)
(*                                                                           *)
(* Left out: sizes in bytes, the pressure check, TLS, pings.                  *)
EXTENDS Integers, FiniteSets, Sequences, SequencesExt

CONSTANTS
    Writers,        \* threads that publish to the client
    OutTopics,      \* topics
    NoTopic,        \* what is no topic
    MaxAlias,       \* maxOutgoingTopicAliasValue
    MaxWriteBuf,    \* packets that the buffer holds before QoS 0 is dropped
    MaxWrites,      \* bound on the publishes
    DisconnectFits  \* is DISCONNECT within the client's maximum packet size?

ASSUME MaxAliasAssumption == MaxAlias \in Nat
ASSUME NoTopicAssumption == NoTopic \notin OutTopics \cup Writers
ASSUME DisconnectFitsAssumption == DisconnectFits \in BOOLEAN

VARIABLES
    aliases,            \* topic -> its alias, 0 for none
    cur_alias,
    aliasLock,          \* the thread that holds it, or NoTopic
    writer,             \* thread -> the publish it is writing
    writebuf,           \* the packets in the buffer
    writes,             \* how many publishes there were
    deviceAliases,      \* alias -> topic, as the client has learned them
    stage,              \* disconnectStage
    readyForWriting, readyForReading,
    changingRead,       \* is the client's thread within setReadyForReading?
    epollIn, epollOut,  \* what epoll waits for
    removed             \* is the client removed from its thread?

outVars == <<aliases, cur_alias, aliasLock, writer, writebuf, writes, deviceAliases, stage,
             readyForWriting, readyForReading, changingRead, epollIn, epollOut, removed>>

-----------------------------------------------------------------------------
Resting == [alias |-> -1]
Publish(topic, alias, skip) == [topic |-> topic, alias |-> alias, skip |-> skip]
DisconnectPacket == Publish(NoTopic, 0, FALSE)

AliasTypeOK ==
    /\ aliases \in [OutTopics -> 0..MaxAlias]
    /\ cur_alias \in 0..MaxAlias
    /\ aliasLock \in Writers \cup {NoTopic}
    /\ deviceAliases \in [1..MaxAlias -> OutTopics \cup {NoTopic}]

OutTypeOK ==
    /\ AliasTypeOK
    /\ writer \in [Writers -> {Resting} \cup
                      [topic : OutTopics, alias : 0..MaxAlias, skip : BOOLEAN, next : BOOLEAN]]
    /\ writebuf \in Seq([topic : OutTopics \cup {NoTopic}, alias : 0..MaxAlias, skip : BOOLEAN])
    /\ writes \in 0..MaxWrites
    /\ stage \in {"NotInitiated", "SendPendingAppData", "Now"}
    /\ {readyForWriting, readyForReading, changingRead, epollIn, epollOut, removed} \subseteq BOOLEAN

OutInit ==
    /\ aliases = [t \in OutTopics |-> 0]
    /\ cur_alias = 0 /\ aliasLock = NoTopic
    /\ writer = [t \in Writers |-> Resting]
    /\ writebuf = <<>> /\ writes = 0
    /\ deviceAliases = [a \in 1..MaxAlias |-> NoTopic]
    /\ stage = "NotInitiated"
    /\ readyForWriting = FALSE /\ readyForReading = TRUE /\ changingRead = FALSE
    /\ epollIn = TRUE /\ epollOut = FALSE
    /\ removed = FALSE

-----------------------------------------------------------------------------
\* writeMqttPacketAndBlameThisClient: the alias for the topic.  The lock is
\* kept for a new one.
TakeAlias(t, topic) ==
    LET known == aliases[topic] # 0
        new == ~known /\ cur_alias < MaxAlias
    IN
    /\ writer[t] = Resting /\ writes < MaxWrites /\ ~removed
    /\ MaxAlias > 0 => aliasLock = NoTopic
    /\ writes' = writes + 1
    /\ writer' = [writer EXCEPT ![t] =
                     [topic |-> topic, skip |-> known, next |-> new,
                      alias |-> IF new THEN cur_alias + 1 ELSE aliases[topic]]]
    /\ aliasLock' = IF new THEN t ELSE aliasLock
    /\ UNCHANGED <<aliases, cur_alias, writebuf, deviceAliases, stage, readyForWriting,
                   readyForReading, changingRead, epollIn, epollOut, removed>>

\* setReadyForWriting, under the lock of the buffer.
setReadyForWriting(val, stageNow) ==
    IF stageNow = "Now" \/ val = readyForWriting
    THEN UNCHANGED <<readyForWriting, epollIn, epollOut>>
    ELSE /\ readyForWriting' = val
         /\ epollIn' = readyForReading
         /\ epollOut' = val

\* The alias is only kept when the packet is in the buffer.
EndOfWrite(t, success) ==
    LET w == writer[t] IN
    /\ aliases' = IF w.next /\ success THEN [aliases EXCEPT ![w.topic] = w.alias] ELSE aliases
    /\ cur_alias' = IF w.next /\ success THEN w.alias ELSE cur_alias
    /\ aliasLock' = IF w.next THEN NoTopic ELSE aliasLock
    /\ writer' = [writer EXCEPT ![t] = Resting]

\* writeMqttPacket: into the buffer.
WritePublish(t) ==
    LET w == writer[t] IN
    /\ w # Resting
    /\ EndOfWrite(t, TRUE)
    /\ writebuf' = Append(writebuf, Publish(w.topic, w.alias, w.skip))
    /\ setReadyForWriting(TRUE, stage)
    /\ UNCHANGED <<writes, deviceAliases, stage, readyForReading, changingRead, removed>>

\* BiggerThanPacketLimit for a packet with its topic, or BufferFull for QoS 0.
DropPublish(t) ==
    /\ writer[t] # Resting
    /\ ~writer[t].skip \/ Len(writebuf) >= MaxWriteBuf
    /\ EndOfWrite(t, FALSE)
    /\ UNCHANGED <<writebuf, writes, deviceAliases, stage, readyForWriting, readyForReading,
                   changingRead, epollIn, epollOut, removed>>

-----------------------------------------------------------------------------
(* The client's own thread.                                                  *)

\* writeBufIntoFd on EPOLLOUT: the socket takes the first n packets.  When all
\* is gone and the client is to be disconnected, it is removed.
Learn(packets) ==
    [a \in 1..MaxAlias |->
        LET defs == {i \in 1..Len(packets) : packets[i].alias = a /\ ~packets[i].skip} IN
        IF defs = {} THEN deviceAliases[a]
        ELSE packets[CHOOSE i \in defs : \A j \in defs : j <= i].topic]

\* Mutant: the stage is looked at before the write.
StageAfterWriteLate(pending) == stage
StageAfterWrite(pending) ==
    IF stage = "SendPendingAppData" /\ ~pending THEN "Now" ELSE stage

writeBufIntoFd(n) ==
    LET pending == n < Len(writebuf) IN
    /\ epollOut /\ ~removed /\ ~changingRead
    /\ n \in 0..Len(writebuf)
    /\ deviceAliases' = Learn(SubSeq(writebuf, 1, n))
    /\ writebuf' = SubSeq(writebuf, n + 1, Len(writebuf))
    /\ stage' = StageAfterWrite(pending)
    /\ setReadyForWriting(pending, stage')
    /\ removed' = (stage' = "Now")
    /\ UNCHANGED <<aliases, cur_alias, aliasLock, writer, writes, readyForReading, changingRead>>

\* A ProtocolError, or serverInitiatedDisconnect: DISCONNECT goes into the
\* buffer and the client is removed when it is empty.
DisconnectClient ==
    /\ stage = "NotInitiated" /\ ~removed /\ ~changingRead
    /\ stage' = "SendPendingAppData"
    /\ IF DisconnectFits
       THEN /\ writebuf' = Append(writebuf, DisconnectPacket)
            /\ setReadyForWriting(TRUE, stage')
       ELSE UNCHANGED <<writebuf, readyForWriting, epollIn, epollOut>>
    /\ UNCHANGED <<aliases, cur_alias, aliasLock, writer, writes, deviceAliases, readyForReading,
                   changingRead, removed>>

\* setReadyForReading: the flag first, then epoll under the lock of the buffer.
BeginReadChange ==
    /\ ~removed /\ ~changingRead /\ stage # "Now"
    /\ readyForReading' = ~readyForReading
    /\ changingRead' = TRUE
    /\ UNCHANGED <<aliases, cur_alias, aliasLock, writer, writebuf, writes, deviceAliases, stage,
                   readyForWriting, epollIn, epollOut, removed>>

\* Mutant: what epoll waits for is put together before the lock is taken.
EndReadChangeUnlocked ==
    /\ changingRead
    /\ changingRead' = FALSE
    /\ epollIn' = readyForReading /\ epollOut' = FALSE
    /\ UNCHANGED <<aliases, cur_alias, aliasLock, writer, writebuf, writes, deviceAliases, stage,
                   readyForWriting, readyForReading, removed>>

EndReadChange ==
    /\ changingRead
    /\ changingRead' = FALSE
    /\ epollIn' = readyForReading /\ epollOut' = readyForWriting
    /\ UNCHANGED <<aliases, cur_alias, aliasLock, writer, writebuf, writes, deviceAliases, stage,
                   readyForWriting, readyForReading, removed>>

OutNext ==
    \/ \E t \in Writers :
          \/ \E topic \in OutTopics : TakeAlias(t, topic)
          \/ WritePublish(t)
          \/ DropPublish(t)
    \/ \E n \in 0..Len(writebuf) : writeBufIntoFd(n)
    \/ DisconnectClient
    \/ BeginReadChange
    \/ EndReadChange

OutSpec == OutInit /\ [][OutNext]_outVars

\* The thread goes on, and the socket takes something of what is there.
WriteAll == \E n \in 0..Len(writebuf) : (n > 0 \/ writebuf = <<>>) /\ writeBufIntoFd(n)
OutFairness ==
    /\ SF_outVars(WriteAll)
    /\ WF_outVars(EndReadChange)
    /\ \A t \in Writers : WF_outVars(WritePublish(t) \/ DropPublish(t))
FairOutSpec == OutSpec /\ OutFairness

-----------------------------------------------------------------------------
(* A packet without a topic reaches the client after the one that told it     *)
(* the alias, and the alias means that topic, whichever threads wrote them     *)
(* and whatever was dropped (client.cpp:434-487).                            *)
AliasIsKnown ==
    \A i \in 1..Len(writebuf) :
        writebuf[i].skip =>
            LET a == writebuf[i].alias
                defs == {j \in 1..(i - 1) : writebuf[j].alias = a /\ ~writebuf[j].skip}
            IN  writebuf[i].topic = IF defs = {} THEN deviceAliases[a]
                    ELSE writebuf[CHOOSE j \in defs : \A k \in defs : k <= j].topic

(* Bytes never stay behind in the buffer: unless the client is about to be    *)
(* removed, epoll waits for the socket whenever there are some, and for the   *)
(* events that the flags say (client.cpp:931-990).                           *)
EpollIsRight ==
    stage # "Now" =>
        /\ writebuf # <<>> => readyForWriting
        /\ epollOut = readyForWriting \/ changingRead
        /\ epollIn = readyForReading \/ changingRead
        /\ epollOut => readyForWriting

(* Threads that write, the thread that empties the buffer and the one that     *)
(* changes the events leave nothing unknown and nothing behind.              *)
OutputIsSound == AliasIsKnown /\ EpollIsRight

(* A client that is to be disconnected is removed when it has been told       *)
(* (client.h:54: "Set this before making a client ready to write, and         *)
(* EPOLLOUT will take care of it.").                                         *)
DisconnectEnds == stage = "SendPendingAppData" ~> removed
=============================================================================
