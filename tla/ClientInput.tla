----------------------------- MODULE ClientInput -----------------------------
(* How the bytes of a client become packets: Client::readFdIntoBuffer,        *)
(* bufferToMqttPackets and setReadyForReading (client.cpp:321-366, 961-990,   *)
(* 1060; mqttpacket.cpp:507-573).  The read buffer (CirBuf) doubles until it  *)
(* is as large as it may be; when it is full, the socket is not read until    *)
(* packets have been taken out.  Bytes are only counted.                     *)
(*                                                                           *)
(* Left out: TLS and WebSocket, whose own buffers let the read buffer grow    *)
(* further, the 1 MB limit before authentication, malformed lengths.         *)
EXTENDS Integers, Sequences, SequencesExt, Functions

CONSTANTS
    InitialCapacity,    \* client_initial_buffer_size
    MaxIncomingPacket,  \* max_packet_size
    MaxReadBuf,         \* client_max_write_buffer_size
    PacketSizes,        \* sizes of the packets of the client
    MaxPackets          \* bound on the packets

ASSUME CapacityAssumption == InitialCapacity \in Nat \ {0, 1}
ASSUME PacketSizesAssumption == PacketSizes \subseteq Nat \ {0, 1}

VARIABLES
    capacity,       \* readbuf.getCapacity()
    inBuffer,       \* readbuf.usedBytes()
    inSocket,       \* bytes that were sent and not read
    coming,         \* sizes of the packets whose bytes those are, in order
    sentPackets, handledPackets,
    readyToRead,
    refused,        \* was the client disconnected for a packet that is too large?
    primed          \* primedForSizeReset of the read buffer

inputVars == <<capacity, inBuffer, inSocket, coming, sentPackets, handledPackets,
               readyToRead, refused, primed>>

-----------------------------------------------------------------------------
ReadLimit == IF MaxIncomingPacket > MaxReadBuf THEN MaxIncomingPacket ELSE MaxReadBuf
Capacities == {InitialCapacity * 2^k : k \in 0..10}
Total(sizes) == FoldFunction(LAMBDA a, b : a + b, 0, sizes)

InputTypeOK ==
    /\ capacity \in Capacities
    /\ inBuffer \in 0..(capacity - 1)
    /\ inSocket \in Nat
    /\ coming \in Seq(PacketSizes)
    /\ sentPackets \in 0..MaxPackets /\ handledPackets \in 0..sentPackets
    /\ readyToRead \in BOOLEAN /\ refused \in BOOLEAN /\ primed \in BOOLEAN

InputInit ==
    /\ capacity = InitialCapacity
    /\ inBuffer = 0 /\ inSocket = 0 /\ coming = <<>>
    /\ sentPackets = 0 /\ handledPackets = 0
    /\ readyToRead = TRUE /\ refused = FALSE /\ primed = FALSE

-----------------------------------------------------------------------------
SendPacket(n) ==
    /\ ~refused /\ sentPackets < MaxPackets
    /\ sentPackets' = sentPackets + 1
    /\ coming' = Append(coming, n)
    /\ inSocket' = inSocket + n
    /\ UNCHANGED <<capacity, inBuffer, handledPackets, readyToRead, refused, primed>>

\* readFdIntoBuffer with n bytes to read: one byte of the buffer stays free, so
\* it doubles when n bytes leave no other.
GrownCapacity(n) ==
    LET done == {c \in Capacities : c >= capacity /\ (n < c - 1 \/ c * 2 > ReadLimit)}
    IN  CHOOSE c \in done : \A d \in done : c <= d

\* How many of the packets are complete in n bytes, and how many come before one
\* that is too large: its length is seen when its header is there.
Complete(n) == {k \in 0..Len(coming) : Total(SubSeq(coming, 1, k)) <= n}
TooLarge(n) ==
    {k \in 1..Len(coming) : /\ coming[k] > MaxIncomingPacket
                            /\ Total(SubSeq(coming, 1, k - 1)) + 2 <= n}
Taken(n) == CHOOSE k \in Complete(n) : \A j \in Complete(n) : j <= k

\* setReadyForReading: off in the loop that reads, then by the space there is.
ReadAgain(isFull, space) == space > 0

\* An event on the socket: read, take out the packets, handle them.
ReadEvent ==
    LET cap == GrownCapacity(inBuffer + inSocket)
        have == IF inBuffer + inSocket < cap - 1 THEN inBuffer + inSocket ELSE cap - 1
        n == Taken(have)
    IN
    /\ readyToRead /\ inSocket > 0 /\ ~refused
    /\ capacity' = cap
    /\ inSocket' = inBuffer + inSocket - have
    /\ IF TooLarge(have) # {} /\ \A k \in TooLarge(have) : k > n
       THEN /\ refused' = TRUE
            /\ inBuffer' = have
            /\ UNCHANGED <<coming, handledPackets, readyToRead>>
       ELSE /\ inBuffer' = have - Total(SubSeq(coming, 1, n))
            /\ coming' = SubSeq(coming, n + 1, Len(coming))
            /\ handledPackets' = handledPackets + n
            /\ readyToRead' = ReadAgain(have = cap - 1, cap - 1 - inBuffer')
            /\ UNCHANGED refused
    /\ primed' = IF cap = capacity THEN primed ELSE FALSE
    /\ UNCHANGED sentPackets

\* resetBuffersIfEligible, a timer: the second time in a row that it is empty.
ResetBuffers ==
    /\ ~refused
    /\ primed' = ~(primed /\ inBuffer = 0)
    /\ capacity' = IF primed /\ inBuffer = 0 THEN InitialCapacity ELSE capacity
    /\ UNCHANGED <<inBuffer, inSocket, coming, sentPackets, handledPackets, readyToRead,
                   refused>>

InputNext ==
    \/ \E n \in PacketSizes : SendPacket(n)
    \/ ReadEvent
    \/ ResetBuffers

InputSpec == InputInit /\ [][InputNext]_inputVars
InputFairness == WF_inputVars(ReadEvent)
FairInputSpec == InputSpec /\ InputFairness

-----------------------------------------------------------------------------
(* When the socket is not read any more, the buffer is full: reading is never *)
(* off while there is space, and every byte is in the buffer or in the socket *)
(* (client.cpp:344, 1062).                                                   *)
ReadingIsOn ==
    /\ ~refused => (readyToRead <=> inBuffer < capacity - 1)
    /\ inBuffer + inSocket = Total(coming)

(* Every packet that is not larger than max_packet_size is read in the end,   *)
(* or one before it was too large (man/flashmq.conf.5.dbk5:256: "upon arrival *)
(* of large packets (up to max_packet_size bytes), room will be made up to    *)
(* twice their size").                                                       *)
PacketsAreRead ==
    \A n \in 1..MaxPackets : sentPackets >= n ~> (handledPackets >= n \/ refused)
=============================================================================
