---------------------------- MODULE TransportOutput ----------------------------
(* The way of bytes from the write buffer of a client to its socket:           *)
(* Client::writeBufIntoFd over IoWrapper::writeWebsocketAndOrSsl               *)
(* (client.cpp:553-591, iowrapper.cpp:574-640, 1005-1103).  A WebSocket client *)
(* gets frames, which wait in a buffer of their own while the socket is full;  *)
(* with TLS a write that would block has to be repeated with the same bytes.   *)
(*                                                                           *)
(* A frame is a header of one token and its payload; MQTT bytes are numbered.   *)
(* Left out: EINTR, disconnects (ClientOutput has them), reads that TLS wants  *)
(* to write for.                                                             *)
EXTENDS Integers, Sequences, SequencesExt

CONSTANTS
    LinkKinds,          \* connections: whether each has WebSocket and TLS
    AnswerSize,     \* length of the answer to a WebSocket request
    AnswerFits,     \* does an empty socket take all of it?
    PacketLengths,  \* of what the broker writes
    PongLengths,    \* of the payloads of the client's pings
    MaxPieces,      \* bound on packets and pings
    RemInitial,     \* client_initial_buffer_size
    RemLimit        \* client_max_write_buffer_size

ASSUME LinkKindsAssumption == LinkKinds \subseteq [ws : BOOLEAN, tls : BOOLEAN]
ASSUME OutputSizesAssumption ==
    /\ AnswerSize \in Nat \ {0} /\ AnswerFits \in BOOLEAN
    /\ PacketLengths \subseteq Nat \ {0} /\ PongLengths \subseteq Nat
    /\ MaxPieces \in Nat
    /\ {RemInitial, RemLimit} \subseteq Nat \ {0, 1}

VARIABLES
    link,
    wsState,        \* NotUpgraded, Upgrading or Upgraded
    outbuf,         \* the write buffer
    remainder,      \* websocketWriteRemainder
    remCapacity,    \* its getCapacity()
    sslLength,      \* incompleteSslWrite: the length that is to be repeated, or 0
    sslRecord,      \* what OpenSSL has taken of a write that would block
    wantWrite,      \* readyForWriting
    writing,        \* does writeBufIntoFd hold the lock of the buffer?
    produced,       \* how many MQTT bytes were written
    pings,          \* the pings that were answered
    pieces,         \* how many packets and pings there were
    wire            \* what the socket took

tranVars == <<link, wsState, outbuf, remainder, remCapacity, sslLength, sslRecord, wantWrite,
              writing, produced, pings, pieces, wire>>

-----------------------------------------------------------------------------
HeaderMax == 1          \* WEBSOCKET_MAX_SENDING_HEADER_SIZE
Answer == [i \in 1..AnswerSize |-> [kind |-> "http", number |-> i]]
Bytes(from, n) == [i \in 1..n |-> [kind |-> "Binary", number |-> from + i]]
Echo(ping, n) == [i \in 1..n |-> [kind |-> "Pong", number |-> ping]]
Header(op, n) == [kind |-> "header", op |-> op, len |-> n]
WireTokens == [kind : {"http", "Binary", "Pong"}, number : Nat]
              \cup [kind : {"header"}, op : {"Binary", "Pong"}, len : Nat]

TranTypeOK ==
    /\ link \in LinkKinds
    /\ wsState \in {"NotUpgraded", "Upgrading", "Upgraded"}
    /\ {outbuf, remainder, sslRecord, wire} \subseteq Seq(WireTokens)
    /\ Len(remainder) < remCapacity
    /\ {sslLength, produced} \subseteq Nat /\ pieces \in 0..MaxPieces
    /\ {wantWrite, writing} \subseteq BOOLEAN
    /\ pings \in Seq(Nat)

TranInit ==
    /\ link \in LinkKinds
    /\ wsState = "NotUpgraded"
    /\ outbuf = <<>> /\ remainder = <<>> /\ remCapacity = RemInitial
    /\ sslLength = 0 /\ sslRecord = <<>>
    /\ wantWrite = FALSE /\ writing = FALSE
    /\ produced = 0 /\ pings = <<>> /\ pieces = 0 /\ wire = <<>>

-----------------------------------------------------------------------------
\* writeText: the answer to the request of a WebSocket client.
writeText ==
    /\ link.ws /\ wsState = "NotUpgraded"
    /\ outbuf' = outbuf \o Answer
    /\ wsState' = "Upgrading"
    /\ wantWrite' = TRUE
    /\ UNCHANGED <<link, remainder, remCapacity, sslLength, sslRecord, writing, produced, pings,
                   pieces, wire>>

\* writeMqttPacket, by any thread.
WritePacket(n) ==
    /\ ~writing /\ pieces < MaxPieces
    /\ link.ws => wsState = "Upgraded"
    /\ outbuf' = outbuf \o Bytes(produced, n)
    /\ produced' = produced + n
    /\ pieces' = pieces + 1
    /\ wantWrite' = TRUE
    /\ UNCHANGED <<link, wsState, remainder, remCapacity, sslLength, sslRecord, writing, pings, wire>>

\* CirBuf::ensureFreeSpace: the capacity that there is room for n more in.
Ensured(capacity, used, n, limit) ==
    LET enough == {k \in 0..10 : capacity * 2^k - used - 1 >= n \/ capacity * 2^k >= limit}
    IN  capacity * 2^(CHOOSE k \in enough : \A j \in enough : k <= j)

\* writeAsMuchOfBufAsWebsocketFrame: the frame for as much of the payload as
\* there is room for; nothing when there is only room for a header.
FrameFor(op, payload, capacity) ==
    LET free == capacity - 1 - Len(remainder)
        n == IF Len(payload) < free - HeaderMax THEN Len(payload) ELSE free - HeaderMax
    IN  IF free <= HeaderMax \/ (payload = <<>> /\ op = "Binary")
        THEN <<>> ELSE <<Header(op, n)>> \o SubSeq(payload, 1, n)

\* A ping is answered, by the thread that read it.  The buffer grows without
\* limit for it.
Pong(n) ==
    LET payload == Echo(pieces, n)
        capacity == Ensured(remCapacity, Len(remainder), n + HeaderMax, RemLimit * 8)
    IN
    /\ wsState = "Upgraded" /\ ~writing /\ pieces < MaxPieces
    /\ pieces' = pieces + 1
    /\ pings' = Append(pings, n)
    /\ remCapacity' = capacity
    /\ remainder' = remainder \o FrameFor("Pong", payload, capacity)
    /\ wantWrite' = TRUE
    /\ UNCHANGED <<link, wsState, outbuf, sslLength, sslRecord, writing, produced, wire>>

-----------------------------------------------------------------------------
(* writeBufIntoFd: EPOLLOUT, and a loop until the socket would block.         *)

BeginWrite ==
    /\ wantWrite /\ ~writing
    /\ writing' = TRUE
    /\ UNCHANGED <<link, wsState, outbuf, remainder, remCapacity, sslLength, sslRecord, wantWrite,
                   produced, pings, pieces, wire>>

\* How much of what it is given the socket may take.  TLS takes all or nothing,
\* and first what is to be repeated.
MayTake(source) ==
    IF link.tls THEN {0, Len(source)} \cup ({sslLength} \ {0}) ELSE 0..Len(source)

\* writeOrSslWrite, until the source is empty or n were taken and it would block.
writeOrSslWrite(source, n) ==
    LET repeats == sslLength > 0
        rest == Len(source) - n
        same == repeats /\ n = 0
    IN
    /\ wire' = wire \o (IF repeats /\ n > 0 THEN sslRecord \o SubSeq(source, sslLength + 1, n)
                                            ELSE SubSeq(source, 1, n))
    /\ sslLength' = IF ~link.tls THEN 0 ELSE IF same THEN sslLength ELSE rest
    /\ sslRecord' = IF ~link.tls THEN <<>> ELSE IF same THEN sslRecord
                    ELSE SubSeq(source, n + 1, Len(source))

\* The loop goes on, or it ends and epoll is told whether anything is left.
GoOn(blocked) ==
    LET left == blocked \/ outbuf' # <<>> \/ remainder' # <<>>
    IN  /\ writing' = (left /\ ~blocked)
        /\ wantWrite' = left

\* Bytes that are not framed: without WebSocket, or the answer to the request.
WritePlain ==
    /\ writing /\ wsState # "Upgraded"
    /\ \E n \in MayTake(outbuf) :
          /\ wsState = "Upgrading" /\ AnswerFits => n = Len(outbuf)
          /\ writeOrSslWrite(outbuf, n)
          /\ outbuf' = SubSeq(outbuf, n + 1, Len(outbuf))
          /\ UNCHANGED remainder
          /\ GoOn(n < Len(outbuf))
    /\ wsState' = IF wsState = "Upgrading" THEN "Upgraded" ELSE wsState
    /\ UNCHANGED <<link, remCapacity, produced, pings, pieces>>

\* As much as possible is framed, then frames are written.
WriteFramed ==
    LET capacity == Ensured(remCapacity, Len(remainder), Len(outbuf) + HeaderMax, RemLimit)
        frame == FrameFor("Binary", outbuf, capacity)
        source == remainder \o frame
        framed == IF frame = <<>> THEN 0 ELSE Len(frame) - 1
    IN
    /\ writing /\ wsState = "Upgraded"
    /\ remCapacity' = IF outbuf = <<>> THEN remCapacity ELSE capacity
    /\ outbuf' = SubSeq(outbuf, framed + 1, Len(outbuf))
    /\ \E n \in MayTake(source) :
          /\ writeOrSslWrite(source, n)
          /\ remainder' = SubSeq(source, n + 1, Len(source))
          /\ GoOn(n < Len(source))
    /\ UNCHANGED <<link, wsState, produced, pings, pieces>>

TranNext ==
    \/ writeText
    \/ \E n \in PacketLengths : WritePacket(n)
    \/ \E n \in PongLengths : Pong(n)
    \/ BeginWrite \/ WritePlain \/ WriteFramed

TranSpec == TranInit /\ [][TranNext]_tranVars

\* The thread goes on, and a socket takes something again and again.
TakeSome == (WritePlain \/ WriteFramed) /\ wire' # wire
TranFairness == WF_tranVars(BeginWrite) /\ WF_tranVars(WritePlain \/ WriteFramed) /\ SF_tranVars(TakeSome)
FairTranSpec == TranSpec /\ TranFairness

-----------------------------------------------------------------------------
\* What the client gets, with what is framed for it.
Stream == wire \o remainder
OfKind(seq, kind) == SelectSeq(seq, LAMBDA x : x.kind = kind)
Headers == {i \in DOMAIN Stream : Stream[i].kind = "header"}

\* The client gets the MQTT bytes once and in order, whatever was repeated and
\* however they were framed (client.cpp:553; iowrapper.cpp:1040).
StreamInOrder ==
    OfKind(Stream, "Binary") \o OfKind(outbuf, "Binary") = Bytes(0, produced)

\* The answer comes first and whole, and after it frames of which each has as
\* much payload of its own kind as its header says: a pong never comes between
\* the bytes of another frame (iowrapper.cpp:1005).
FramesAreWhole ==
    link.ws /\ wsState = "Upgraded" =>
        /\ IsPrefix(Answer, Stream)
        /\ \A i \in (AnswerSize + 1)..Len(Stream) :
              IF i \in Headers
              THEN \A j \in (i + 1)..(i + Stream[i].len) :
                      j \in DOMAIN Stream /\ Stream[j].kind = Stream[i].op
              ELSE \E h \in Headers : h < i /\ i <= h + Stream[h].len

\* Every ping is answered, with a payload as long as its own (iowrapper.cpp:905).
PongsAreWhole ==
    LET pongs == SelectSeq(Stream, LAMBDA x : x.kind = "header" /\ x.op = "Pong")
    IN  [i \in DOMAIN pongs |-> pongs[i].len] = pings

\* A write that TLS wants to have repeated is repeated with the same bytes, though
\* the buffers grow meanwhile (iowrapper.cpp:597: "it must be repeated with the same
\* arguments").
RepeatsTheSame ==
    LET source == IF wsState = "Upgraded" THEN remainder ELSE outbuf
    IN  sslLength > 0 => sslLength <= Len(source) /\ sslRecord = SubSeq(source, 1, sslLength)

\* Nothing stays behind: epoll waits for the socket when anything is left in one of
\* the two buffers or in TLS (client.cpp:579).
NothingStays ==
    ~writing /\ (outbuf # <<>> \/ remainder # <<>> \/ sslLength > 0) => wantWrite

TransportIsSound ==
    /\ TranTypeOK
    /\ StreamInOrder /\ FramesAreWhole /\ PongsAreWhole /\ RepeatsTheSame /\ NothingStays

\* What is written reaches the socket.
AllIsSent == <>[](outbuf = <<>> /\ remainder = <<>>)
=============================================================================
