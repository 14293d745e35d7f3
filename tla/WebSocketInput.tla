---------------------------- MODULE WebSocketInput ----------------------------
(* How the bytes of a WebSocket client become MQTT packets:                   *)
(* IoWrapper::readWebsocketAndOrSsl and websocketBytesToReadBuffer under      *)
(* Client::readFdIntoBuffer (iowrapper.cpp:645-1000, client.cpp:321-366).     *)
(* Three buffers follow each other, and epoll only knows of the socket: what   *)
(* TLS has decrypted, the WebSocket bytes that are pending, the read buffer.   *)
(* One action is one turn of a loop.                                         *)
(*                                                                           *)
(* Bytes are tokens: the two of a frame's header and its payload, numbered     *)
(* over all binary frames.  With TLS a frame is a record.  Left out: masks,    *)
(* longer headers, requests that are not an upgrade, the shrinking of buffers. *)
EXTENDS Integers, Sequences, SequencesExt

CONSTANTS
    WsInitial,      \* client_initial_buffer_size
    WsMaxBuf,       \* client_max_write_buffer_size
    WsPacketSize,   \* every MQTT packet of the client has so many bytes
    WsFrames,       \* operation and length of the frames that the client may send
    MaxFrames,      \* bound on the frames
    HttpBytes,      \* size of the client's HTTP request
    TlsChoices      \* is there TLS?

ASSUME WsSizesAssumption ==
    /\ {WsInitial, WsMaxBuf, WsPacketSize, HttpBytes} \subseteq Nat \ {0, 1}
    /\ MaxFrames \in Nat
    /\ WsFrames \subseteq {"Binary", "Ping", "Pong", "Close"} \X Nat
    /\ TlsChoices \subseteq BOOLEAN

VARIABLES
    tls,                \* is there TLS?
    wsSocket,           \* tokens that were sent and not read
    tlsBytes,           \* decrypted and not read: SSL_pending
    wsPending,          \* websocketPendingBytes
    wsCapacity,         \* its getCapacity()
    wsFrame,            \* incompleteWebsocketRead: operation and bytes left
    wsUpgraded,
    readbuf,            \* the MQTT bytes in the read buffer
    readCapacity,
    readOn,             \* readyForReading
    at,                 \* where the thread is in readFdIntoBuffer
    got,                \* nbytesRead > 0
    sent,               \* what the client sent: frames, MQTT bytes, payloads of pings
    taken,              \* MQTT bytes that left the read buffer in packets
    pongs,              \* payloads that were sent back
    closed              \* by the client's frame, or for one that is too big

wsVars == <<tls, wsSocket, tlsBytes, wsPending, wsCapacity, wsFrame, wsUpgraded, readbuf,
            readCapacity, readOn, at, got, sent, taken, pongs, closed>>
\* What the turns of the decoder leave alone.
fillVars == <<tls, wsSocket, tlsBytes, wsCapacity, wsUpgraded, sent>>
readVars == <<readbuf, readCapacity, readOn, taken>>

-----------------------------------------------------------------------------
NoFrame == [op |-> "none", left |-> 0]
First == [kind |-> "first"]
Second(op, n) == [kind |-> "second", op |-> op, len |-> n]
Payload(kind, n, after) == [i \in 1..n |-> [kind |-> kind, number |-> after + i]]
Tokens == {First} \cup {Second(f[1], f[2]) : f \in WsFrames}
              \cup [kind : {"Binary", "Ping", "Pong", "Close", "http"}, number : Nat]

Doublings == {WsInitial * 2^k : k \in 0..6}
LeastOf(S) == CHOOSE n \in S : \A m \in S : n <= m
GreatestOf(S) == CHOOSE n \in S : \A m \in S : m <= n
Room == readCapacity - 1 - Len(readbuf)

WsTypeOK ==
    /\ {tls, wsUpgraded, readOn, got, closed} \subseteq BOOLEAN
    /\ {wsSocket, tlsBytes, wsPending} \subseteq Seq(Tokens)
    /\ wsCapacity \in Doublings /\ Len(wsPending) < wsCapacity
    /\ wsFrame \in [op : {"none", "Binary", "Ping", "Pong", "Close"}, left : Nat]
    /\ readbuf \in Seq(Nat) /\ readCapacity \in Doublings /\ Room >= 0
    /\ at \in {"epoll", "fill", "decode"}
    /\ taken \in Nat

WsInit ==
    /\ tls \in TlsChoices
    /\ wsSocket = Payload("http", HttpBytes, 0)
    /\ tlsBytes = <<>> /\ wsPending = <<>> /\ wsCapacity = WsInitial
    /\ wsFrame = NoFrame /\ wsUpgraded = FALSE
    /\ readbuf = <<>> /\ readCapacity = WsInitial /\ readOn = TRUE
    /\ at = "epoll" /\ got = FALSE
    /\ sent = [frames |-> 0, bytes |-> 0, pings |-> <<>>]
    /\ taken = 0 /\ pongs = <<>> /\ closed = FALSE

-----------------------------------------------------------------------------
\* The client sends a frame, once it has the answer to its request.
SendFrame(op, n) ==
    LET payload == Payload(op, n, IF op = "Binary" THEN sent.bytes ELSE sent.frames) IN
    /\ wsUpgraded /\ ~closed /\ sent.frames < MaxFrames
    /\ wsSocket' = wsSocket \o <<First, Second(op, n)>> \o payload
    /\ sent' = [frames |-> sent.frames + 1,
                bytes |-> sent.bytes + (IF op = "Binary" THEN n ELSE 0),
                pings |-> IF op = "Ping" THEN Append(sent.pings, payload) ELSE sent.pings]
    /\ UNCHANGED <<tls, tlsBytes, wsPending, wsCapacity, wsFrame, wsUpgraded, readVars, at, got,
                   pongs, closed>>

\* EPOLLIN: readFdIntoBuffer begins.  The read buffer has space, or epoll would
\* not be told to wait for the socket.
BeginRead ==
    /\ at = "epoll" /\ readOn /\ ~closed
    /\ wsSocket # <<>>
    /\ at' = "fill" /\ got' = FALSE
    /\ UNCHANGED <<fillVars, wsPending, wsFrame, readVars, pongs, closed>>

\* The end of readFdIntoBuffer: complete packets leave the buffer
\* (bufferToMqttPackets), and epoll waits for the socket if there is space.
EndRead ==
    LET whole == (Len(readbuf) \div WsPacketSize) * WsPacketSize IN
    /\ at' = "epoll"
    /\ readbuf' = SubSeq(readbuf, whole + 1, Len(readbuf))
    /\ taken' = taken + whole
    /\ readOn' = (Len(readbuf') < readCapacity - 1)
    /\ UNCHANGED readCapacity

\* The loop of readWebsocketAndOrSsl over the reads of the socket: n tokens come
\* before it would block, or the pending bytes have no more space to grow.
\* Decrypted bytes are read first, and the next record when there are none.  The
\* first read after epoll gives something.
ReadSocket(n) ==
    LET stream == tlsBytes \o wsSocket
        most == GreatestOf({wsCapacity} \cup
                           {c \in Doublings : c <= IF wsUpgraded THEN WsMaxBuf ELSE 2 * HttpBytes})
        total == Len(wsPending) + n
        end == LeastOf({k \in n..Len(stream) :
                            ~tls \/ k = Len(stream) \/ (k >= Len(tlsBytes) /\ stream[k + 1] = First)})
    IN
    /\ total < most
    /\ total < most - 1 => n = end /\ (n > 0 \/ got)
    /\ wsPending' = wsPending \o SubSeq(stream, 1, n)
    /\ wsCapacity' = LeastOf({c \in Doublings : c >= wsCapacity /\ (total < c - 1 \/ c = most)})
    /\ tlsBytes' = IF tls THEN SubSeq(stream, n + 1, end) ELSE <<>>
    /\ wsSocket' = SubSeq(stream, (IF tls THEN end ELSE n) + 1, Len(stream))

\* What was read is decoded.
Fill(n) ==
    /\ at = "fill" /\ wsUpgraded
    /\ ReadSocket(n)
    /\ IF wsPending' = <<>> THEN EndRead ELSE at' = "decode" /\ UNCHANGED readVars
    /\ got' = FALSE
    /\ UNCHANGED <<tls, wsFrame, wsUpgraded, sent, pongs, closed>>

\* The HTTP request: when it is complete, it is answered and the pending bytes
\* are reset.
FillRequest(n) ==
    /\ at = "fill" /\ ~wsUpgraded
    /\ ReadSocket(n)
    /\ Len(wsPending') < HttpBytes
    /\ EndRead
    /\ UNCHANGED <<tls, wsFrame, wsUpgraded, got, sent, pongs, closed>>

Upgrade ==
    /\ at = "fill" /\ ~wsUpgraded
    /\ Len(wsPending) + Len(wsSocket) = HttpBytes
    /\ wsUpgraded' = TRUE
    /\ wsPending' = <<>> /\ wsCapacity' = WsInitial /\ wsSocket' = <<>>
    /\ EndRead
    /\ UNCHANGED <<tls, tlsBytes, wsFrame, got, sent, pongs, closed>>

-----------------------------------------------------------------------------
(* The loop of websocketBytesToReadBuffer.                                    *)

Decoding == at = "decode" /\ wsPending # <<>> /\ Room > 0
Working == wsFrame.left > 0     \* sillWorkingOnFrame()

HeaderIsThere == ~Working /\ Len(wsPending) >= 2
ControlIsThere == Working /\ wsFrame.op # "Binary" /\ wsFrame.left <= Len(wsPending)
BinaryIsThere == wsFrame.op = "Binary" /\ Working

\* What a complete control frame does.
Control(op, payload) ==
    /\ pongs' = IF op = "Ping" THEN Append(pongs, payload) ELSE pongs
    /\ closed' = (op = "Close")

\* The header of a frame, and what is done at once with a frame without payload.
\* A control frame that can not fit is an error.
DecodeHeader ==
    LET head == wsPending[2] IN
    /\ Decoding /\ HeaderIsThere
    /\ wsFrame' = IF head.len = 0 THEN NoFrame ELSE [op |-> head.op, left |-> head.len]
    /\ wsPending' = IF head.op = "Close" /\ head.len = 0 THEN <<>>
                    ELSE SubSeq(wsPending, 3, Len(wsPending))
    /\ IF head.op # "Binary" /\ head.len > WsMaxBuf \div 2
       THEN closed' = TRUE /\ at' = "epoll" /\ UNCHANGED pongs
       ELSE /\ UNCHANGED at
            /\ IF head.len = 0 THEN Control(head.op, <<>>) ELSE UNCHANGED <<pongs, closed>>
    /\ UNCHANGED <<fillVars, readVars, got>>

\* Payload of a binary frame goes to the read buffer, as much as it takes.
DecodeBinary ==
    LET n == LeastOf({Len(wsPending), wsFrame.left, Room}) IN
    /\ Decoding /\ BinaryIsThere
    /\ readbuf' = readbuf \o [i \in 1..n |-> wsPending[i].number]
    /\ wsPending' = SubSeq(wsPending, n + 1, Len(wsPending))
    /\ wsFrame' = IF n = wsFrame.left THEN NoFrame ELSE [wsFrame EXCEPT !.left = @ - n]
    /\ got' = TRUE
    /\ UNCHANGED <<fillVars, readCapacity, readOn, taken, at, pongs, closed>>

\* Mutant: a control frame is taken with as much as there is of it.
DecodePartOfControl ==
    LET n == LeastOf({Len(wsPending), wsFrame.left}) IN
    /\ Decoding /\ Working /\ wsFrame.op # "Binary"
    /\ Control(wsFrame.op, SubSeq(wsPending, 1, n))
    /\ wsPending' = SubSeq(wsPending, n + 1, Len(wsPending))
    /\ wsFrame' = IF n = wsFrame.left THEN NoFrame ELSE [wsFrame EXCEPT !.left = @ - n]
    /\ UNCHANGED <<fillVars, readVars, at, got>>

\* A control frame is taken when all of it is there.
DecodeControl ==
    /\ Decoding /\ ControlIsThere
    /\ Control(wsFrame.op, SubSeq(wsPending, 1, wsFrame.left))
    /\ wsPending' = IF wsFrame.op = "Close" THEN <<>>
                    ELSE SubSeq(wsPending, wsFrame.left + 1, Len(wsPending))
    /\ wsFrame' = NoFrame
    /\ UNCHANGED <<fillVars, readVars, at, got>>

\* The decoder stops, and readFdIntoBuffer goes on when something was decoded
\* and something is pending: with a bigger buffer when it is full.
EndDecode ==
    /\ at = "decode"
    /\ ~(Decoding /\ (HeaderIsThere \/ ControlIsThere \/ BinaryIsThere))
    /\ IF got /\ wsPending # <<>> /\ ~closed
       THEN /\ at' = "fill"
            /\ readCapacity' = IF Room = 0 THEN 2 * readCapacity ELSE readCapacity
            /\ UNCHANGED <<readbuf, readOn, taken>>
       ELSE EndRead
    /\ UNCHANGED <<fillVars, wsPending, wsFrame, got, pongs, closed>>

WsNext ==
    \/ \E f \in WsFrames : SendFrame(f[1], f[2])
    \/ BeginRead
    \/ \E n \in 0..(Len(tlsBytes) + Len(wsSocket)) : Fill(n) \/ FillRequest(n)
    \/ Upgrade
    \/ DecodeHeader \/ DecodeBinary \/ DecodeControl
    \/ EndDecode

WsReading ==
    \/ BeginRead \/ \E n \in 0..(Len(tlsBytes) + Len(wsSocket)) : Fill(n) \/ FillRequest(n)
    \/ Upgrade \/ DecodeHeader \/ DecodeBinary \/ DecodeControl \/ EndDecode

\* The loop of a worker thread waits for epoll again and again.
WsFairness == WF_wsVars(WsReading)

WsSpec == WsInit /\ [][WsNext]_wsVars /\ WsFairness

-----------------------------------------------------------------------------
\* The MQTT bytes are those of the binary frames, in their order, however the
\* frames are cut by the reads, and none is decoded before it was sent
\* (iowrapper.cpp:860: at most one frame a turn, "it may or may not finish").
BytesInOrder ==
    /\ \A i \in DOMAIN readbuf : readbuf[i] = taken + i
    /\ taken + Len(readbuf) <= sent.bytes

\* Pings are answered in order with their own payload (iowrapper.cpp:880), and a
\* payload that was cut by two reads is not answered in part.
PongsAreEchoes == pongs = SubSeq(sent.pings, 1, Len(pongs))

\* When the thread waits for epoll, nothing is left in the pending bytes that could
\* be decoded: epoll does not tell of it (client.cpp:344).
NothingDecodable ==
    at = "epoll" /\ wsUpgraded /\ ~closed /\ readOn
        => ~(HeaderIsThere \/ ControlIsThere \/ (BinaryIsThere /\ wsPending # <<>>))

WsInputIsSound == WsTypeOK /\ BytesInOrder /\ PongsAreEchoes /\ NothingDecodable

\* When the thread waits for epoll, TLS has nothing that it decrypted.
NothingDecrypted == at = "epoll" /\ ~closed /\ readOn => tlsBytes = <<>>

\* A client whose packet is complete is heard, or its connection ends.
WebSocketIsRead ==
    \A n \in 1..MaxFrames :
        (sent.bytes >= n * WsPacketSize) ~> (taken >= n * WsPacketSize \/ closed)

\* The same, but for the buffer that is exactly full.
WsReadOrFull ==
    \A n \in 1..MaxFrames :
        (sent.bytes >= n * WsPacketSize) ~> (taken >= n * WsPacketSize \/ closed \/ ~readOn)
=============================================================================
