------------------------------- MODULE CirBuf -------------------------------
(* class CirBuf (cirbuf.h, cirbuf.cpp): a circular buffer that grows by       *)
(* powers of two while it holds data and shrinks when it is empty.  A cell    *)
(* that holds no data is Junk: reading it is an error.                        *)
EXTENDS Integers, Sequences, SequencesExt

CONSTANTS
    CirBytes,       \* values of a byte
    InitialSize,    \* client_initial_buffer_size, a power of two
    LimitSize,      \* 2 GB
    MaxRequest      \* bound on the bytes of one call

ASSUME InitialSizeAssumption == InitialSize \in Nat \ {0} /\ \E k \in 1..30 : InitialSize = 2^k
ASSUME LimitSizeAssumption == LimitSize \in Nat /\ LimitSize >= InitialSize

ASSUME CirBytesAssumption == 0 \notin CirBytes

VARIABLES
    size, head, tail,
    buf,                    \* position -> byte
    primedForSizeReset

cirVars == <<size, head, tail, buf, primedForSizeReset>>

-----------------------------------------------------------------------------
Junk == 0
Cells == 0..(LimitSize - 1)

CirTypeOK ==
    /\ \E k \in 1..30 : size = 2^k
    /\ size <= LimitSize
    /\ head \in 0..(size - 1) /\ tail \in 0..(size - 1)
    /\ buf \in [Cells -> CirBytes \cup {Junk}]
    /\ primedForSizeReset \in BOOLEAN

CirInit ==
    /\ size = InitialSize /\ head = 0 /\ tail = 0
    /\ buf = [i \in Cells |-> Junk]
    /\ primedForSizeReset = FALSE

\* x & (size - 1) is x % size, as the size is a power of two.
usedBytes == (head - tail) % size
freeSpace == (tail - (head + 1)) % size

maxWriteSize ==
    LET end == size - 1 - head
        n == (end + tail) % size
    IN  IF n <= end THEN n ELSE end + 1
maxReadSize ==
    LET end == size - tail
        n == (head + end) % size
    IN  IF n < end THEN n ELSE end

InUse(i) == i < size /\ ((i - tail) % size) < usedBytes
Contents == [k \in 1..usedBytes |-> buf[(tail + k - 1) % size]]

\* Cells that hold no data any more are junk.
Tidy(b, s, h, t) ==
    [i \in Cells |-> IF i < s /\ ((i - t) % s) < ((h - t) % s) THEN b[i] ELSE Junk]

-----------------------------------------------------------------------------
\* doubleCapacity(factor): the part that wrapped is put behind the old end.
\* Mutant: it stays at the beginning.
MovedNowhere(factor) == buf
Moved(factor) ==
    LET to == tail + maxReadSize IN
    IF head < tail
    THEN [i \in Cells |-> IF i \in to..(to + head - 1) THEN buf[i - to] ELSE buf[i]]
    ELSE buf

\* factor is 1: nothing happens.  Behind 2 GB there is an exception.
doubleCapacity(factor) ==
    /\ factor \in Nat /\ factor > 1 /\ size * factor <= LimitSize
    /\ size' = size * factor
    /\ head' = tail + usedBytes
    /\ buf' = Tidy(Moved(factor), size', head', tail)
    /\ primedForSizeReset' = FALSE
    /\ UNCHANGED tail

\* The factor that ensureFreeSpace(n, max) takes.
Factor(n, max) ==
    LET enough == {k \in 0..20 : size * 2^k - usedBytes - 1 >= n \/ size * 2^k >= max}
    IN  IF n <= freeSpace THEN 1 ELSE 2^(CHOOSE k \in enough : \A j \in enough : k <= j)

ensureFreeSpace(n, max) == doubleCapacity(Factor(n, max))

\* readFdIntoBuffer: the socket fills what is free in one piece.
ReadFromSocket(b) ==
    /\ Len(b) <= maxWriteSize
    /\ head' = (head + Len(b)) % size
    /\ buf' = [i \in Cells |-> IF i \in head..(head + Len(b) - 1) THEN b[i - head + 1] ELSE buf[i]]
    /\ UNCHANGED <<size, tail, primedForSizeReset>>

\* write(buf, count): as many pieces as it takes, after the buffer has grown.
WriteBytes(b) ==
    /\ Len(b) <= freeSpace
    /\ head' = (head + Len(b)) % size
    /\ buf' = [i \in Cells |-> IF i < size /\ ((i - head) % size) < Len(b)
                               THEN b[((i - head) % size) + 1] ELSE buf[i]]
    /\ UNCHANGED <<size, tail, primedForSizeReset>>

\* write() to a socket, which takes no more than there is in one piece.
advanceTail(n) ==
    /\ n <= usedBytes
    /\ tail' = (tail + n) % size
    /\ buf' = Tidy(buf, size, head, tail')
    /\ UNCHANGED <<size, head, primedForSizeReset>>

\* resetCapacity(newSize), for an empty buffer.
resetCapacity(newSize) ==
    /\ usedBytes = 0
    /\ primedForSizeReset' = FALSE
    /\ IF size = newSize
       THEN UNCHANGED <<size, head, tail, buf>>
       ELSE /\ size' = newSize /\ head' = 0 /\ tail' = 0
            /\ buf' = [i \in Cells |-> Junk]

\* The timer: only the second time in a row.
resetCapacityIfEligable ==
    IF ~primedForSizeReset
    THEN primedForSizeReset' = TRUE /\ UNCHANGED <<size, head, tail, buf>>
    ELSE resetCapacity(InitialSize)

-----------------------------------------------------------------------------
Requests == UNION {[1..n -> CirBytes] : n \in 1..MaxRequest}

CirNext ==
    \/ \E b \in Requests : ReadFromSocket(b) \/ WriteBytes(b)
    \/ \E n \in 1..MaxRequest, max \in {LimitSize, InitialSize * 2} : ensureFreeSpace(n, max)
    \/ freeSpace = 0 /\ doubleCapacity(2)
    \/ \E n \in 1..LimitSize : advanceTail(n)
    \/ resetCapacityIfEligable
    \/ resetCapacity(InitialSize)

CirSpec == CirInit /\ [][CirNext]_cirVars

-----------------------------------------------------------------------------
(* One byte is always free, so that an empty buffer is not a full one, and    *)
(* what can be read or written in one piece is not more than there is, and    *)
(* not nothing: the loops of write() and readToVector() end after two pieces, *)
(* as they assert (cirbuf.cpp:58-72, 252, 276).                              *)
PiecesAreRight ==
    /\ usedBytes + freeSpace = size - 1
    /\ maxReadSize <= usedBytes /\ (usedBytes > 0 => maxReadSize > 0)
    /\ maxWriteSize <= freeSpace /\ (freeSpace > 0 => maxWriteSize > 0)
    /\ maxReadSize < usedBytes => tail + maxReadSize = size
    /\ maxWriteSize < freeSpace => head + maxWriteSize = size

Queue == INSTANCE ByteQueue WITH QueueBytes <- CirBytes, bytes <- Contents

(* The bytes come out as they went in, whatever the buffer does in between    *)
(* with its memory (cirbuf.cpp:127, 193), and the pieces it hands out for      *)
(* reading and writing are the right ones (cirbuf.cpp:79-106).                *)
ImplementsByteQueue == Queue!QueueSpec /\ []PiecesAreRight
=============================================================================
