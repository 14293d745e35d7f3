------------------------------ MODULE ByteQueue ------------------------------
(* What a circular buffer promises: the bytes that were put in come out, each *)
(* once and in that order.                                                   *)
EXTENDS Integers, Sequences

CONSTANT QueueBytes

VARIABLE bytes

QueueInit == bytes = <<>>

\* Some bytes are put behind what is there.
PutBytes ==
    /\ bytes' \in Seq(QueueBytes)
    /\ Len(bytes) <= Len(bytes')
    /\ SubSeq(bytes', 1, Len(bytes)) = bytes

TakeBytes == \E n \in 1..Len(bytes) : bytes' = SubSeq(bytes, n + 1, Len(bytes))

QueueNext == PutBytes \/ TakeBytes
QueueSpec == QueueInit /\ [][QueueNext]_bytes
=============================================================================
