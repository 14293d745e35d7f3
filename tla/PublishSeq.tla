------------------------------ MODULE PublishSeq ------------------------------
(* What QoSPublishQueue promises: the unacknowledged publishes of a session  *)
(* in the order in which they were queued, and the bytes they take.          *)
EXTENDS Integers, Sequences, SequencesExt

CONSTANT Entries  \* records of a packet id, a footprint and an expiry time

VARIABLES publishes, bytes, time

Bytes(s) == FoldLeft(LAMBDA sum, e : sum + e.footprint, 0, s)

Becomes(s) == publishes' = s /\ bytes' = Bytes(s)

Init == publishes = <<>> /\ bytes = 0 /\ time = 0

Add(e) ==
    /\ \A i \in DOMAIN publishes : publishes[i].id # e.id
    /\ Becomes(Append(publishes, e))
    /\ UNCHANGED time

Acknowledge(i) == Becomes(RemoveAt(publishes, i)) /\ UNCHANGED time

Expire(i) ==
    /\ publishes[i].expires \in 1..time
    /\ Becomes(RemoveAt(publishes, i))
    /\ UNCHANGED time

Tick == time' = time + 1 /\ UNCHANGED <<publishes, bytes>>

Next ==
    \/ \E e \in Entries : Add(e)
    \/ \E i \in DOMAIN publishes : Acknowledge(i) \/ Expire(i)
    \/ Tick

Spec == Init /\ [][Next]_<<publishes, bytes, time>>
=============================================================================
