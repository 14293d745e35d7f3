-------------------------- MODULE MCSessionRegistry --------------------------
(* Instances of SessionRegistry.  Three connections make a take-over of a    *)
(* take-over; two seconds let a timer fire on the border between two         *)
(* connections.                                                              *)
EXTENDS SessionRegistry

P(version, clean, expiry, will) ==
    [version |-> version, clean |-> clean, expiry |-> expiry, will |-> will]

\* No connection takes up a session and asks that it ends with the connection.
MCTakeover == {P(5, FALSE, 1, 1), P(3, FALSE, 1, 0), P(3, TRUE, 1, NoWill), P(5, TRUE, 0, 0)}

\* Every session is resumed.
MCResume == {P(5, FALSE, e, w) : e \in {0, 1}, w \in {NoWill, 1}} \cup {P(3, FALSE, 1, 0)}

\* A session is replaced while it has a delayed will.
MCReplaced == {P(5, FALSE, 1, 1), P(5, TRUE, 1, NoWill)}

\* A session that outlives its client and one that is resumed to end with it.
MCResumeToEnd == {P(5, FALSE, 1, NoWill), P(5, FALSE, 0, NoWill)}

MCNone == {}
MCZero == {0}
=============================================================================
