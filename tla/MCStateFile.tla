----------------------------- MODULE MCStateFile -----------------------------
(* One session, with a will that waits, saved and loaded on either side of the *)
(* moment at which the clock no longer fits in half a word.                  *)
EXTENDS StateFile

MCSessions == {[expiry |-> 4, delay |-> 3, queuedAge |-> 1]}
=============================================================================
