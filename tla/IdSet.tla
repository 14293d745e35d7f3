------------------------------- MODULE IdSet -------------------------------
(* What the packet-id bookkeeping of a session promises its callers: a     *)
(* plain set of identifiers.  UsedIds implements it with a small array     *)
(* that turns into a bit vector (usedids.cpp).                             *)

CONSTANT Ids

VARIABLE used

Init == used = {}

Insert(id) == used' = used \cup {id}

Erase(id) == used' = used \ {id}

Next == \E id \in Ids : Insert(id) \/ Erase(id)

Spec == Init /\ [][Next]_used
=============================================================================
