------------------------------- MODULE UsedIds -------------------------------
(* class UsedIds (usedids.h, usedids.cpp): the set of MQTT packet ids in use *)
(* by a session.  Up to SMALL_MAX ids live in an array; one more switches    *)
(* to a vector of 64-bit words, which is dropped again when its last bit is  *)
(* cleared.  A word is the set of its bit numbers, so the vector is a set of *)
(* <<word, bit>> cells.  Array cells past m_ids_used keep their old values,  *)
(* as std::memmove leaves them.                                              *)
EXTENDS Integers, FiniteSets

CONSTANTS
    Ids,        \* the packet ids callers use, some of 1..65535
    SMALL_MAX   \* capacity of the array (8 in the code)

ASSUME IdsAssumption == Ids \subseteq 1..65535
ASSUME SmallMaxAssumption == SMALL_MAX \in Nat \ {0}

VARIABLES
    m_ids,        \* std::array<uint16_t, SMALL_MAX>
    m_ids_used,   \* how many cells of m_ids count
    has_bits,     \* m_bits.has_value()
    m_bits,       \* the bits that are 1
    m_bits_used   \* the code's own count of them

vars == <<m_ids, m_ids_used, has_bits, m_bits, m_bits_used>>

-----------------------------------------------------------------------------
Cell(id) == <<id \div 64, id % 64>>

bits_is_used(id) == Cell(id) \in m_bits

\* for (i = 0; i < m_ids_used; i++) if (m_ids.at(i) == id)
ids_is_used(id) == \E i \in 0..(m_ids_used - 1) : m_ids[i] = id

contains(id) == IF has_bits THEN bits_is_used(id) ELSE ids_is_used(id)

-----------------------------------------------------------------------------
\* m_bits.emplace(WORDS), then bits_mark_used on every id of the array, which
\* counts a bit only when it was 0.
BitsOfArray == {Cell(m_ids[i]) : i \in 0..(m_ids_used - 1)}

\* bits_mark_used(id) on a vector with the given bits and count
bits_mark_used(id, bits, count) ==
    /\ m_bits' = bits \cup {Cell(id)}
    /\ m_bits_used' = IF Cell(id) \in bits THEN count ELSE count + 1

InsertIntoBits(id) ==
    /\ has_bits
    /\ bits_mark_used(id, m_bits, m_bits_used)
    /\ UNCHANGED <<m_ids, m_ids_used, has_bits>>

\* ids_mark_used
InsertIntoArray(id) ==
    /\ ~has_bits
    /\ m_ids_used < SMALL_MAX
    /\ IF ids_is_used(id)
       THEN UNCHANGED <<m_ids, m_ids_used>>
       ELSE /\ m_ids' = [m_ids EXCEPT ![m_ids_used] = id]
            /\ m_ids_used' = m_ids_used + 1
    /\ UNCHANGED <<has_bits, m_bits, m_bits_used>>

InsertAndSwitch(id) ==
    /\ ~has_bits
    /\ m_ids_used >= SMALL_MAX
    /\ has_bits' = TRUE
    /\ bits_mark_used(id, BitsOfArray, m_bits_used + Cardinality(BitsOfArray))
    /\ m_ids_used' = 0
    /\ UNCHANGED m_ids

insert(id) == InsertIntoBits(id) \/ InsertIntoArray(id) \/ InsertAndSwitch(id)

-----------------------------------------------------------------------------
\* Mutant: the vector is given back with one bit left.
EraseFromBitsEarly(id) ==
    LET count == IF bits_is_used(id) THEN m_bits_used - 1 ELSE m_bits_used
    IN  /\ has_bits
        /\ m_bits_used' = count
        /\ m_bits' = IF count <= 1 THEN {} ELSE m_bits \ {Cell(id)}
        /\ has_bits' = (count > 1)
        /\ m_ids_used' = IF count <= 1 THEN 0 ELSE m_ids_used
        /\ UNCHANGED m_ids

\* bits_mark_free, and the vector is given back when no bit is left
EraseFromBits(id) ==
    LET count == IF bits_is_used(id) THEN m_bits_used - 1 ELSE m_bits_used
    IN  /\ has_bits
        /\ m_bits_used' = count
        /\ m_bits' = IF count = 0 THEN {} ELSE m_bits \ {Cell(id)}
        /\ has_bits' = (count # 0)
        /\ m_ids_used' = IF count = 0 THEN 0 ELSE m_ids_used
        /\ UNCHANGED m_ids

\* the memmove of ids_mark_free: cells i+1 .. m_ids_used-1 move one down
ShiftDown(i) ==
    [j \in 0..(SMALL_MAX - 1) |->
        IF j \in i..(m_ids_used - 2) THEN m_ids[j + 1] ELSE m_ids[j]]

\* ids_mark_free: the loop stops at the first cell that holds id
EraseFromArray(id) ==
    /\ ~has_bits
    /\ \/ /\ ~ids_is_used(id)
          /\ UNCHANGED <<m_ids, m_ids_used>>
       \/ \E i \in 0..(m_ids_used - 1) :
             /\ m_ids[i] = id
             /\ \A j \in 0..(i - 1) : m_ids[j] # id
             /\ m_ids' = ShiftDown(i)
             /\ m_ids_used' = m_ids_used - 1
    /\ UNCHANGED <<has_bits, m_bits, m_bits_used>>

erase(id) == EraseFromBits(id) \/ EraseFromArray(id)

-----------------------------------------------------------------------------
Init ==
    /\ m_ids = [i \in 0..(SMALL_MAX - 1) |-> 0]
    /\ m_ids_used = 0
    /\ has_bits = FALSE
    /\ m_bits = {}
    /\ m_bits_used = 0

Next == \E id \in Ids : insert(id) \/ erase(id)

Spec == Init /\ [][Next]_vars

-----------------------------------------------------------------------------
(* Every field of UsedIds has its type; the array index m_ids_used never     *)
(* runs past the array that m_ids.at() would throw for.                      *)
TypeOK ==
    /\ m_ids \in [0..(SMALL_MAX - 1) -> Ids \cup {0}]
    /\ m_ids_used \in 0..SMALL_MAX
    /\ has_bits \in BOOLEAN
    /\ m_bits \subseteq {Cell(id) : id \in Ids}
    /\ m_bits_used \in Nat

\* The array holds each id at most once, so that freeing one cell frees the id.
ArrayHasNoDuplicates ==
    \A i, j \in 0..(m_ids_used - 1) : m_ids[i] = m_ids[j] => i = j

ArrayHoldsIds == \A i \in 0..(m_ids_used - 1) : m_ids[i] \in Ids

(* The running count m_bits_used is the number of 1-bits.  The code drops    *)
(* the whole vector when the count says 0 (usedids.cpp:117), so a count that *)
(* is too low would free ids that are still in flight.                       *)
BitCountExact ==
    /\ IsFiniteSet(m_bits)
    /\ m_bits_used = Cardinality(m_bits)

\* Only one of the two representations holds ids, and an allocated vector is never empty.
OneRepresentation ==
    /\ has_bits => m_ids_used = 0 /\ m_bits # {}
    /\ ~has_bits => m_bits = {}

\* The invariant that the refinement needs.
Inv ==
    /\ TypeOK
    /\ ArrayHasNoDuplicates
    /\ ArrayHoldsIds
    /\ BitCountExact
    /\ OneRepresentation

\* What contains() reports.
used == {id \in Ids : contains(id)}

CallIsExact ==
    \A id \in Ids : /\ insert(id) => used' = used \cup {id}
                    /\ erase(id) => used' = used \ {id}

(* Each insert adds its id and nothing else, each erase removes its id and   *)
(* nothing else, also when the call switches from the array to the bits or   *)
(* back (usedids.cpp insert, erase).                                         *)
CallsAreExact == [][CallIsExact]_vars

Abstract == INSTANCE IdSet

(* UsedIds implements a set, and each call changes its own id and no other     *)
(* (usedids.cpp insert, erase, contains).                                    *)
ImplementsSet == Abstract!Spec /\ CallsAreExact
=============================================================================
