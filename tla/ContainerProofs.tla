--------------------------- MODULE ContainerProofs ---------------------------
(* UsedIds implements a set of ids, for every set of ids and every array      *)
(* size, and CirBuf a queue of bytes, for every initial size and limit.       *)
EXTENDS UsedIds, CirBuf, FiniteSetTheorems, FunctionTheorems, SequenceTheorems, TLAPS

(* Two ids share a bit only if they are equal: id / 64 and id % 64           *)
(* (usedids.cpp bits_is_used) lose nothing.                                  *)
LEMMA DivModInjective ==
    ASSUME NEW a \in Int, NEW b \in Int, a \div 64 = b \div 64, a % 64 = b % 64
    PROVE  a = b
  BY SMT

LEMMA CellInjective ==
    ASSUME NEW a \in Ids, NEW b \in Ids, Cell(a) = Cell(b)
    PROVE  a = b
<1>1. a \in Int /\ b \in Int
  BY IdsAssumption
<1>2. a \div 64 = b \div 64 /\ a % 64 = b % 64
  BY DEF Cell
<1> QED
  BY <1>1, <1>2, DivModInjective

(* The bits copied from the array (usedids.cpp insert, the switch) are       *)
(* finitely many cells of ids.                                               *)
LEMMA BitsOfArrayFacts ==
    ASSUME Inv
    PROVE  /\ IsFiniteSet(BitsOfArray)
           /\ BitsOfArray \subseteq {Cell(id) : id \in Ids}
           /\ Cardinality(BitsOfArray) \in Nat
<1> DEFINE f == [i \in 0..(m_ids_used - 1) |-> Cell(m_ids[i])]
<1>1. IsFiniteSet(0..(m_ids_used - 1))
  BY FS_Interval DEF Inv, TypeOK
<1>2. f \in Surjection(0..(m_ids_used - 1), BitsOfArray)
  BY DEF BitsOfArray, Surjection
<1>3. IsFiniteSet(BitsOfArray)
  BY <1>1, <1>2, FS_Surjection
<1>4. BitsOfArray \subseteq {Cell(id) : id \in Ids}
  BY DEF BitsOfArray, Inv, ArrayHoldsIds
<1> QED
  BY <1>3, <1>4, FS_CardinalityType

(* bits_mark_used keeps the count equal to the number of bits.               *)
LEMMA MarkUsedCounts ==
    ASSUME NEW id \in Ids, NEW bits, IsFiniteSet(bits)
    PROVE  LET count == IF Cell(id) \in bits THEN Cardinality(bits)
                        ELSE Cardinality(bits) + 1
           IN  /\ IsFiniteSet(bits \cup {Cell(id)})
               /\ count = Cardinality(bits \cup {Cell(id)})
  BY FS_AddElement

-----------------------------------------------------------------------------
(* The representation is sound: the array has no duplicates, the bit count   *)
(* is exact, and only one representation is in use (usedids.cpp).            *)
LEMMA InitInv == Init => Inv
<1> SUFFICES ASSUME Init PROVE Inv
  OBVIOUS
<1>1. TypeOK
  <2>1. m_ids \in [0..(SMALL_MAX - 1) -> Ids \cup {0}]
    BY DEF Init
  <2>2. m_ids_used \in 0..SMALL_MAX /\ m_bits_used \in Nat
    BY SmallMaxAssumption DEF Init
  <2> QED
    BY <2>1, <2>2 DEF Init, TypeOK
<1>2. BitCountExact
  BY FS_EmptySet DEF Init, BitCountExact
<1> QED
  BY <1>1, <1>2 DEF Init, Inv, ArrayHasNoDuplicates, ArrayHoldsIds, OneRepresentation

LEMMA InsertIntoBitsInv ==
    ASSUME Inv, NEW id \in Ids, InsertIntoBits(id)
    PROVE  Inv'
<1>1. BitCountExact'
  BY MarkUsedCounts DEF Inv, BitCountExact, InsertIntoBits, bits_mark_used
<1>2. TypeOK'
  BY DEF Inv, TypeOK, InsertIntoBits, bits_mark_used
<1> QED
  BY <1>1, <1>2 DEF Inv, TypeOK, ArrayHasNoDuplicates, ArrayHoldsIds,
     OneRepresentation, InsertIntoBits, bits_mark_used

LEMMA InsertAndSwitchInv ==
    ASSUME Inv, NEW id \in Ids, InsertAndSwitch(id)
    PROVE  Inv'
<1>1. m_bits_used = 0
  BY FS_EmptySet DEF Inv, BitCountExact, OneRepresentation, InsertAndSwitch
<1>2. m_bits_used + Cardinality(BitsOfArray) = Cardinality(BitsOfArray)
  BY <1>1, BitsOfArrayFacts
<1>3. BitCountExact'
  BY <1>2, BitsOfArrayFacts, MarkUsedCounts
     DEF BitCountExact, InsertAndSwitch, bits_mark_used
<1>4. TypeOK'
  <2>1. m_bits' \subseteq {Cell(i) : i \in Ids}
    BY BitsOfArrayFacts DEF InsertAndSwitch, bits_mark_used
  <2>2. m_bits_used' \in Nat
    BY <1>2, BitsOfArrayFacts DEF InsertAndSwitch, bits_mark_used
  <2>3. m_ids_used' \in 0..SMALL_MAX
    BY SmallMaxAssumption DEF InsertAndSwitch
  <2> QED
    BY <2>1, <2>2, <2>3 DEF Inv, TypeOK, InsertAndSwitch
<1>5. ArrayHasNoDuplicates' /\ ArrayHoldsIds'
  BY DEF ArrayHasNoDuplicates, ArrayHoldsIds, InsertAndSwitch
<1>6. OneRepresentation'
  BY DEF OneRepresentation, InsertAndSwitch, bits_mark_used
<1> QED
  BY <1>3, <1>4, <1>5, <1>6 DEF Inv

LEMMA InsertIntoArrayInv ==
    ASSUME Inv, NEW id \in Ids, InsertIntoArray(id)
    PROVE  Inv'
<1> USE SmallMaxAssumption DEF InsertIntoArray, ids_is_used
<1>1. TypeOK'
  BY DEF Inv, TypeOK
<1>2. ArrayHasNoDuplicates' /\ ArrayHoldsIds'
  BY DEF Inv, TypeOK, ArrayHasNoDuplicates, ArrayHoldsIds
<1>3. BitCountExact' /\ OneRepresentation'
  BY DEF Inv, BitCountExact, OneRepresentation
<1> QED
  BY <1>1, <1>2, <1>3 DEF Inv

LEMMA EraseFromBitsInv ==
    ASSUME Inv, NEW id \in Ids, EraseFromBits(id)
    PROVE  /\ Inv'
           /\ m_bits' = m_bits \ {Cell(id)}
<1> DEFINE left == m_bits \ {Cell(id)}
           count == IF bits_is_used(id) THEN m_bits_used - 1 ELSE m_bits_used
<1>1. IsFiniteSet(left) /\ count = Cardinality(left) /\ count \in Nat
  <2>1. IsFiniteSet(m_bits) /\ m_bits_used = Cardinality(m_bits) /\ m_bits_used \in Nat
    BY DEF Inv, BitCountExact, TypeOK
  <2>2. IsFiniteSet(left) /\ Cardinality(left) =
            IF Cell(id) \in m_bits THEN Cardinality(m_bits) - 1 ELSE Cardinality(m_bits)
    BY <2>1, FS_RemoveElement
  <2> QED
    BY <2>1, <2>2, FS_CardinalityType DEF bits_is_used
<1>2. count = 0 <=> left = {}
  BY <1>1, FS_EmptySet
<1>3. m_bits' = left /\ m_bits_used' = count
  BY <1>2 DEF EraseFromBits
<1>4. BitCountExact'
  BY <1>1, <1>3 DEF BitCountExact
<1>5. TypeOK'
  BY <1>1, <1>3, SmallMaxAssumption DEF Inv, TypeOK, EraseFromBits
<1>6. ArrayHasNoDuplicates' /\ ArrayHoldsIds'
  BY DEF Inv, ArrayHasNoDuplicates, ArrayHoldsIds, OneRepresentation, EraseFromBits
<1>7. OneRepresentation'
  BY <1>2, <1>3 DEF Inv, OneRepresentation, EraseFromBits
<1> QED
  BY <1>3, <1>4, <1>5, <1>6, <1>7 DEF Inv

LEMMA EraseFromArrayInv ==
    ASSUME Inv, NEW id \in Ids, EraseFromArray(id)
    PROVE  Inv'
<1>1. CASE UNCHANGED <<m_ids, m_ids_used>>
  BY <1>1 DEF Inv, TypeOK, ArrayHasNoDuplicates, ArrayHoldsIds, BitCountExact,
     OneRepresentation, EraseFromArray
<1>2. ASSUME NEW i \in 0..(m_ids_used - 1), m_ids' = ShiftDown(i),
             m_ids_used' = m_ids_used - 1
      PROVE  Inv'
  <2>1. TypeOK'
    BY <1>2, SmallMaxAssumption DEF Inv, TypeOK, ShiftDown, EraseFromArray
  <2>2. ArrayHasNoDuplicates'
    BY <1>2, SmallMaxAssumption DEF Inv, TypeOK, ArrayHasNoDuplicates, ShiftDown
  <2>3. ArrayHoldsIds'
    BY <1>2, SmallMaxAssumption DEF Inv, TypeOK, ArrayHoldsIds, ShiftDown
  <2>4. BitCountExact' /\ OneRepresentation'
    BY DEF Inv, BitCountExact, OneRepresentation, EraseFromArray
  <2> QED
    BY <2>1, <2>2, <2>3, <2>4 DEF Inv
<1> QED
  BY <1>1, <1>2 DEF EraseFromArray

(* The array has no duplicates, the bits are counted, and ids are never in both *)
(* representations at once (usedids.cpp insert, erase).                        *)
THEOREM RepresentationSound == Spec => []Inv
<1>1. Inv /\ [Next]_vars => Inv'
  <2> SUFFICES ASSUME Inv, [Next]_vars PROVE Inv'
    OBVIOUS
  <2>1. CASE UNCHANGED vars
    BY <2>1 DEF vars, Inv, TypeOK, ArrayHasNoDuplicates, ArrayHoldsIds,
       BitCountExact, OneRepresentation
  <2>2. CASE Next
    BY <2>2, InsertIntoBitsInv, InsertIntoArrayInv, InsertAndSwitchInv,
       EraseFromBitsInv, EraseFromArrayInv DEF Next, insert, erase
  <2> QED
    BY <2>1, <2>2
<1> QED
  BY InitInv, <1>1, PTL DEF Spec

-----------------------------------------------------------------------------
(* Every insert adds exactly the id to what contains() reports.              *)
LEMMA InsertRefines ==
    ASSUME Inv, NEW id \in Ids, insert(id)
    PROVE  used' = used \cup {id}
<1>1. CASE InsertIntoBits(id)
  BY <1>1, CellInjective DEF InsertIntoBits, bits_mark_used, used, contains, bits_is_used
<1>2. CASE InsertAndSwitch(id)
  <2>1. \A x \in Ids : Cell(x) \in BitsOfArray <=> ids_is_used(x)
    BY CellInjective DEF Inv, ArrayHoldsIds, BitsOfArray, ids_is_used
  <2> QED
    BY <1>2, <2>1, CellInjective DEF InsertAndSwitch, bits_mark_used, used, contains,
       bits_is_used
<1>3. CASE InsertIntoArray(id)
  <2>1. \A x \in Ids : ids_is_used(x)' <=> ids_is_used(x) \/ x = id
    BY <1>3, SmallMaxAssumption DEF Inv, TypeOK, InsertIntoArray, ids_is_used
  <2> QED
    BY <1>3, <2>1 DEF InsertIntoArray, used, contains
<1> QED
  BY <1>1, <1>2, <1>3 DEF insert

(* Every erase removes exactly the id from what contains() reports.          *)
LEMMA EraseRefines ==
    ASSUME Inv, NEW id \in Ids, erase(id)
    PROVE  used' = used \ {id}
<1>1. CASE EraseFromBits(id)
  <2>1. m_bits' = m_bits \ {Cell(id)} /\ Inv' /\ has_bits
    BY <1>1, EraseFromBitsInv DEF EraseFromBits
  <2>2. CASE has_bits'
    BY <2>1, <2>2, CellInjective DEF used, contains, bits_is_used
  <2>3. CASE ~has_bits'
    <3>1. m_bits' = {} /\ m_ids_used' = 0
      BY <1>1, <2>1, <2>3 DEF Inv, TypeOK, OneRepresentation, EraseFromBits
    <3>2. used' = {}
      BY <2>3, <3>1 DEF used, contains, ids_is_used
    <3>3. used \subseteq {id}
      BY <2>1, <3>1, CellInjective DEF used, contains, bits_is_used
    <3> QED
      BY <3>2, <3>3
  <2> QED
    BY <2>2, <2>3
<1>2. CASE EraseFromArray(id)
  <2>1. \A x \in Ids : ids_is_used(x)' <=> ids_is_used(x) /\ x # id
    <3>1. CASE ~ids_is_used(id) /\ UNCHANGED <<m_ids, m_ids_used>>
      BY <3>1 DEF ids_is_used
    <3>2. ASSUME NEW i \in 0..(m_ids_used - 1), m_ids[i] = id,
                 m_ids' = ShiftDown(i), m_ids_used' = m_ids_used - 1
          PROVE  \A x \in Ids : ids_is_used(x)' <=> ids_is_used(x) /\ x # id
      <4> SUFFICES ASSUME NEW x \in Ids
                   PROVE  ids_is_used(x)' <=> ids_is_used(x) /\ x # id
        OBVIOUS
      <4>1. ASSUME ids_is_used(x)' PROVE ids_is_used(x) /\ x # id
        BY <3>2, <4>1, SmallMaxAssumption
           DEF Inv, TypeOK, ArrayHasNoDuplicates, ShiftDown, ids_is_used
      <4>2. ASSUME ids_is_used(x), x # id PROVE ids_is_used(x)'
        <5>1. PICK j \in 0..(m_ids_used - 1) : m_ids[j] = x
          BY <4>2 DEF ids_is_used
        <5>2. CASE j < i
          <6>1. j \in 0..(m_ids_used' - 1) /\ m_ids'[j] = x
            BY <3>2, <5>1, <5>2, SmallMaxAssumption DEF Inv, TypeOK, ShiftDown
          <6> QED
            BY <6>1 DEF ids_is_used
        <5>3. CASE j > i
          <6>1. (j - 1) \in 0..(m_ids_used' - 1) /\ m_ids'[j - 1] = x
            BY <3>2, <5>1, <5>3, SmallMaxAssumption DEF Inv, TypeOK, ShiftDown
          <6> QED
            BY <6>1 DEF ids_is_used
        <5>4. j # i
          BY <3>2, <4>2, <5>1
        <5> QED
          BY <5>2, <5>3, <5>4 DEF Inv, TypeOK
      <4> QED
        BY <4>1, <4>2
    <3> QED
      BY <1>2, <3>1, <3>2 DEF EraseFromArray
  <2> QED
    BY <1>2, <2>1 DEF EraseFromArray, used, contains
<1> QED
  BY <1>1, <1>2 DEF erase

(* Each call does to the set of ids what a set would do, for the id it was   *)
(* called with (usedids.cpp insert, erase).                                  *)
THEOREM EveryCallIsExact == Spec => CallsAreExact
<1>1. Inv /\ [Next]_vars => [CallIsExact]_vars
  BY InsertRefines, EraseRefines DEF CallIsExact
<1> QED
  BY RepresentationSound, <1>1, PTL DEF Spec, CallsAreExact

(* Whatever mix of array and bits it holds, UsedIds behaves as a set of ids  *)
(* towards Session (usedids.cpp insert, erase, contains).                    *)
THEOREM UsedIdsImplementsSet == Spec => ImplementsSet
<1>1. Init => Abstract!Init
  BY DEF Init, Abstract!Init, used, contains, ids_is_used
<1>2. Inv /\ [Next]_vars => [Abstract!Next]_used
  <2> SUFFICES ASSUME Inv, [Next]_vars PROVE [Abstract!Next]_used
    OBVIOUS
  <2>1. CASE UNCHANGED vars
    BY <2>1 DEF vars, used, contains, bits_is_used, ids_is_used
  <2>2. CASE Next
    BY <2>2, InsertRefines, EraseRefines
       DEF Next, Abstract!Next, Abstract!Insert, Abstract!Erase
  <2> QED
    BY <2>1, <2>2
<1> QED
  BY RepresentationSound, EveryCallIsExact, <1>1, <1>2, PTL
     DEF Spec, ImplementsSet, Abstract!Spec

-----------------------------------------------------------------------------
(* The circular buffer: positions without remainders                         *)

\* x % s for x within one size of its range; the bytes held from t to h; position
\* i holds one; it is one of the m cells from h on; the position of the k-th byte.
Fold(x, s) == IF x < 0 THEN x + s ELSE IF x < s THEN x ELSE x - s
Used(h, t, s) == IF h >= t THEN h - t ELSE (h - t) + s
Holds(i, h, t, s) == IF h >= t THEN t <= i /\ i < h ELSE i >= t \/ i < h
Behind(i, h, s, m) == Fold(i - h, s) < m
At(k, t, s) == IF t + k - 1 < s THEN t + k - 1 ELSE (t + k - 1) - s

\* The masks of the code (cirbuf.cpp:79-106) fold a position back once at most.
LEMMA ModFolds ==
    ASSUME NEW s \in Nat \ {0}, NEW x \in Int, -s <= x, x < s + s
    PROVE  x % s = Fold(x, s)
<1>1. CASE x < 0
    <2>1. (x + s) % s = x + s
        BY <1>1
    <2>2. x % s = (x + s) % s
        BY <1>1
    <2> QED
        BY <1>1, <2>1, <2>2 DEF Fold
<1>2. CASE x >= 0 /\ x < s
    BY <1>2 DEF Fold
<1>3. CASE x >= s
    <2>1. (x - s) % s = x - s
        BY <1>3
    <2>2. x % s = (x - s) % s
        BY <1>3
    <2> QED
        BY <1>3, <2>1, <2>2 DEF Fold
<1> QED
    BY <1>1, <1>2, <1>3

Positions(h, t, s) == s \in Nat \ {0} /\ h \in 0..(s - 1) /\ t \in 0..(s - 1)

\* All the positions and counts the code computes are folds.
LEMMA PositionsFold ==
    ASSUME NEW h, NEW t, NEW s, Positions(h, t, s)
    PROVE  /\ (h - t) % s = Used(h, t, s) /\ Used(h, t, s) \in 0..(s - 1)
           /\ (t - (h + 1)) % s = (s - 1) - Used(h, t, s)
           /\ \A i \in 0..(s - 1) : ((i - t) % s) < ((h - t) % s) <=> Holds(i, h, t, s)
           /\ \A k \in 1..Used(h, t, s) : /\ (t + k - 1) % s = At(k, t, s)
                                         /\ At(k, t, s) \in 0..(s - 1) /\ Holds(At(k, t, s), h, t, s)
           /\ \A n \in 0..(s - 1) : /\ (h + n) % s = Fold(h + n, s) /\ (t + n) % s = Fold(t + n, s)
                                   /\ Fold(h + n, s) \in 0..(s - 1) /\ Fold(t + n, s) \in 0..(s - 1)
<1> USE DEF Positions
<1>1. (h - t) % s = Used(h, t, s) /\ Used(h, t, s) \in 0..(s - 1)
    <2>1. h - t \in Int /\ -s <= h - t /\ h - t < s + s
        OBVIOUS
    <2>2. (h - t) % s = Fold(h - t, s)
        BY <2>1, ModFolds
    <2> QED
        BY <2>2 DEF Used, Fold
<1>2. (t - (h + 1)) % s = (s - 1) - Used(h, t, s)
    <2>1. t - (h + 1) \in Int /\ -s <= t - (h + 1) /\ t - (h + 1) < s + s
        OBVIOUS
    <2>2. (t - (h + 1)) % s = Fold(t - (h + 1), s)
        BY <2>1, ModFolds
    <2> QED
        BY <2>2 DEF Used, Fold
<1>3. ASSUME NEW i \in 0..(s - 1)
      PROVE  ((i - t) % s) < ((h - t) % s) <=> Holds(i, h, t, s)
    <2>1. (i - t) % s = Fold(i - t, s)
        BY ModFolds
    <2> QED
        BY <1>1, <2>1 DEF Used, Fold, Holds
<1>4. ASSUME NEW k \in 1..Used(h, t, s)
      PROVE  /\ (t + k - 1) % s = At(k, t, s)
             /\ At(k, t, s) \in 0..(s - 1) /\ Holds(At(k, t, s), h, t, s)
    <2>1. k \in 1..(s - 1)
        BY <1>1
    <2>2. t + k - 1 \in Int /\ -s <= t + k - 1 /\ t + k - 1 < s + s
        BY <2>1
    <2>3. (t + k - 1) % s = Fold(t + k - 1, s)
        BY <2>2, ModFolds
    <2>4. At(k, t, s) \in 0..(s - 1) /\ At(k, t, s) = Fold(t + k - 1, s)
        BY <2>1 DEF Fold, At
    <2>5. Holds(At(k, t, s), h, t, s)
        BY <1>1, <2>1 DEF Used, Holds, At
    <2> QED
        BY <2>3, <2>4, <2>5
<1>5. ASSUME NEW n \in 0..(s - 1)
      PROVE  /\ (h + n) % s = Fold(h + n, s) /\ (t + n) % s = Fold(t + n, s)
             /\ Fold(h + n, s) \in 0..(s - 1) /\ Fold(t + n, s) \in 0..(s - 1)
    <2>1. (h + n) % s = Fold(h + n, s) /\ (t + n) % s = Fold(t + n, s)
        BY ModFolds
    <2> QED
        BY <2>1 DEF Fold
<1> QED
    BY <1>1, <1>2, <1>3, <1>4, <1>5

-----------------------------------------------------------------------------
(* The circular buffer: what it holds, as a sequence                         *)

Shape(b, h, t, s) ==
    /\ Positions(h, t, s) /\ s <= LimitSize
    /\ b \in [Cells -> CirBytes \cup {Junk}]
    /\ \A i \in 0..(s - 1) : Holds(i, h, t, s) => b[i] \in CirBytes

Bytes(b, h, t, s) == [k \in 1..Used(h, t, s) |-> b[At(k, t, s)]]

\* The inductive invariant: no byte that is held is junk.
CirIInv == Shape(buf, head, tail, size) /\ primedForSizeReset \in BOOLEAN

\* What it holds is a sequence of as many bytes as are used.
LEMMA BytesAreASeq ==
    ASSUME NEW b, NEW h, NEW t, NEW s, Shape(b, h, t, s)
    PROVE  /\ Bytes(b, h, t, s) \in Seq(CirBytes)
           /\ Len(Bytes(b, h, t, s)) = Used(h, t, s)
           /\ \A k \in 1..Used(h, t, s) : Bytes(b, h, t, s)[k] = b[At(k, t, s)]
<1>1. Used(h, t, s) \in Nat
    BY PositionsFold DEF Shape, Positions
<1>2. \A k \in 1..Used(h, t, s) : b[At(k, t, s)] \in CirBytes
    BY PositionsFold DEF Shape
<1>3. Bytes(b, h, t, s) \in [1..Used(h, t, s) -> CirBytes]
    BY <1>2 DEF Bytes
<1> QED
    BY <1>1, <1>3, IsASeq DEF Bytes

\* Bytes that are put behind the ones that are there, wherever these are now.
LEMMA MorePut ==
    ASSUME NEW b, NEW h, NEW t, NEW s, NEW b2, NEW h2, NEW t2, NEW s2,
           Shape(b, h, t, s), Shape(b2, h2, t2, s2), Used(h, t, s) <= Used(h2, t2, s2),
           \A k \in 1..Used(h, t, s) : b2[At(k, t2, s2)] = b[At(k, t, s)]
    PROVE  /\ Bytes(b2, h2, t2, s2) \in Seq(CirBytes)
           /\ Len(Bytes(b, h, t, s)) <= Len(Bytes(b2, h2, t2, s2))
           /\ SubSeq(Bytes(b2, h2, t2, s2), 1, Len(Bytes(b, h, t, s))) = Bytes(b, h, t, s)
<1> DEFINE x == Bytes(b, h, t, s)
           y == Bytes(b2, h2, t2, s2)
           u == Used(h, t, s)
<1>1. /\ x \in Seq(CirBytes) /\ Len(x) = u /\ \A k \in 1..u : x[k] = b[At(k, t, s)]
    BY BytesAreASeq
<1>2. /\ y \in Seq(CirBytes) /\ Len(y) = Used(h2, t2, s2)
      /\ \A k \in 1..Used(h2, t2, s2) : y[k] = b2[At(k, t2, s2)]
    BY BytesAreASeq
<1>3. u \in Nat /\ Used(h2, t2, s2) \in Nat /\ u <= Used(h2, t2, s2)
    BY PositionsFold DEF Shape, Positions
<1> HIDE DEF x, y, u
<1>4. \A k \in 1..u : y[k] = x[k]
    BY <1>1, <1>2, <1>3 DEF u
<1>5. /\ SubSeq(y, 1, u) \in Seq(CirBytes) /\ Len(SubSeq(y, 1, u)) = u
      /\ \A k \in 1..u : SubSeq(y, 1, u)[k] = y[k]
    BY <1>2, <1>3
<1>6. SubSeq(y, 1, u) = x
    BY <1>1, <1>4, <1>5, SeqEqual
<1> QED
    BY <1>1, <1>2, <1>3, <1>6 DEF x, y, u

\* The same bytes, wherever they are now.
LEMMA SameBytes ==
    ASSUME NEW b, NEW h, NEW t, NEW s, NEW b2, NEW h2, NEW t2, NEW s2,
           Used(h, t, s) = Used(h2, t2, s2),
           \A k \in 1..Used(h, t, s) : b2[At(k, t2, s2)] = b[At(k, t, s)]
    PROVE  Bytes(b2, h2, t2, s2) = Bytes(b, h, t, s)
BY DEF Bytes

\* The first n bytes are taken.
LEMMA FirstTaken ==
    ASSUME NEW b, NEW h, NEW t, NEW s, NEW b2, NEW t2, NEW n \in Nat,
           Shape(b, h, t, s), Shape(b2, h, t2, s), Used(h, t2, s) = Used(h, t, s) - n,
           \A k \in 1..Used(h, t2, s) : b2[At(k, t2, s)] = b[At(k + n, t, s)]
    PROVE  Bytes(b2, h, t2, s) = SubSeq(Bytes(b, h, t, s), n + 1, Len(Bytes(b, h, t, s)))
<1> DEFINE x == Bytes(b, h, t, s)
           y == Bytes(b2, h, t2, s)
           u == Used(h, t, s)
<1>1. /\ x \in Seq(CirBytes) /\ Len(x) = u /\ \A k \in 1..u : x[k] = b[At(k, t, s)]
    BY BytesAreASeq
<1>2. /\ y \in Seq(CirBytes) /\ Len(y) = u - n
      /\ \A k \in 1..(u - n) : y[k] = b2[At(k, t2, s)]
    BY BytesAreASeq
<1>3. u \in Nat /\ u - n \in Nat
    BY PositionsFold DEF Shape, Positions
<1>4. \A k \in 1..(u - n) : b2[At(k, t2, s)] = b[At(k + n, t, s)]
    OBVIOUS
<1>8. Len(Bytes(b, h, t, s)) = u
    BY BytesAreASeq
<1> HIDE DEF x, y, u
<1>5. ASSUME NEW k \in 1..(u - n)
      PROVE  k + n \in 1..u /\ y[k] = x[k + n]
    <2>1. k + n \in 1..u
        BY <1>3
    <2>2. x[k + n] = b[At(k + n, t, s)]
        BY <1>1, <2>1
    <2> QED
        BY <1>2, <1>4, <2>1, <2>2
<1>6. CASE u - n = 0
    <2>1. y = <<>>
        BY <1>2, <1>6, EmptySeq
    <2>2. SubSeq(x, n + 1, u) = <<>>
        BY <1>1, <1>3, <1>6
    <2> QED
        BY <2>1, <2>2, <1>1 DEF x, y, u
<1>7. CASE u - n > 0
    <2>1. /\ SubSeq(x, n + 1, u) \in Seq(CirBytes) /\ Len(SubSeq(x, n + 1, u)) = u - n
          /\ \A k \in 1..(u - n) : SubSeq(x, n + 1, u)[k] = x[k + n]
        BY <1>1, <1>3, <1>7
    <2>2. SubSeq(x, n + 1, u) = y
        BY <1>2, <1>5, <2>1, SeqEqual
    <2> QED
        BY <2>2, <1>1 DEF x, y, u
<1> QED
    BY <1>3, <1>6, <1>7

\* Contents, over any buffer and positions.
LEMMA ContentsAreBytes ==
    ASSUME NEW b, NEW h, NEW t, NEW s, Shape(b, h, t, s)
    PROVE  [k \in 1..((h - t) % s) |-> b[(t + k - 1) % s]] = Bytes(b, h, t, s)
<1>1. /\ (h - t) % s = Used(h, t, s)
      /\ \A k \in 1..Used(h, t, s) : (t + k - 1) % s = At(k, t, s)
    BY PositionsFold DEF Shape
<1> QED
    BY <1>1 DEF Bytes

\* Cells that no longer hold data are junk.
LEMMA TidyKeeps ==
    ASSUME NEW b \in [Cells -> CirBytes \cup {Junk}], NEW h, NEW t, NEW s,
           Positions(h, t, s), s <= LimitSize,
           \A i \in 0..(s - 1) : Holds(i, h, t, s) => b[i] \in CirBytes
    PROVE  /\ Shape(Tidy(b, s, h, t), h, t, s)
           /\ \A i \in 0..(s - 1) : Holds(i, h, t, s) => Tidy(b, s, h, t)[i] = b[i]
<1>1. \A i \in 0..(s - 1) : ((i - t) % s) < ((h - t) % s) <=> Holds(i, h, t, s)
    BY PositionsFold
<1>2. \A i \in 0..(s - 1) : i \in Cells
    BY LimitSizeAssumption DEF Cells, Positions
<1>3. \A i \in 0..(s - 1) : Holds(i, h, t, s) => Tidy(b, s, h, t)[i] = b[i]
    BY <1>1, <1>2 DEF Tidy, Positions
<1>4. Tidy(b, s, h, t) \in [Cells -> CirBytes \cup {Junk}]
    BY DEF Tidy
<1> QED
    BY <1>3, <1>4 DEF Shape

-----------------------------------------------------------------------------
(* The circular buffer: its operations                                       *)

Free(h, t, s) == (s - 1) - Used(h, t, s)
ReadPiece(h, t, s) == IF h >= t THEN h - t ELSE s - t
WritePiece(h, t, s) ==
    IF t > h THEN (t - h) - 1 ELSE IF t = 0 THEN (s - 1) - h ELSE s - h

\* What the code computes of the positions, without remainders.
LEMMA PiecesFold ==
    ASSUME Shape(buf, head, tail, size)
    PROVE  /\ usedBytes = Used(head, tail, size) /\ freeSpace = Free(head, tail, size)
           /\ maxReadSize = ReadPiece(head, tail, size)
           /\ maxWriteSize = WritePiece(head, tail, size)
<1>1. Positions(head, tail, size)
    BY DEF Shape
<1>2. usedBytes = Used(head, tail, size) /\ freeSpace = Free(head, tail, size)
    BY <1>1, PositionsFold DEF usedBytes, freeSpace, Free
<1>3. maxReadSize = ReadPiece(head, tail, size)
    <2>1. /\ head + (size - tail) \in Int /\ -size <= head + (size - tail)
          /\ head + (size - tail) < size + size /\ size \in Nat \ {0}
        BY <1>1 DEF Positions
    <2>2. (head + (size - tail)) % size = Fold(head + (size - tail), size)
        BY <2>1, ModFolds
    <2> QED
        BY <1>1, <2>2 DEF maxReadSize, ReadPiece, Fold, Positions
<1>4. maxWriteSize = WritePiece(head, tail, size)
    <2>1. /\ ((size - 1) - head) + tail \in Int /\ -size <= ((size - 1) - head) + tail
          /\ ((size - 1) - head) + tail < size + size /\ size \in Nat \ {0}
        BY <1>1 DEF Positions
    <2>2. (((size - 1) - head) + tail) % size = Fold(((size - 1) - head) + tail, size)
        BY <2>1, ModFolds
    <2> QED
        BY <1>1, <2>2 DEF maxWriteSize, WritePiece, Fold, Positions
<1> QED
    BY <1>2, <1>3, <1>4

\* The pieces for reading and writing are the right ones (cirbuf.cpp:79-106).
LEMMA PiecesFit ==
    ASSUME Shape(buf, head, tail, size)
    PROVE  PiecesAreRight
<1>1. Positions(head, tail, size)
    BY DEF Shape
<1>2. /\ usedBytes = Used(head, tail, size) /\ freeSpace = Free(head, tail, size)
      /\ maxReadSize = ReadPiece(head, tail, size)
      /\ maxWriteSize = WritePiece(head, tail, size)
    BY PiecesFold
<1> QED
    BY <1>1, <1>2 DEF PiecesAreRight, Used, Free, ReadPiece, WritePiece, Positions

\* The cells behind the head that m more bytes take.
LEMMA CellsBehindHead ==
    ASSUME NEW h, NEW t, NEW s, Positions(h, t, s),
           NEW m \in Nat, m <= Free(h, t, s)
    PROVE  /\ Positions(Fold(h + m, s), t, s)
           /\ Used(Fold(h + m, s), t, s) = Used(h, t, s) + m
           /\ \A i \in 0..(s - 1) : Fold(i - h, s) \in 0..(s - 1)
           /\ \A i \in 0..(s - 1) : Holds(i, h, t, s) => ~Behind(i, h, s, m)
           /\ \A i \in 0..(s - 1) :
                  Holds(i, Fold(h + m, s), t, s) => Holds(i, h, t, s) \/ Behind(i, h, s, m)
BY DEF Positions, Free, Used, Fold, Holds, Behind

\* m bytes w that are put behind the head leave the others where they are.
LEMMA PutKeeps ==
    ASSUME NEW b, NEW h, NEW t, NEW s, Shape(b, h, t, s),
           NEW m \in Nat, m <= Free(h, t, s), NEW w \in [1..m -> CirBytes],
           NEW b2 \in [Cells -> CirBytes \cup {Junk}],
           \A i \in 0..(s - 1) :
               b2[i] = IF Behind(i, h, s, m) THEN w[Fold(i - h, s) + 1] ELSE b[i]
    PROVE  /\ Shape(b2, Fold(h + m, s), t, s)
           /\ Bytes(b2, Fold(h + m, s), t, s) \in Seq(CirBytes)
           /\ Len(Bytes(b, h, t, s)) <= Len(Bytes(b2, Fold(h + m, s), t, s))
           /\ SubSeq(Bytes(b2, Fold(h + m, s), t, s), 1, Len(Bytes(b, h, t, s))) = Bytes(b, h, t, s)
<1> DEFINE h2 == Fold(h + m, s)
<1>1. Positions(h, t, s) /\ s <= LimitSize
    BY DEF Shape
<1>2. /\ Positions(h2, t, s) /\ Used(h2, t, s) = Used(h, t, s) + m
      /\ \A i \in 0..(s - 1) : Fold(i - h, s) \in 0..(s - 1)
      /\ \A i \in 0..(s - 1) : Holds(i, h, t, s) => ~Behind(i, h, s, m)
      /\ \A i \in 0..(s - 1) : Holds(i, h2, t, s) => Holds(i, h, t, s) \/ Behind(i, h, s, m)
    BY <1>1, CellsBehindHead
<1> HIDE DEF h2
<1>3. ASSUME NEW i \in 0..(s - 1), Holds(i, h2, t, s)
      PROVE  b2[i] \in CirBytes
    <2>1. CASE Behind(i, h, s, m)
        <3>1. Fold(i - h, s) + 1 \in 1..m
            <4>1. Fold(i - h, s) \in 0..(s - 1) /\ s \in Nat
                BY <1>1, <1>2 DEF Positions
            <4> QED
                BY <2>1, <4>1 DEF Behind
        <3> QED
            BY <2>1, <3>1
    <2>2. CASE ~Behind(i, h, s, m)
        <3>1. Holds(i, h, t, s)
            BY <1>2, <1>3, <2>2
        <3>2. b[i] \in CirBytes
            BY <3>1 DEF Shape
        <3> QED
            BY <2>2, <3>2
    <2> QED
        BY <2>1, <2>2
<1>4. Shape(b2, h2, t, s)
    BY <1>1, <1>2, <1>3 DEF Shape
<1>5. Used(h, t, s) \in Nat /\ Used(h, t, s) <= Used(h2, t, s)
    <2>1. Used(h, t, s) \in 0..(s - 1) /\ s \in Nat
        BY <1>1, PositionsFold DEF Positions
    <2> QED
        BY <1>2, <2>1
<1>6. \A k \in 1..Used(h, t, s) : b2[At(k, t, s)] = b[At(k, t, s)]
    <2> TAKE k \in 1..Used(h, t, s)
    <2>1. At(k, t, s) \in 0..(s - 1) /\ Holds(At(k, t, s), h, t, s)
        BY <1>1, PositionsFold
    <2>2. ~Behind(At(k, t, s), h, s, m)
        BY <1>2, <2>1
    <2> QED
        BY <2>1, <2>2
<1>7. /\ Bytes(b2, h2, t, s) \in Seq(CirBytes)
      /\ Len(Bytes(b, h, t, s)) <= Len(Bytes(b2, h2, t, s))
      /\ SubSeq(Bytes(b2, h2, t, s), 1, Len(Bytes(b, h, t, s))) = Bytes(b, h, t, s)
    BY <1>4, <1>5, <1>6, MorePut
<1> QED
    BY <1>4, <1>7 DEF h2

\* n bytes from the tail on are gone.
LEMMA CellsBehindTail ==
    ASSUME NEW h, NEW t, NEW s, Positions(h, t, s),
           NEW n \in Nat, n <= Used(h, t, s)
    PROVE  /\ Positions(h, Fold(t + n, s), s)
           /\ Used(h, Fold(t + n, s), s) = Used(h, t, s) - n
           /\ \A i \in 0..(s - 1) : Holds(i, h, Fold(t + n, s), s) => Holds(i, h, t, s)
           /\ \A k \in 1..(Used(h, t, s) - n) : At(k, Fold(t + n, s), s) = At(k + n, t, s)
BY DEF Positions, Used, Fold, Holds, At

-----------------------------------------------------------------------------
\* A step of the buffer, as the queue sees it.
Grown == /\ Bytes(buf', head', tail', size') \in Seq(CirBytes)
         /\ Len(Bytes(buf, head, tail, size)) <= Len(Bytes(buf', head', tail', size'))
         /\ SubSeq(Bytes(buf', head', tail', size'), 1, Len(Bytes(buf, head, tail, size)))
            = Bytes(buf, head, tail, size)
Shrunk == \E n \in 1..Len(Bytes(buf, head, tail, size)) :
              Bytes(buf', head', tail', size')
              = SubSeq(Bytes(buf, head, tail, size), n + 1, Len(Bytes(buf, head, tail, size)))
Moves == Bytes(buf', head', tail', size') = Bytes(buf, head, tail, size)

\* Reading a socket puts bytes behind the others.
LEMMA ReadFromSocketSound ==
    ASSUME CirIInv, NEW b \in Requests, ReadFromSocket(b)
    PROVE  CirIInv' /\ Grown
<1>0. Shape(buf, head, tail, size) /\ Positions(head, tail, size) /\ size <= LimitSize
      /\ buf \in [Cells -> CirBytes \cup {Junk}]
    BY DEF CirIInv, Shape
<1>1. PICK n \in 1..MaxRequest : b \in [1..n -> CirBytes]
    BY DEF Requests
<1>2. n \in Nat /\ Len(b) = n
    <2>1. n \in Nat
        OBVIOUS
    <2> QED
        BY <1>1, <2>1, LenProperties, IsASeq
<1>3. n <= WritePiece(head, tail, size)
    BY <1>0, <1>2, PiecesFold DEF ReadFromSocket
<1>4. n <= Free(head, tail, size) /\ head + n <= size
    BY <1>0, <1>2, <1>3 DEF WritePiece, Free, Used, Positions
<1>5. head' = Fold(head + n, size) /\ size' = size /\ tail' = tail
    <2>1. n \in 0..(size - 1)
        BY <1>0, <1>2, <1>4, PositionsFold DEF Free, Positions
    <2> QED
        BY <1>0, <1>2, <2>1, PositionsFold DEF ReadFromSocket
<1>6. /\ buf' \in [Cells -> {buf'[i] : i \in Cells}]
      /\ \A i \in Cells :
             buf'[i] = IF i \in head..((head + n) - 1) THEN b[(i - head) + 1] ELSE buf[i]
    <2>1. buf' = [i \in Cells |-> IF i \in head..(head + Len(b) - 1) THEN b[i - head + 1] ELSE buf[i]]
        BY DEF ReadFromSocket
    <2>2. \A i \in Cells :
             buf'[i] = IF i \in head..(head + Len(b) - 1) THEN b[i - head + 1] ELSE buf[i]
        BY <2>1
    <2>3. buf' \in [Cells -> {buf'[i] : i \in Cells}]
        BY <2>1
    <2>4. head..(head + Len(b) - 1) = head..((head + n) - 1)
        BY <1>0, <1>2 DEF Positions
    <2>5. ASSUME NEW i \in Cells
          PROVE  buf'[i] = IF i \in head..((head + n) - 1) THEN b[(i - head) + 1] ELSE buf[i]
        BY <2>2, <2>4
    <2> QED
        BY <2>3, <2>5
<1>7. buf' \in [Cells -> CirBytes \cup {Junk}]
    <2>1. \A i \in Cells : i \in head..((head + n) - 1) => (i - head) + 1 \in 1..n
        BY <1>0, <1>2 DEF Positions
    <2> QED
        BY <1>0, <1>1, <1>6, <2>1
<1>8. \A i \in 0..(size - 1) :
          buf'[i] = IF Behind(i, head, size, n) THEN b[Fold(i - head, size) + 1] ELSE buf[i]
    <2> TAKE i \in 0..(size - 1)
    <2>1. i \in Cells
        BY <1>0, LimitSizeAssumption DEF Cells, Positions
    <2>2. CASE i \in head..((head + n) - 1)
        <3>1. Behind(i, head, size, n) /\ Fold(i - head, size) = i - head
            BY <1>0, <1>2, <2>2 DEF Fold, Positions, Behind
        <3> QED
            BY <1>6, <2>1, <2>2, <3>1
    <2>3. CASE i \notin head..((head + n) - 1)
        <3>1. ~Behind(i, head, size, n)
            BY <1>0, <1>2, <1>4, <2>3 DEF Fold, Positions, Behind
        <3> QED
            BY <1>6, <2>1, <2>3, <3>1
    <2> QED
        BY <2>2, <2>3
<1>9. Shape(buf', head', tail', size') /\ Grown
    BY <1>0, <1>1, <1>2, <1>4, <1>5, <1>7, <1>8, PutKeeps DEF Grown
<1> QED
    BY <1>9 DEF CirIInv, ReadFromSocket

\* So does write(), in however many pieces.
LEMMA WriteBytesSound ==
    ASSUME CirIInv, NEW b \in Requests, WriteBytes(b)
    PROVE  CirIInv' /\ Grown
<1>0. Shape(buf, head, tail, size) /\ Positions(head, tail, size) /\ size <= LimitSize
      /\ buf \in [Cells -> CirBytes \cup {Junk}]
    BY DEF CirIInv, Shape
<1>1. PICK n \in 1..MaxRequest : b \in [1..n -> CirBytes]
    BY DEF Requests
<1>2. n \in Nat /\ Len(b) = n
    <2>1. n \in Nat
        OBVIOUS
    <2> QED
        BY <1>1, <2>1, LenProperties, IsASeq
<1>4. n <= Free(head, tail, size)
    BY <1>0, <1>2, PiecesFold DEF WriteBytes
<1>5. head' = Fold(head + n, size) /\ size' = size /\ tail' = tail
    <2>1. n \in 0..(size - 1)
        BY <1>0, <1>2, <1>4 DEF Free, Used, Positions
    <2> QED
        BY <1>0, <1>2, <2>1, PositionsFold DEF WriteBytes
<1>6. buf' = [i \in Cells |-> IF i < size /\ ((i - head) % size) < n
                              THEN b[((i - head) % size) + 1] ELSE buf[i]]
    BY <1>2 DEF WriteBytes
<1>7. \A i \in 0..(size - 1) : /\ (i - head) % size = Fold(i - head, size)
                              /\ Fold(i - head, size) \in 0..(size - 1)
    <2> TAKE i \in 0..(size - 1)
    <2>1. /\ i - head \in Int /\ -size <= i - head /\ i - head < size + size
          /\ size \in Nat \ {0}
        BY <1>0 DEF Positions
    <2>2. (i - head) % size = Fold(i - head, size)
        BY <2>1, ModFolds
    <2> QED
        BY <1>0, <2>2 DEF Fold, Positions
<1>8. buf' \in [Cells -> CirBytes \cup {Junk}]
    <2>1. ASSUME NEW i \in Cells, i < size, ((i - head) % size) < n
          PROVE  ((i - head) % size) + 1 \in 1..n
        <3>1. i \in 0..(size - 1)
            BY <1>0, <2>1, LimitSizeAssumption DEF Cells, Positions
        <3>2. (i - head) % size \in 0..(size - 1)
            BY <1>7, <3>1
        <3> QED
            BY <1>2, <2>1, <3>2
    <2> QED
        BY <1>0, <1>1, <1>6, <2>1
<1>9. \A i \in 0..(size - 1) :
          buf'[i] = IF Behind(i, head, size, n) THEN b[Fold(i - head, size) + 1] ELSE buf[i]
    <2> TAKE i \in 0..(size - 1)
    <2>1. i \in Cells /\ i < size
        BY <1>0, LimitSizeAssumption DEF Cells, Positions
    <2> QED
        BY <1>6, <1>7, <2>1 DEF Behind
<1>10. Shape(buf', head', tail', size') /\ Grown
    BY <1>0, <1>1, <1>2, <1>4, <1>5, <1>8, <1>9, PutKeeps DEF Grown
<1> QED
    BY <1>10 DEF CirIInv, WriteBytes

\* advanceTail() takes bytes from the front.
LEMMA AdvanceTailSound ==
    ASSUME CirIInv, NEW n \in 1..LimitSize, advanceTail(n)
    PROVE  CirIInv' /\ Shrunk
<1>0. Shape(buf, head, tail, size) /\ Positions(head, tail, size) /\ size <= LimitSize
      /\ buf \in [Cells -> CirBytes \cup {Junk}] /\ size \in Nat /\ n \in Nat \ {0}
    BY LimitSizeAssumption DEF CirIInv, Shape, Positions
<1>1. n <= Used(head, tail, size) /\ Used(head, tail, size) \in 0..(size - 1)
    BY <1>0, PiecesFold, PositionsFold DEF advanceTail
<1>2. tail' = Fold(tail + n, size) /\ size' = size /\ head' = head
    <2>1. n \in 0..(size - 1)
        BY <1>0, <1>1
    <2> QED
        BY <1>0, <2>1, PositionsFold DEF advanceTail
<1>3. /\ Positions(head, tail', size)
      /\ Used(head, tail', size) = Used(head, tail, size) - n
      /\ \A i \in 0..(size - 1) : Holds(i, head, tail', size) => Holds(i, head, tail, size)
      /\ \A k \in 1..(Used(head, tail, size) - n) : At(k, tail', size) = At(k + n, tail, size)
    BY <1>0, <1>1, <1>2, CellsBehindTail
<1>4. \A i \in 0..(size - 1) : Holds(i, head, tail', size) => buf[i] \in CirBytes
    BY <1>0, <1>3 DEF Shape
<1>5. buf' = Tidy(buf, size, head, tail')
    BY DEF advanceTail
<1>6. /\ Shape(buf', head, tail', size)
      /\ \A i \in 0..(size - 1) : Holds(i, head, tail', size) => buf'[i] = buf[i]
    BY <1>0, <1>3, <1>4, <1>5, TidyKeeps
<1>7. \A k \in 1..Used(head, tail', size) : buf'[At(k, tail', size)] = buf[At(k + n, tail, size)]
    <2> TAKE k \in 1..Used(head, tail', size)
    <2>1. At(k, tail', size) \in 0..(size - 1) /\ Holds(At(k, tail', size), head, tail', size)
        BY <1>3, PositionsFold
    <2>2. At(k, tail', size) = At(k + n, tail, size)
        BY <1>3
    <2> QED
        BY <1>6, <2>1, <2>2
<1>8. Bytes(buf', head, tail', size)
      = SubSeq(Bytes(buf, head, tail, size), n + 1, Len(Bytes(buf, head, tail, size)))
    BY <1>0, <1>3, <1>6, <1>7, FirstTaken
<1>9. Len(Bytes(buf, head, tail, size)) = Used(head, tail, size)
    BY <1>0, BytesAreASeq
<1>10. n \in 1..Len(Bytes(buf, head, tail, size))
    BY <1>0, <1>1, <1>9
<1>11. Shrunk
    BY <1>2, <1>8, <1>10 DEF Shrunk
<1> QED
    BY <1>2, <1>6, <1>11 DEF CirIInv, advanceTail

\* The memory that a factor of 2 or more gives.
LEMMA FactorGrows ==
    ASSUME NEW s \in Nat \ {0}, NEW f \in Nat, f > 1
    PROVE  s * f \in Nat /\ s * f >= s + s
<1>1. PICK g \in Nat : f = g + 2
    <2>1. f - 2 \in Nat /\ f = (f - 2) + 2
        OBVIOUS
    <2> QED
        BY <2>1
<1>2. s * f = s * g + (s + s) /\ s * g \in Nat
    BY <1>1
<1> QED
    BY <1>2

\* Where the bytes are after the buffer has grown.
LEMMA CellsAfterGrowth ==
    ASSUME NEW h, NEW t, NEW s, Positions(h, t, s), NEW s2 \in Nat, s2 >= s + s
    PROVE  /\ Positions(t + Used(h, t, s), t, s2)
           /\ Used(t + Used(h, t, s), t, s2) = Used(h, t, s)
           /\ \A i \in 0..(s2 - 1) : Holds(i, t + Used(h, t, s), t, s2)
                                    <=> t <= i /\ i < t + Used(h, t, s)
           /\ \A k \in 1..Used(h, t, s) : At(k, t, s2) = t + k - 1
BY DEF Positions, Used, Holds, At

\* Growing keeps the bytes, whether or not they wrapped (cirbuf.cpp:127).
LEMMA DoubleCapacitySound ==
    ASSUME CirIInv, NEW f, doubleCapacity(f)
    PROVE  CirIInv' /\ Moves
<1> DEFINE u == Used(head, tail, size)
           b2 == Moved(f)
<1>0. Shape(buf, head, tail, size) /\ Positions(head, tail, size)
      /\ buf \in [Cells -> CirBytes \cup {Junk}]
      /\ size \in Nat \ {0} /\ head \in 0..(size - 1) /\ tail \in 0..(size - 1)
      /\ (\A i \in 0..(size - 1) : Holds(i, head, tail, size) => buf[i] \in CirBytes)
    BY DEF CirIInv, Shape, Positions
<1>1. /\ size' = size * f /\ size' \in Nat /\ size' >= size + size /\ size' <= LimitSize
      /\ tail' = tail
    BY <1>0, FactorGrows DEF doubleCapacity
<1>2. head' = tail + u /\ buf' = Tidy(b2, size', head', tail)
    BY <1>0, PiecesFold DEF doubleCapacity
<1>3. u \in 0..(size - 1)
    BY <1>0, PositionsFold
<1>4. /\ Positions(head', tail, size') /\ Used(head', tail, size') = u
      /\ \A i \in 0..(size' - 1) : Holds(i, head', tail, size') <=> tail <= i /\ i < tail + u
      /\ \A k \in 1..u : At(k, tail, size') = tail + k - 1
    BY <1>0, <1>1, <1>2, CellsAfterGrowth
<1>5. \A i \in Cells : i \in tail..((tail + u) - 1) =>
          /\ i < size => b2[i] = buf[i] /\ Holds(i, head, tail, size)
          /\ i >= size => b2[i] = buf[i - size] /\ Holds(i - size, head, tail, size)
    <2>1. ASSUME NEW i \in Cells, i \in tail..((tail + u) - 1), i < size
          PROVE  Holds(i, head, tail, size)
        BY <1>0, <2>1 DEF Holds, Used
    <2>2. ASSUME NEW i \in Cells, i \in tail..((tail + u) - 1), i >= size
          PROVE  head < tail /\ Holds(i - size, head, tail, size)
        BY <1>0, <2>2 DEF Holds, Used
    <2>3. CASE head < tail
        <3>1. tail + maxReadSize = size
            BY <1>0, <2>3, PiecesFold DEF ReadPiece
        <3>2. b2 = [i \in Cells |-> IF i \in size..(size + head - 1) THEN buf[i - size] ELSE buf[i]]
            BY <2>3, <3>1 DEF Moved
        <3>3. \A i \in Cells : i \in tail..((tail + u) - 1) =>
                  (i >= size <=> i \in size..((size + head) - 1))
            BY <1>0, <2>3, LimitSizeAssumption DEF Used, Cells
        <3>4. ASSUME NEW i \in Cells, i \in tail..((tail + u) - 1)
              PROVE  (i < size => b2[i] = buf[i]) /\ (i >= size => b2[i] = buf[i - size])
            BY <1>0, <3>2, <3>3, <3>4, LimitSizeAssumption DEF Cells
        <3> QED
            BY <2>1, <2>2, <3>4
    <2>4. CASE ~(head < tail)
        <3>1. b2 = buf
            BY <2>4 DEF Moved
        <3> QED
            BY <2>1, <2>2, <2>4, <3>1
    <2> QED
        BY <2>3, <2>4
<1>6. b2 \in [Cells -> CirBytes \cup {Junk}]
    <2>1. CASE head < tail
        <3>1. tail + maxReadSize = size
            BY <1>0, <2>1, PiecesFold DEF ReadPiece
        <3>2. b2 = [i \in Cells |-> IF i \in size..(size + head - 1) THEN buf[i - size] ELSE buf[i]]
            BY <2>1, <3>1 DEF Moved
        <3>3. ASSUME NEW i \in Cells, i \in size..((size + head) - 1)
              PROVE  i - size \in Cells
            BY <1>0, <3>3, LimitSizeAssumption DEF Cells
        <3> QED
            BY <1>0, <3>2, <3>3
    <2>2. CASE ~(head < tail)
        BY <1>0, <2>2 DEF Moved
    <2> QED
        BY <2>1, <2>2
<1> HIDE DEF u, b2
<1>7. \A i \in 0..(size' - 1) : Holds(i, head', tail, size') => b2[i] \in CirBytes
    <2> TAKE i \in 0..(size' - 1)
    <2> HAVE Holds(i, head', tail, size')
    <2>1. i \in Cells /\ i \in tail..((tail + u) - 1)
        BY <1>0, <1>1, <1>3, <1>4, LimitSizeAssumption DEF Cells
    <2>2. CASE i < size
        <3>1. i \in 0..(size - 1)
            BY <1>0, <2>1, <2>2
        <3> QED
            BY <1>0, <1>5, <2>1, <2>2, <3>1
    <2>3. CASE i >= size
        <3>1. i - size \in 0..(size - 1)
            BY <1>0, <1>3, <2>1, <2>3
        <3> QED
            BY <1>0, <1>5, <2>1, <2>3, <3>1
    <2> QED
        BY <1>0, <2>1, <2>2, <2>3
<1>8. /\ Shape(buf', head', tail, size')
      /\ \A i \in 0..(size' - 1) : Holds(i, head', tail, size') => buf'[i] = b2[i]
    BY <1>1, <1>2, <1>4, <1>6, <1>7, TidyKeeps
<1>9. \A k \in 1..u : buf'[At(k, tail, size')] = buf[At(k, tail, size)]
    <2> TAKE k \in 1..u
    <2> DEFINE i == tail + k - 1
    <2>0. k \in Nat \ {0} /\ k <= u
        BY <1>3
    <2>1. i \in 0..(size' - 1) /\ i \in Cells /\ i \in tail..((tail + u) - 1)
        BY <1>0, <1>1, <1>3, <2>0, LimitSizeAssumption DEF Cells
    <2>2. At(k, tail, size') = i
        BY <1>4
    <2>6. Holds(i, head', tail, size')
        BY <1>0, <1>3, <1>4, <2>0, <2>1
    <2>3. buf'[i] = b2[i]
        BY <1>8, <2>1, <2>6
    <2>4. b2[i] = buf[IF i < size THEN i ELSE i - size]
        BY <1>0, <1>5, <2>1
    <2>5. At(k, tail, size) = IF i < size THEN i ELSE i - size
        BY DEF At
    <2> QED
        BY <2>2, <2>3, <2>4, <2>5
<1>10. Moves
    BY <1>1, <1>4, <1>9, SameBytes DEF Moves, u
<1> QED
    BY <1>1, <1>8, <1>10 DEF CirIInv, doubleCapacity

\* Only an empty buffer is reset (cirbuf.cpp:193).
LEMMA ResetCapacitySound ==
    ASSUME CirIInv, resetCapacity(InitialSize)
    PROVE  CirIInv' /\ Moves
<1>0. Shape(buf, head, tail, size) /\ primedForSizeReset' = FALSE
    BY DEF CirIInv, resetCapacity
<1>1. CASE size = InitialSize
    BY <1>0, <1>1 DEF resetCapacity, CirIInv, Moves
<1>2. CASE size # InitialSize
    <2>1. /\ size' = InitialSize /\ head' = 0 /\ tail' = 0
          /\ buf' = [i \in Cells |-> Junk]
        BY <1>2 DEF resetCapacity
    <2>2. /\ Positions(head', tail', size') /\ Used(head', tail', size') = 0
          /\ \A i \in 0..(size' - 1) : ~Holds(i, head', tail', size')
        BY <2>1, InitialSizeAssumption DEF Positions, Used, Holds
    <2>3. buf' \in [Cells -> CirBytes \cup {Junk}]
        BY <2>1
    <2>4. Shape(buf', head', tail', size')
        BY <2>1, <2>2, <2>3, LimitSizeAssumption, InitialSizeAssumption DEF Shape
    <2>5. Used(head, tail, size) = 0
        BY <1>0, PiecesFold DEF resetCapacity
    <2>6. Moves
        BY <2>1, <2>2, <2>5 DEF Moves, Bytes
    <2> QED
        BY <1>0, <2>4, <2>6 DEF CirIInv
<1> QED
    BY <1>1, <1>2

\* At first it is empty.
LEMMA CirInitSound ==
    ASSUME CirInit
    PROVE  CirIInv /\ Bytes(buf, head, tail, size) = <<>>
<1>1. /\ Positions(head, tail, size) /\ Used(head, tail, size) = 0
      /\ \A i \in 0..(size - 1) : ~Holds(i, head, tail, size)
    BY InitialSizeAssumption DEF CirInit, Positions, Used, Holds
<1>2. buf \in [Cells -> CirBytes \cup {Junk}]
    BY DEF CirInit
<1>3. Shape(buf, head, tail, size)
    BY <1>1, <1>2, LimitSizeAssumption, InitialSizeAssumption DEF CirInit, Shape
<1>4. /\ Bytes(buf, head, tail, size) \in Seq(CirBytes)
      /\ Len(Bytes(buf, head, tail, size)) = 0
    BY <1>1, <1>3, BytesAreASeq
<1> QED
    BY <1>3, <1>4, EmptySeq DEF CirIInv, CirInit

(* Every step keeps the shape of the buffer, and puts bytes behind the ones   *)
(* it holds, takes some from the front, or only moves them.                   *)
LEMMA CirNextSound ==
    ASSUME CirIInv, [CirNext]_cirVars
    PROVE  CirIInv' /\ (Grown \/ Shrunk \/ Moves)
<1>1. CASE \E b \in Requests : ReadFromSocket(b) \/ WriteBytes(b)
    BY <1>1, ReadFromSocketSound, WriteBytesSound
<1>2. CASE \E n \in 1..MaxRequest, max \in {LimitSize, InitialSize * 2} : ensureFreeSpace(n, max)
    <2>1. PICK n \in 1..MaxRequest, max \in {LimitSize, InitialSize * 2} :
              doubleCapacity(Factor(n, max))
        BY <1>2 DEF ensureFreeSpace
    <2> QED
        BY <2>1, DoubleCapacitySound
<1>3. CASE freeSpace = 0 /\ doubleCapacity(2)
    BY <1>3, DoubleCapacitySound
<1>4. CASE \E n \in 1..LimitSize : advanceTail(n)
    BY <1>4, AdvanceTailSound
<1>5. CASE resetCapacityIfEligable
    <2>1. CASE primedForSizeReset
        BY <1>5, <2>1, ResetCapacitySound DEF resetCapacityIfEligable
    <2>2. CASE ~primedForSizeReset
        BY <1>5, <2>2 DEF resetCapacityIfEligable, CirIInv, Moves
    <2> QED
        BY <2>1, <2>2
<1>6. CASE resetCapacity(InitialSize)
    BY <1>6, ResetCapacitySound
<1>7. CASE UNCHANGED cirVars
    BY <1>7 DEF cirVars, CirIInv, Moves
<1> QED
    BY <1>1, <1>2, <1>3, <1>4, <1>5, <1>6, <1>7 DEF CirNext

(* The circular buffer implements the queue of bytes, for every initial size  *)
(* and limit, and the pieces it hands out are the right ones                  *)
(* (cirbuf.cpp:58-106, 127, 193, 252, 276).                                  *)
THEOREM CirBufIsAQueue == CirSpec => ImplementsByteQueue
<1>1. ASSUME CirIInv
      PROVE  Contents = Bytes(buf, head, tail, size)
    <2>1. [k \in 1..((head - tail) % size) |-> buf[(tail + k - 1) % size]] = Bytes(buf, head, tail, size)
        BY <1>1, ContentsAreBytes DEF CirIInv
    <2> QED
        BY <2>1 DEF Contents, usedBytes
<1>2. ASSUME CirIInv'
      PROVE  Contents' = Bytes(buf', head', tail', size')
    <2>1. [k \in 1..((head' - tail') % size') |-> (buf')[(tail' + k - 1) % size']]
          = Bytes(buf', head', tail', size')
        BY <1>2, ContentsAreBytes DEF CirIInv
    <2> QED
        BY <2>1 DEF Contents, usedBytes
<1>3. CirInit => CirIInv /\ Queue!QueueInit
    BY <1>1, CirInitSound DEF Queue!QueueInit
<1>4. CirIInv /\ [CirNext]_cirVars => CirIInv' /\ [Queue!QueueNext]_Contents
    <2> SUFFICES ASSUME CirIInv, [CirNext]_cirVars
                 PROVE  CirIInv' /\ [Queue!QueueNext]_Contents
        OBVIOUS
    <2>1. CirIInv' /\ (Grown \/ Shrunk \/ Moves)
        BY CirNextSound
    <2>2. Contents = Bytes(buf, head, tail, size) /\ Contents' = Bytes(buf', head', tail', size')
        BY <1>1, <1>2, <2>1
    <2>3. CASE Grown
        BY <2>1, <2>2, <2>3 DEF Grown, Queue!QueueNext, Queue!PutBytes
    <2>4. CASE Shrunk
        BY <2>1, <2>2, <2>4 DEF Shrunk, Queue!QueueNext, Queue!TakeBytes
    <2>5. CASE Moves
        BY <2>1, <2>2, <2>5 DEF Moves
    <2> QED
        BY <2>1, <2>3, <2>4, <2>5
<1>5. CirIInv => PiecesAreRight
    BY PiecesFit DEF CirIInv
<1> QED
    BY <1>3, <1>4, <1>5, PTL DEF CirSpec, ImplementsByteQueue, Queue!QueueSpec
=============================================================================
