------------------------------- MODULE Bitset -------------------------------
(***************************************************************************)
(* bitset.h: one bit per page of a chunk, eight to a byte.  LazyfreeCache  *)
(* has them as a function from pages to booleans (bit0); this module is    *)
(* why it may: a put changes the bit it is for and no other, and neither   *)
(* put nor get leaves the allocated bytes.                                 *)
(*                                                                         *)
(* A byte is the set of the bits that are 1 in it, so that |=, &= ~ and &  *)
(* with 1 << n add n, remove it and look for it.                           *)
(***************************************************************************)
EXTENDS Integers, TLAPS

Bit == 0 .. 7

\* The bytes bitset_new allocates.
BitsetBytes(size) == (IF size % 8 # 0 THEN size + 8 ELSE size) \div 8

\* bitset_t for size pages; malloc leaves any bits in it.
BitsetOf(size) == [0 .. BitsetBytes(size) - 1 -> SUBSET Bit]

BitsetPut(bitset, idx, val) ==
    [bitset EXCEPT ![idx \div 8] =
        IF val THEN @ \cup {idx % 8} ELSE @ \ {idx % 8}]

BitsetGet(bitset, idx) == idx % 8 \in bitset[idx \div 8]

----------------------------------------------------------------------------

\* The byte and the bit of an index, and the index again.
LEMMA ByteAndBit ==
    ASSUME NEW idx \in Nat
    PROVE  /\ idx \div 8 \in Nat /\ idx % 8 \in Bit
           /\ idx = 8 * (idx \div 8) + (idx % 8)
  BY DEF Bit

\* No index of a chunk's page is beyond the bytes of its bit set, whole bytes
\* or not (bitset_new rounds the size up by adding 8).
THEOREM BitsetHasRoom ==
    ASSUME NEW size \in Nat, NEW idx \in 0 .. size - 1
    PROVE  idx \div 8 \in 0 .. BitsetBytes(size) - 1
  <1>1. idx \in Nat /\ idx < size
    OBVIOUS
  <1>2. idx \div 8 \in Nat /\ idx = 8 * (idx \div 8) + (idx % 8) /\ idx % 8 \in 0 .. 7
    BY <1>1
  <1>3. /\ size = 8 * (size \div 8) + (size % 8)
        /\ size % 8 \in 0 .. 7 /\ size \div 8 \in Nat
    OBVIOUS
  <1>4. CASE size % 8 = 0
    <2>1. BitsetBytes(size) = size \div 8
      BY <1>4 DEF BitsetBytes
    <2> QED
      BY <1>1, <1>2, <1>3, <1>4, <2>1
  <1>5. CASE size % 8 # 0
    <2>1. BitsetBytes(size) = size \div 8 + 1
      BY <1>5 DEF BitsetBytes
    <2> QED
      BY <1>1, <1>2, <1>3, <2>1
  <1> QED
    BY <1>4, <1>5

\* A put leaves a bit set, and a get after it finds the value at the put's index
\* and what was there before at every other: the bits of two pages, of one byte
\* or of two, do not disturb each other (bit_from_tail, bit_to_tail).
THEOREM BitsetIsArray ==
    ASSUME NEW size \in Nat, NEW bitset \in BitsetOf(size),
           NEW idx \in 0 .. size - 1, NEW other \in 0 .. size - 1,
           NEW val \in BOOLEAN
    PROVE  /\ BitsetPut(bitset, idx, val) \in BitsetOf(size)
           /\ BitsetGet(BitsetPut(bitset, idx, val), other) =
                  IF other = idx THEN val ELSE BitsetGet(bitset, other)
  <1> DEFINE after == BitsetPut(bitset, idx, val)
             i     == idx \div 8
             j     == other \div 8
  <1>1. i \in 0 .. BitsetBytes(size) - 1 /\ j \in 0 .. BitsetBytes(size) - 1
    BY BitsetHasRoom
  <1>2. /\ idx % 8 \in Bit /\ other % 8 \in Bit
        /\ idx = 8 * i + (idx % 8) /\ other = 8 * j + (other % 8)
    BY ByteAndBit
  <1>3. bitset[i] \in SUBSET Bit
    BY <1>1 DEF BitsetOf
  <1>4. after \in BitsetOf(size)
    <2>1. (IF val THEN bitset[i] \cup {idx % 8} ELSE bitset[i] \ {idx % 8})
              \in SUBSET Bit
      BY <1>2, <1>3
    <2> HIDE DEF i
    <2> QED
      BY <1>1, <2>1 DEF BitsetOf, BitsetPut, i
  <1>5. after[j] = IF j = i
                   THEN IF val THEN bitset[i] \cup {idx % 8}
                        ELSE bitset[i] \ {idx % 8}
                   ELSE bitset[j]
    BY <1>1 DEF BitsetOf, BitsetPut
  <1>6. other = idx <=> j = i /\ other % 8 = idx % 8
    BY <1>2
  <1>7. BitsetGet(after, other) =
            IF other = idx THEN val ELSE BitsetGet(bitset, other)
    <2> HIDE DEF after, i, j
    <2>1. BitsetGet(after, other) = (other % 8 \in after[j])
      BY DEF BitsetGet, j
    <2>2. BitsetGet(bitset, other) = (other % 8 \in bitset[j])
      BY DEF BitsetGet, j
    <2>3. CASE j = i
      BY <1>5, <1>6, <2>1, <2>2, <2>3
    <2>4. CASE j # i
      BY <1>5, <1>6, <2>1, <2>2, <2>4
    <2> QED
      BY <2>3, <2>4
  <1> QED
    BY <1>4, <1>7

=============================================================================
