------------------------- MODULE PageProtocolProofs -------------------------
(***************************************************************************)
(* What a caller reads from a page, and what a writer finds on it, for     *)
(* pages of every size and any bytes.                                      *)
(***************************************************************************)
EXTENDS PageProtocol, SequenceTheorems, TLAPS

----------------------------------------------------------------------------
(* The invariant *)

\* Byte i as a reader puts it together is what the writers stored.
Matches(i) ==
    payload[i] # Unwritten =>
        payload[i] = IF i = Last THEN BitToTail(bytes[i]) ELSE bytes[i]

\* Inside a call on a page found or allocated, the page is the key's.
OwnedInside ==
    pc \in {"tested", "upgrading", "marked", "lost", "checked", "restored",
            "clearing", "upgraded", "writing", "keeping", "setting"} => owned

\* A page that does not read as lost is intact until the upgrade stores to it,
\* and so is all but its first byte until that is put back.
LiveInv ==
    /\ owned /\ pc \in Outside \cup {"tested", "upgrading"} /\ LockCheck =>
           \A i \in Pos : Matches(i)
    /\ pc = "upgrading" /\ LockCheck => byte0 = bytes[0]

\* From the store to its first byte on, the kernel cannot take the page.
UpgradeInv ==
    /\ pc \in {"marked", "checked", "restored", "clearing", "upgraded"} => ~lazy
    /\ pc \in {"checked", "restored"} => LockCheck
    /\ pc \in {"marked", "checked"} /\ LockCheck =>
           /\ \A i \in Pos \ {0} : Matches(i)
           /\ payload[0] \in {Unwritten, byte0}
    /\ pc \in {"restored", "clearing"} => \A i \in Pos : Matches(i)
    /\ pc = "clearing" => ~bit0 /\ byte0 = bytes[Last]

\* A page that is still under MADV_FREE in a write lock has nothing stored on
\* it yet; the bit is the stored byte's.
WriteInv ==
    pc \in {"upgraded", "writing", "keeping", "setting"} =>
        /\ \A i \in Pos : payload[i] \in {Unwritten, bytes[i]}
        /\ lazy => \A i \in Pos : payload[i] = Unwritten
        /\ payload[Last] # Unwritten =>
               /\ pc \in {"keeping", "setting"} => bit0 = (payload[Last] % 2 = 1)
               /\ pc = "setting" => byte0 = payload[Last]

\* A copy in progress keeps to what was asked for, and to the page.
ReadBounds ==
    pc = "reading" =>
        /\ read.offset + read.size <= MaxEnd
        /\ Len(read.dest) <= read.size
        /\ read.offset + Len(read.dest) <= PageSize
        /\ read.result = "none"

\* It has the payload's bytes, the last one in the lock, but for its lowest bit
\* in the copy.
ReadInv ==
    /\ pc = "tested" => read.result = "none"
    /\ pc \in {"locked", "reading"} /\ owned /\ LockCheck =>
           payload[Last] \in {Unwritten, tail}
    /\ pc = "reading" /\ owned /\ LockCheck =>
           \A i \in 1 .. Len(read.dest) :
               IF read.offset + i - 1 = Last THEN DeliversTop(i) ELSE Delivers(i)
    /\ AcceptedReadIsPayload

\* Where MADV_FREE is not used, the kernel takes nothing.
KindInv ==
    kind # "lazyfree" =>
        /\ ~lazy
        /\ owned /\ pc \in Outside \cup {"tested"} => LockCheck

TypeInv == TypeOK /\ ReadBounds

PageInv ==
    TypeInv /\ OwnedInside /\ LiveInv /\ UpgradeInv /\ WriteInv

----------------------------------------------------------------------------
(* Bytes and positions *)

\* The first byte and the last are two.
LEMMA PosFacts == 0 \in Pos /\ Last \in Pos /\ Last # 0
  BY PageSizeAssumption DEF Pos, Last

\* The lowest bit moved out and in again gives the byte back, and what is left
\* in the page is not zero (bit_from_tail, bit_to_tail).
LEMMA ByteFacts ==
    ASSUME NEW b \in Byte
    PROVE  /\ SetBit0(b) \in Byte /\ ClearBit0(b) \in Byte
           /\ SetBit0(b) > 0
           /\ b = IF b % 2 = 1 THEN SetBit0(b) ELSE ClearBit0(SetBit0(b))
  BY DEF Byte, SetBit0, ClearBit0

\* The bit is all bit_to_tail may change.
LEMMA TopOfTail ==
    ASSUME NEW b \in Byte
    PROVE  SetBit0(BitToTail(b)) = SetBit0(b)
  BY DEF Byte, SetBit0, ClearBit0, BitToTail

\* A caller stores bytes.
LEMMA StoredByte ==
    ASSUME NEW i \in Pos, NEW b \in ByteAt(i)
    PROVE  b \in Byte
  BY ByteAssumption DEF ByteAt

\* bit_to_tail gives a byte.
LEMMA BitToTailType ==
    ASSUME NEW b \in Byte
    PROVE  BitToTail(b) \in Byte
  BY ByteFacts DEF BitToTail

\* A stored byte leaves a page of bytes.
LEMMA StoreType ==
    ASSUME TypeOK, NEW i \in Pos, NEW b \in Byte, Store(i, b)
    PROVE  bytes' \in [Pos -> Byte] /\ lazy' \in BOOLEAN
  BY DEF TypeOK, Store

----------------------------------------------------------------------------
(* Types *)

\* The initial state.
LEMMA InitType == Init => TypeInv
  <1> SUFFICES ASSUME Init PROVE TypeInv
    OBVIOUS
  <1>1. read \in [offset : Pos, size : Nat, dest : Seq(Byte),
                  result : {"none", "ok", "failed"}]
    BY PosFacts DEF Init, NoRead
  <1>2. 0 \in Byte
    BY DEF Byte
  <1> QED
    BY <1>1, <1>2 DEF Init, TypeInv, TypeOK, ReadBounds, Zeros, Outside

\* The caller's position and the result of a read.
LEMMA NoReadType ==
    NoRead \in [offset : Pos, size : Nat, dest : Seq(Byte),
                result : {"none", "ok", "failed"}]
  BY PosFacts DEF NoRead

\* A byte of the destination is replaced.
LEMMA DestType ==
    ASSUME NEW d \in Seq(Byte), NEW n, NEW b \in Byte
    PROVE  [d EXCEPT ![n] = b] \in Seq(Byte)
  <1>1. d \in [1 .. Len(d) -> Byte] /\ Len(d) \in Nat
    OBVIOUS
  <1>2. [d EXCEPT ![n] = b] \in [1 .. Len(d) -> Byte]
    BY <1>1
  <1> QED
    BY <1>1, <1>2, SeqDef

\* Every step keeps the types, and a copy within its bounds.
LEMMA NextType == TypeInv /\ [Next]_vars => TypeInv'
  <1> SUFFICES ASSUME TypeInv, [Next]_vars PROVE TypeInv'
    OBVIOUS
  <1> USE DEF TypeInv, TypeOK, ReadBounds, Outside, Goto, pageVars
  <1>1. CASE UNCHANGED vars
    BY <1>1 DEF vars
  <1>2. ASSUME Step, kind' = kind PROVE TypeInv'
    <2>1. CASE ReadLockTest \/ ReadLockLoad
      BY <1>2, <2>1, NoReadType, BitToTailType, PosFacts
         DEF ReadLockTest, ReadLockLoad
    <2>2. ASSUME NEW offset \in Pos, NEW size \in 1 .. MaxEnd,
                 ReadBegin(offset, size)
          PROVE  TypeInv'
      <3>1. read' \in [offset : Pos, size : Nat, dest : Seq(Byte),
                       result : {"none", "ok", "failed"}]
        BY <2>2, MaxEndAssumption DEF ReadBegin
      <3>2. ReadBounds'
        <4>1. pc' = "reading" => LockCheck
          BY <2>2 DEF ReadBegin
        <4>2. offset < PageSize /\ offset \in Nat /\ size \in Nat
          BY PageSizeAssumption, MaxEndAssumption DEF Pos, Last
        <4>3. /\ read'.offset = offset /\ read'.size = size /\ read'.dest = << >>
              /\ LockCheck => read'.result = "none"
              /\ offset + size <= MaxEnd /\ Len(<< >>) = 0
          BY <2>2 DEF ReadBegin
        <4> HIDE DEF TypeInv, TypeOK, LockCheck
        <4> QED
          BY <4>1, <4>2, <4>3, MaxEndAssumption, PageSizeAssumption
      <3> QED
        BY <1>2, <2>2, <3>1, <3>2 DEF ReadBegin
    <2>3. CASE ReadByte
      <3>1. read.offset + Len(read.dest) \in Pos
        BY <2>3, PageSizeAssumption DEF ReadByte, CopyDone, Pos, Last
      <3>2. /\ read'.dest = Append(read.dest, bytes[read.offset + Len(read.dest)])
            /\ read'.offset = read.offset /\ read'.size = read.size
            /\ read'.result = read.result
            /\ read' \in [offset : Pos, size : Nat, dest : Seq(Byte),
                          result : {"none", "ok", "failed"}]
        <4>1. Append(read.dest, bytes[read.offset + Len(read.dest)]) \in Seq(Byte)
          BY <3>1, AppendProperties
        <4> HIDE DEF ReadBounds
        <4> QED
          BY <2>3, <4>1 DEF ReadByte
      <3>3. ReadBounds'
        <4>1. Len(read'.dest) = Len(read.dest) + 1
          BY <3>2
        <4>2. Len(read.dest) # read.size /\ read.offset + Len(read.dest) # PageSize
          BY <2>3 DEF ReadByte, CopyDone
        <4> QED
          BY <2>3, <3>2, <4>1, <4>2, PageSizeAssumption DEF ReadByte, Pos, Last
      <3> QED
        BY <1>2, <2>3, <3>2, <3>3 DEF ReadByte
    <2>4. CASE ReadEnd
      <3>1. read' \in [offset : Pos, size : Nat, dest : Seq(Byte),
                       result : {"none", "ok", "failed"}]
        BY <2>4, DestType DEF ReadEnd
      <3> QED
        BY <1>2, <2>4, <3>1 DEF ReadEnd
    <2>5. ASSUME NEW drop \in BOOLEAN, ReadUnlock(drop)
          PROVE  TypeInv'
      BY <1>2, <2>5, NoReadType DEF ReadUnlock
    <2>6. CASE UpgradeLoad \/ UpgradeMark \/ UpgradeCheck \/ UpgradeFail
      <3>1. 0 \in Byte /\ 1 \in Byte
        BY DEF Byte
      <3> QED
        BY <1>2, <2>6, <3>1, NoReadType, StoreType, PosFacts
           DEF UpgradeLoad, UpgradeMark, UpgradeCheck, UpgradeFail
    <2>7. CASE UpgradeRestore \/ UpgradeBit \/ UpgradeClear
      BY <1>2, <2>7, ByteFacts, StoreType, PosFacts
         DEF UpgradeRestore, UpgradeBit, UpgradeClear
    <2>8. CASE WriteAlloc
      BY <1>2, <2>8 DEF WriteAlloc
    <2>9. ASSUME NEW i \in Pos, NEW b \in ByteAt(i),
                 WriteByte(i, b) \/ OtherStore(i, b)
          PROVE  TypeInv'
      BY <1>2, <2>9, StoredByte, StoreType DEF WriteByte, OtherStore
    <2>10. CASE WriteUnlockBit \/ WriteUnlockLoad \/ WriteUnlockSet \/ WriteUnlockDrop
      BY <1>2, <2>10, ByteFacts, StoreType, PosFacts
         DEF WriteUnlockBit, WriteUnlockLoad, WriteUnlockSet, WriteUnlockDrop
    <2>11. CASE Reclaim \/ Advance \/ Evict \/ Abandon \/ OtherBit
      <3>1. Zeros \in [Pos -> Byte]
        BY DEF Zeros, Byte
      <3> QED
        BY <1>2, <2>11, <3>1 DEF Reclaim, Advance, Evict, Abandon, OtherBit
    <2> HIDE DEF TypeInv, TypeOK, ReadBounds, Outside, Goto, pageVars
    <2>12. CASE \E offset \in Pos, size \in 1 .. MaxEnd : ReadBegin(offset, size)
      BY <2>2, <2>12, Zenon
    <2>13. CASE \E drop \in BOOLEAN : ReadUnlock(drop)
      BY <2>5, <2>13, Zenon
    <2>14. CASE \E i \in Pos : \E b \in ByteAt(i) : WriteByte(i, b) \/ OtherStore(i, b)
      BY <2>9, <2>14, Zenon
    <2> QED
      BY <1>2, <2>1, <2>3, <2>4, <2>6, <2>7, <2>8, <2>10, <2>11, <2>12, <2>13,
         <2>14, Zenon DEF Step
  <1> QED
    BY <1>1, <1>2 DEF Next

----------------------------------------------------------------------------
(* The page *)

Intact == OwnedInside /\ LiveInv /\ UpgradeInv /\ WriteInv

\* A page that is nobody's.
LEMMA InitIntact == Init => Intact
  BY DEF Init, Intact, OwnedInside, LiveInv, UpgradeInv, WriteInv, Outside

\* Steps that leave the page and what is known of it alone.
LEMMA PageUntouched ==
    ASSUME Intact,
           UNCHANGED <<bytes, lazy, bit0, byte0, payload>>,
           owned' => owned,
           pc \in Outside \cup {"tested"},
           pc' \in Outside \cup {"tested", "exited"},
           pc' = "tested" => owned'
    PROVE  Intact'
  <1>1. \A i \in Pos : Matches(i)' <=> Matches(i)
    BY DEF Matches, BitToTail
  <1>2. LockCheck' <=> LockCheck
    BY DEF LockCheck
  <1> QED
    BY <1>1, <1>2
       DEF Intact, OwnedInside, LiveInv, UpgradeInv, WriteInv, Outside

\* Locking, copying and unlocking.
LEMMA ReadKeepsIntact ==
    ASSUME Intact,
           \/ ReadLockTest \/ ReadLockLoad \/ ReadByte \/ ReadEnd
           \/ \E offset \in Pos, size \in 1 .. MaxEnd : ReadBegin(offset, size)
           \/ \E drop \in BOOLEAN : ReadUnlock(drop)
    PROVE  Intact'
  <1>1. CASE ReadLockTest
    BY <1>1, PageUntouched DEF ReadLockTest, Goto, Outside, pageVars
  <1>2. CASE ReadLockLoad
    BY <1>2, PageUntouched DEF ReadLockLoad, Goto, Outside, pageVars
  <1>3. CASE ReadByte
    BY <1>3, PageUntouched DEF ReadByte, Goto, Outside, pageVars
  <1>4. CASE ReadEnd
    BY <1>4, PageUntouched DEF ReadEnd, Goto, Outside, pageVars
  <1>5. ASSUME NEW offset \in Pos, NEW size \in 1 .. MaxEnd,
               ReadBegin(offset, size)
        PROVE  Intact'
    BY <1>5, PageUntouched DEF ReadBegin, Goto, Outside, pageVars
  <1>6. ASSUME NEW drop \in BOOLEAN, ReadUnlock(drop)
        PROVE  Intact'
    BY <1>6, PageUntouched DEF ReadUnlock, Goto, Outside, pageVars
  <1>7. CASE \E offset \in Pos, size \in 1 .. MaxEnd : ReadBegin(offset, size)
    BY <1>5, <1>7, Zenon
  <1>8. CASE \E drop \in BOOLEAN : ReadUnlock(drop)
    BY <1>6, <1>8, Zenon
  <1> QED
    BY <1>1, <1>2, <1>3, <1>4, <1>7, <1>8, Zenon

\* The upgrade.
LEMMA UpgradeKeepsIntact ==
    ASSUME TypeInv, Intact,
           \/ UpgradeLoad \/ UpgradeMark \/ UpgradeCheck \/ UpgradeFail
           \/ UpgradeRestore \/ UpgradeBit \/ UpgradeClear
    PROVE  Intact'
  <1> USE PosFacts DEF TypeInv, TypeOK, Intact, OwnedInside, LiveInv, UpgradeInv,
          WriteInv, Outside, Goto, pageVars, Matches, LockCheck, BitToTail
  <1>1. CASE UpgradeLoad
    BY <1>1 DEF UpgradeLoad
  <1>2. CASE UpgradeMark
    BY <1>2 DEF UpgradeMark, Store
  <1>3. CASE UpgradeCheck
    BY <1>3 DEF UpgradeCheck
  <1>4. CASE UpgradeFail
    BY <1>4 DEF UpgradeFail
  <1>5. CASE UpgradeRestore
    BY <1>5 DEF UpgradeRestore, Store
  <1>6. CASE UpgradeBit
    BY <1>6 DEF UpgradeBit
  <1>7. CASE UpgradeClear
    BY <1>7 DEF UpgradeClear, Store
  <1> QED
    BY <1>1, <1>2, <1>3, <1>4, <1>5, <1>6, <1>7


\* A write lock from its allocation to its release.
LEMMA WriteKeepsIntact ==
    ASSUME TypeInv, Intact,
           \/ WriteAlloc
           \/ WriteUnlockBit \/ WriteUnlockLoad \/ WriteUnlockSet \/ WriteUnlockDrop
    PROVE  Intact'
  <1> USE PosFacts DEF TypeInv, TypeOK, Intact, OwnedInside, LiveInv, UpgradeInv,
          WriteInv, Outside, Goto, pageVars
  <1>1. CASE WriteAlloc
    BY <1>1 DEF WriteAlloc
  <1>2. CASE WriteUnlockBit
    BY <1>2 DEF WriteUnlockBit
  <1>3. CASE WriteUnlockLoad
    BY <1>3 DEF WriteUnlockLoad
  <1>4. CASE WriteUnlockSet
    <2>1. \A i \in Pos : Matches(i)'
      <3> TAKE i \in Pos
      <3>1. CASE i # Last
        BY <1>4, <3>1 DEF WriteUnlockSet, Store, Matches
      <3>2. CASE i = Last
        <4> SUFFICES ASSUME payload[Last] # Unwritten
                     PROVE  payload[Last] = BitToTail(bytes[Last])'
          BY <1>4, <3>2 DEF WriteUnlockSet, Store, Matches
        <4>1. /\ payload[Last] \in Byte
              /\ payload[Last] = byte0
              /\ bit0 = (byte0 % 2 = 1)
          BY <1>4 DEF WriteUnlockSet
        <4>2. bytes'[Last] = SetBit0(byte0) /\ bit0' = bit0
          BY <1>4 DEF WriteUnlockSet, Store
        <4> QED
          BY <4>1, <4>2, ByteFacts DEF BitToTail
      <3> QED
        BY <3>1, <3>2
    <2> QED
      BY <1>4, <2>1 DEF WriteUnlockSet
  <1>5. CASE WriteUnlockDrop
    BY <1>5 DEF WriteUnlockDrop
  <1> QED
    BY <1>1, <1>2, <1>3, <1>4, <1>5

\* Stores by the writer, or to a page the key has lost.
LEMMA StoreKeepsIntact ==
    ASSUME TypeInv, Intact, NEW i \in Pos, NEW b \in ByteAt(i),
           WriteByte(i, b) \/ OtherStore(i, b)
    PROVE  Intact'
  <1> USE StoredByte, PosFacts
      DEF TypeInv, TypeOK, Intact, OwnedInside, LiveInv, UpgradeInv,
          WriteInv, Outside, Goto, pageVars
  <1>1. CASE WriteByte(i, b)
    BY <1>1 DEF WriteByte, Store
  <1>2. CASE OtherStore(i, b)
    BY <1>2 DEF OtherStore, Store
  <1> QED
    BY <1>1, <1>2

\* The kernel, and other callers.
LEMMA OthersKeepIntact ==
    ASSUME TypeInv, Intact,
           Reclaim \/ Advance \/ Evict \/ Abandon \/ OtherBit
    PROVE  Intact'
  <1> USE PosFacts
      DEF TypeInv, TypeOK, Intact, OwnedInside, LiveInv, UpgradeInv,
          WriteInv, Outside, Goto, pageVars
  <1>1. CASE Reclaim
    <2>1. ~LockCheck'
      BY <1>1 DEF Reclaim, Zeros, LockCheck
    <2> QED
      BY <1>1, <2>1 DEF Reclaim
  <1>2. CASE Advance
    BY <1>2 DEF Advance, Matches, LockCheck, BitToTail
  <1>3. CASE Evict
    BY <1>3 DEF Evict
  <1>4. CASE Abandon
    BY <1>4 DEF Abandon
  <1>5. CASE OtherBit
    BY <1>5 DEF OtherBit
  <1> QED
    BY <1>1, <1>2, <1>3, <1>4, <1>5

\* No step breaks the page.
LEMMA NextIntact == TypeInv /\ Intact /\ [Next]_vars => Intact'
  <1> SUFFICES ASSUME TypeInv, Intact, [Next]_vars PROVE Intact'
    OBVIOUS
  <1>1. CASE UNCHANGED vars
    BY <1>1 DEF vars, pageVars, Intact, OwnedInside, LiveInv, UpgradeInv, WriteInv,
                Outside, Matches, LockCheck, BitToTail
  <1>2. CASE Step
    <2>1. CASE \E i \in Pos : \E b \in ByteAt(i) : WriteByte(i, b) \/ OtherStore(i, b)
      BY <2>1, StoreKeepsIntact, Zenon
    <2> QED
      BY <1>2, <2>1, ReadKeepsIntact, UpgradeKeepsIntact, WriteKeepsIntact,
         OthersKeepIntact, Zenon DEF Step
  <1> QED
    BY <1>1, <1>2 DEF Next

----------------------------------------------------------------------------

(* Reading *)

\* Steps after which no lock is held for reading, or nothing is read yet.
LEMMA NotReading ==
    \/ pc' \notin {"tested", "locked", "reading"}
    \/ pc' = "tested" /\ read' = NoRead
    => ReadInv'
  BY DEF ReadInv, AcceptedReadIsPayload, NoRead

\* Steps that leave the copy alone, and the page as far as it is still the key's.
LEMMA CopyUntouched ==
    ASSUME ReadInv, UNCHANGED <<pc, tail, read, payload>>,
           owned' => owned /\ (LockCheck' => LockCheck)
    PROVE  ReadInv'
  BY DEF ReadInv, AcceptedReadIsPayload, Delivers, DeliversTop

\* The lock takes the last byte, and the copy the others.
LEMMA CopyBegins ==
    ASSUME TypeInv, Intact, ReadInv,
           \/ ReadLockLoad
           \/ \E offset \in Pos, size \in 1 .. MaxEnd : ReadBegin(offset, size)
    PROVE  ReadInv'
  <1> USE DEF ReadInv, AcceptedReadIsPayload, LockCheck, Goto, pageVars
  <1>1. CASE ReadLockLoad
    <2>1. owned /\ LockCheck => payload[Last] \in {Unwritten, BitToTail(bytes[Last])}
      BY <1>1, PosFacts DEF ReadLockLoad, Intact, LiveInv, Matches
    <2>2. pc = "tested" /\ pc' = "locked" /\ read' = read
      BY <1>1 DEF ReadLockLoad
    <2> QED
      BY <1>1, <2>1, <2>2 DEF ReadLockLoad
  <1>2. ASSUME NEW offset \in Pos, NEW size \in 1 .. MaxEnd,
               ReadBegin(offset, size)
        PROVE  ReadInv'
    BY <1>2 DEF ReadBegin
  <1>3. CASE \E offset \in Pos, size \in 1 .. MaxEnd : ReadBegin(offset, size)
    BY <1>2, <1>3, Zenon
  <1> QED
    BY <1>1, <1>3

\* Every byte but the last comes from the page while it is the payload's.
LEMMA CopyGoesOn ==
    ASSUME TypeInv, Intact, ReadInv, ReadByte
    PROVE  ReadInv'
  <1> DEFINE k == read.offset + Len(read.dest)
  <1>1. /\ pc = "reading" /\ pc' = pc /\ owned' = owned /\ tail' = tail
        /\ payload' = payload /\ LockCheck' = LockCheck
    BY DEF ReadByte, pageVars, LockCheck
  <1>2. /\ read'.dest = Append(read.dest, bytes[k])
        /\ read'.offset = read.offset
        /\ read.dest \in Seq(Byte) /\ read.offset \in Pos
    BY DEF ReadByte, TypeInv, TypeOK
  <1>3. k \in Pos
    BY PageSizeAssumption
       DEF ReadByte, CopyDone, TypeInv, TypeOK, ReadBounds, Pos, Last
  <1>4. owned /\ LockCheck => Matches(k)
    BY <1>1, <1>3 DEF Intact, LiveInv, Outside
  <1>5. ASSUME owned, LockCheck, NEW i \in 1 .. Len(read'.dest)
        PROVE  IF read.offset + i - 1 = Last THEN DeliversTop(i)' ELSE Delivers(i)'
    <2>1. /\ Len(read.dest) \in Nat /\ Len(read'.dest) = Len(read.dest) + 1
          /\ read'.dest[Len(read.dest) + 1] = bytes[k]
          /\ \A j \in 1 .. Len(read.dest) : read'.dest[j] = read.dest[j]
      BY <1>2, <1>3, AppendProperties DEF TypeInv, TypeOK
    <2>2. CASE i = Len(read.dest) + 1
      <3>1. read.offset + i - 1 = k
        BY <1>2, <2>1, <2>2 DEF Pos, Last
      <3>2. CASE k = Last
        <4>1. bytes[k] \in Byte /\ SetBit0(BitToTail(bytes[k])) = SetBit0(bytes[k])
          BY <1>3, TopOfTail DEF TypeInv, TypeOK
        <4> QED
          BY <1>1, <1>2, <1>4, <1>5, <2>1, <2>2, <3>1, <3>2, <4>1
             DEF Matches, DeliversTop
      <3>3. CASE k # Last
        BY <1>1, <1>2, <1>4, <1>5, <2>1, <2>2, <3>1, <3>3 DEF Matches, Delivers
      <3> QED
        BY <3>2, <3>3
    <2>3. CASE i \in 1 .. Len(read.dest)
      <3>1. IF read.offset + i - 1 = Last THEN DeliversTop(i) ELSE Delivers(i)
        BY <1>1, <1>5, <2>3 DEF ReadInv
      <3> QED
        BY <1>1, <1>2, <2>1, <2>3, <3>1 DEF Delivers, DeliversTop
    <2> QED
      BY <1>5, <2>1, <2>2, <2>3
  <1> QED
    BY <1>1, <1>2, <1>5 DEF ReadInv, AcceptedReadIsPayload

\* The copy is complete, and its last byte is the lock's where it was to be the
\* page's last.
LEMMA CopyEnds ==
    ASSUME TypeInv, Intact, ReadInv, ReadEnd
    PROVE  ReadInv'
  <1> DEFINE off == read.offset
             n   == read.size
  <1>1. /\ pc = "reading" /\ pc' = "locked" /\ owned' = owned /\ tail' = tail
        /\ payload' = payload /\ LockCheck' = LockCheck
    BY DEF ReadEnd, pageVars, LockCheck, Goto
  <1>2. /\ off \in Pos /\ n \in Nat /\ read.dest \in Seq(Byte)
        /\ Len(read.dest) \in Nat /\ Len(read.dest) <= n
        /\ off + Len(read.dest) <= PageSize
    BY <1>1 DEF TypeInv, TypeOK, ReadBounds
  <1>3. Len(read.dest) = n \/ off + n > PageSize
    BY <1>2, PageSizeAssumption DEF ReadEnd, CopyDone, Pos, Last
  <1>4. /\ read'.offset = off /\ read'.size = n
        /\ read'.dest = IF off + n = PageSize
                        THEN [read.dest EXCEPT ![n] = tail] ELSE read.dest
        /\ read'.result = "ok" => LockCheck
    BY DEF ReadEnd, TypeInv, TypeOK
  <1>5. Len(read'.dest) = Len(read.dest)
    BY <1>2, <1>4
  <1>6. ASSUME owned, LockCheck, NEW i \in 1 .. Len(read.dest)
        PROVE  \/ Delivers(i)'
               \/ off + n > PageSize /\ off + i - 1 = Last /\ DeliversTop(i)'
    <2>1. IF off + i - 1 = Last THEN DeliversTop(i) ELSE Delivers(i)
      BY <1>1, <1>6 DEF ReadInv
    <2>2. CASE off + n > PageSize
      <3>1. read'.dest = read.dest
        BY <1>2, <1>4, <2>2, PageSizeAssumption DEF Pos, Last
      <3> QED
        BY <1>1, <1>4, <2>1, <2>2, <3>1 DEF Delivers, DeliversTop
    <2>3. CASE ~(off + n > PageSize) /\ off + i - 1 = Last
      <3>1. i = n /\ off + n = PageSize /\ Len(read.dest) = n
        BY <1>2, <1>3, <1>6, <2>3, PageSizeAssumption DEF Pos, Last
      <3>2. read'.dest[i] = tail
        BY <1>2, <1>4, <1>6, <3>1
      <3>3. payload[Last] \in {Unwritten, tail}
        BY <1>1, <1>6 DEF ReadInv
      <3> QED
        BY <1>1, <1>4, <2>3, <3>2, <3>3 DEF Delivers
    <2>4. CASE ~(off + n > PageSize) /\ off + i - 1 # Last
      <3>1. read'.dest[i] = read.dest[i]
        BY <1>2, <1>3, <1>4, <1>6, <2>4, PageSizeAssumption DEF Pos, Last
      <3> QED
        BY <1>1, <1>4, <2>1, <2>4, <3>1 DEF Delivers
    <2> QED
      BY <2>2, <2>3, <2>4
  <1>7. AcceptedReadIsPayload'
    BY <1>1, <1>4, <1>5, <1>6 DEF AcceptedReadIsPayload
  <1> QED
    BY <1>1, <1>7 DEF ReadInv

\* No step breaks a copy.
LEMMA NextReadInv ==
    ASSUME TypeInv, Intact, ReadInv, [Next]_vars
    PROVE  ReadInv'
  <1>1. CASE UNCHANGED vars
    BY <1>1, CopyUntouched DEF vars, pageVars, LockCheck
  <1>2. CASE ReadLockTest
    BY <1>2, NotReading DEF ReadLockTest, Goto
  <1>3. CASE ReadLockLoad \/ \E offset \in Pos, size \in 1 .. MaxEnd :
                                 ReadBegin(offset, size)
    BY <1>3, CopyBegins
  <1>4. CASE ReadByte \/ ReadEnd
    BY <1>4, CopyGoesOn, CopyEnds
  <1>5. ASSUME NEW drop \in BOOLEAN, ReadUnlock(drop)
        PROVE  ReadInv'
    BY <1>5, NotReading DEF ReadUnlock, Goto
  <1>6. CASE UpgradeLoad \/ UpgradeMark \/ UpgradeCheck \/ UpgradeFail
    BY <1>6, NotReading
       DEF UpgradeLoad, UpgradeMark, UpgradeCheck, UpgradeFail, Goto
  <1>7. CASE UpgradeRestore \/ UpgradeBit \/ UpgradeClear \/ WriteAlloc
    BY <1>7, NotReading
       DEF UpgradeRestore, UpgradeBit, UpgradeClear, WriteAlloc, Goto
  <1>8. ASSUME NEW i \in Pos, NEW b \in ByteAt(i),
               WriteByte(i, b) \/ OtherStore(i, b)
        PROVE  ReadInv'
    BY <1>8, NotReading, CopyUntouched DEF WriteByte, OtherStore, Goto
  <1>9. CASE WriteUnlockBit \/ WriteUnlockLoad \/ WriteUnlockSet \/ WriteUnlockDrop
    BY <1>9, NotReading
       DEF WriteUnlockBit, WriteUnlockLoad, WriteUnlockSet, WriteUnlockDrop, Goto
  <1>10. CASE Reclaim \/ Advance \/ Evict \/ Abandon \/ OtherBit
    <2>1. CASE Reclaim
      <3>1. ~LockCheck'
        BY <2>1, PosFacts DEF Reclaim, Zeros, LockCheck
      <3> QED
        BY <2>1, <3>1, CopyUntouched DEF Reclaim
    <2>2. CASE Advance \/ Evict \/ Abandon \/ OtherBit
      BY <2>2, CopyUntouched
         DEF Advance, Evict, Abandon, OtherBit, pageVars, LockCheck
    <2> QED
      BY <1>10, <2>1, <2>2
  <1>11. CASE \E drop \in BOOLEAN : ReadUnlock(drop)
    BY <1>5, <1>11, Zenon
  <1>12. CASE \E i \in Pos : \E b \in ByteAt(i) : WriteByte(i, b) \/ OtherStore(i, b)
    BY <1>8, <1>12, Zenon
  <1> QED
    BY <1>1, <1>2, <1>3, <1>4, <1>6, <1>7, <1>9, <1>10, <1>11, <1>12, Zenon
       DEF Next, Step

----------------------------------------------------------------------------
(* Losing a page *)

\* What a caller leaves in a page never reads as lost.
LEMMA NextKindInv ==
    ASSUME TypeInv, KindInv, [Next]_vars
    PROVE  KindInv'
  <1> SUFFICES ASSUME kind # "lazyfree" PROVE KindInv'
    BY DEF KindInv, Next, vars
  <1> USE DEF KindInv, LockCheck, Outside, Goto, pageVars
  <1>1. CASE UNCHANGED vars
    BY <1>1 DEF vars
  <1>2. ASSUME Step, kind' = kind PROVE KindInv'
    <2>1. CASE ReadLockTest
      <3>1. bytes[Last] > 0
        BY <2>1, PosFacts DEF ReadLockTest, TypeInv, TypeOK, Byte
      <3> QED
        BY <1>2, <2>1, <3>1 DEF ReadLockTest
    <2>2. CASE ReadLockLoad \/ ReadByte \/ ReadEnd
      BY <1>2, <2>2 DEF ReadLockLoad, ReadByte, ReadEnd
    <2>3. ASSUME NEW offset \in Pos, NEW size \in 1 .. MaxEnd,
                 ReadBegin(offset, size)
          PROVE  KindInv'
      BY <1>2, <2>3 DEF ReadBegin
    <2>4. ASSUME NEW drop \in BOOLEAN, ReadUnlock(drop)
          PROVE  KindInv'
      BY <1>2, <2>4 DEF ReadUnlock
    <2>5. CASE UpgradeLoad \/ UpgradeMark \/ UpgradeCheck \/ UpgradeFail
      BY <1>2, <2>5 DEF UpgradeLoad, UpgradeMark, UpgradeCheck, UpgradeFail, Store
    <2>6. CASE UpgradeRestore \/ UpgradeBit \/ UpgradeClear \/ WriteAlloc
      BY <1>2, <2>6 DEF UpgradeRestore, UpgradeBit, UpgradeClear, WriteAlloc, Store
    <2>7. ASSUME NEW i \in Pos, NEW b \in ByteAt(i),
                 WriteByte(i, b) \/ OtherStore(i, b)
          PROVE  KindInv'
      BY <1>2, <2>7 DEF WriteByte, OtherStore, Store
    <2>8. CASE WriteUnlockBit \/ WriteUnlockLoad \/ WriteUnlockDrop
      BY <1>2, <2>8 DEF WriteUnlockBit, WriteUnlockLoad, WriteUnlockDrop
    <2>9. CASE WriteUnlockSet
      <3>1. bytes'[Last] > 0 /\ lazy' = FALSE
        BY <2>9, PosFacts, ByteFacts
           DEF WriteUnlockSet, Store, TypeInv, TypeOK
      <3> QED
        BY <1>2, <2>9, <3>1
    <2>10. CASE Reclaim \/ Advance \/ Evict \/ Abandon \/ OtherBit
      BY <1>2, <2>10 DEF Reclaim, Advance, Evict, Abandon, OtherBit
    <2> HIDE DEF KindInv, LockCheck, Outside, Goto, pageVars
    <2>11. CASE \E offset \in Pos, size \in 1 .. MaxEnd : ReadBegin(offset, size)
      BY <2>3, <2>11, Zenon
    <2>12. CASE \E drop \in BOOLEAN : ReadUnlock(drop)
      BY <2>4, <2>12, Zenon
    <2>13. CASE \E i \in Pos : \E b \in ByteAt(i) : WriteByte(i, b) \/ OtherStore(i, b)
      BY <2>7, <2>13, Zenon
    <2> QED
      BY <1>2, <2>1, <2>2, <2>5, <2>6, <2>8, <2>9, <2>10, <2>11, <2>12, <2>13,
         Zenon DEF Step
  <1> QED
    BY <1>1, <1>2 DEF Next

\* A step after which the key's page reads as lost is the kernel's.
LEMMA NextLoses ==
    ASSUME TypeInv, [Next]_vars, ~Lost, Lost'
    PROVE  lazy /\ pc' = pc
  <1> USE DEF Lost, LockCheck, Outside, Goto, pageVars
  <1>1. CASE UNCHANGED vars
    BY <1>1 DEF vars
  <1>2. CASE ReadLockTest \/ ReadLockLoad \/ ReadByte \/ ReadEnd
    <2>1. ReadLockTest => bytes[Last] > 0
      BY PosFacts DEF ReadLockTest, TypeInv, TypeOK, Byte
    <2> QED
      BY <1>2, <2>1 DEF ReadLockTest, ReadLockLoad, ReadByte, ReadEnd
  <1>3. ASSUME NEW offset \in Pos, NEW size \in 1 .. MaxEnd,
               ReadBegin(offset, size)
        PROVE  FALSE
    BY <1>3 DEF ReadBegin
  <1>4. ASSUME NEW drop \in BOOLEAN, ReadUnlock(drop)
        PROVE  FALSE
    BY <1>4 DEF ReadUnlock
  <1>5. CASE UpgradeLoad \/ UpgradeMark \/ UpgradeCheck \/ UpgradeFail
    BY <1>5 DEF UpgradeLoad, UpgradeMark, UpgradeCheck, UpgradeFail
  <1>6. CASE UpgradeRestore \/ UpgradeBit \/ UpgradeClear \/ WriteAlloc
    BY <1>6 DEF UpgradeRestore, UpgradeBit, UpgradeClear, WriteAlloc
  <1>7. ASSUME NEW i \in Pos, NEW b \in ByteAt(i),
               WriteByte(i, b) \/ OtherStore(i, b)
        PROVE  FALSE
    BY <1>7 DEF WriteByte, OtherStore
  <1>8. CASE WriteUnlockBit \/ WriteUnlockLoad \/ WriteUnlockDrop
    BY <1>8 DEF WriteUnlockBit, WriteUnlockLoad, WriteUnlockDrop
  <1>9. CASE WriteUnlockSet
    <2>1. bytes'[Last] > 0
      BY <1>9, PosFacts, ByteFacts DEF WriteUnlockSet, Store, TypeInv, TypeOK
    <2> QED
      BY <2>1
  <1>10. CASE Reclaim
    BY <1>10 DEF Reclaim
  <1>11. CASE Advance \/ Evict \/ Abandon \/ OtherBit
    BY <1>11 DEF Advance, Evict, Abandon, OtherBit
  <1> HIDE DEF Lost, LockCheck, Outside, Goto, pageVars
  <1>12. ~ \E offset \in Pos, size \in 1 .. MaxEnd : ReadBegin(offset, size)
    BY <1>3, Zenon
  <1>13. ~ \E drop \in BOOLEAN : ReadUnlock(drop)
    BY <1>4, Zenon
  <1>14. ~ \E i \in Pos : \E b \in ByteAt(i) : WriteByte(i, b) \/ OtherStore(i, b)
    BY <1>7, Zenon
  <1> QED
    BY <1>1, <1>2, <1>5, <1>6, <1>8, <1>9, <1>10, <1>11, <1>12, <1>13, <1>14,
       Zenon DEF Next, Step

----------------------------------------------------------------------------
(* Theorems *)

\* The page stays a page of bytes, and a copy from it within its end.
LEMMA PageInvariant == Spec => [](TypeInv /\ Intact)
  <1>1. Init => TypeInv /\ Intact
    BY InitType, InitIntact
  <1>2. TypeInv /\ Intact /\ [Next]_vars => (TypeInv /\ Intact)'
    BY NextType, NextIntact
  <1> QED
    BY <1>1, <1>2, PTL DEF Spec

\* Every variable keeps its type: a lock's saved last byte and bit0 split and
\* join into bytes again, a copy never runs past its buffer (bit_from_tail,
\* bit_to_tail, lazyfree_read).
THEOREM PageTypeCorrect == Spec => []TypeOK
  <1>1. TypeInv => TypeOK
    BY DEF TypeInv
  <1> QED
    BY <1>1, PageInvariant, PTL

\* Whatever the kernel and the other callers do between the loads and stores
\* of a write lock, a page that does not read as lost has every byte its
\* writers stored (lazyfree_write_lock, lazyfree_write_unlock).
THEOREM LivePageStaysIntact == Spec => []LivePageIntact
  <1>1. Intact => LivePageIntact
    BY DEF Intact, LiveInv, Matches, LivePageIntact
  <1> QED
    BY <1>1, PageInvariant, PTL

\* A page under a write lock has what was stored to it, and an upgrade that
\* succeeds has taken it from the kernel with no byte lost
\* (lazyfree_write_lock).
THEOREM WritersKeepTheirPage == Spec => []WriterKeepsPage
  <1>1. Intact => WriterKeepsPage
    BY DEF Intact, UpgradeInv, WriteInv, WriterKeepsPage
  <1> QED
    BY <1>1, PageInvariant, PTL

\* A lazyfree_read that returned true delivered the writers' bytes, whatever
\* happened to the page during the copy; one that was to go beyond the page, all
\* but the lowest bit of the last (lazyfree_read's check after its loop).
THEOREM AcceptedReadsAreThePayload == Spec => []AcceptedReadIsPayload
  <1> DEFINE Inv == TypeInv /\ Intact /\ ReadInv
  <1>1. Init => Inv
    <2>1. Init => ReadInv
      BY DEF Init, ReadInv, AcceptedReadIsPayload
    <2> QED
      BY <2>1, InitType, InitIntact
  <1>2. Inv /\ [Next]_vars => Inv'
    BY NextType, NextIntact, NextReadInv
  <1>3. Inv => AcceptedReadIsPayload
    BY DEF ReadInv
  <1> HIDE DEF Inv
  <1> QED
    BY <1>1, <1>2, <1>3, PTL DEF Spec

\* No page is lost where MADV_FREE is not used (cache.c:38, "no MADV_FREE, no
\* lock failures").
THEOREM NoFailuresWithoutMadvFree == Spec => []NoLockFailures
  <1>1. Init => KindInv
    BY DEF Init, KindInv
  <1>2. TypeInv /\ KindInv /\ [Next]_vars => KindInv'
    BY NextKindInv
  <1>3. KindInv => NoLockFailures
    BY DEF KindInv, NoLockFailures, Lost
  <1> QED
    BY <1>1, <1>2, <1>3, PageInvariant, PTL DEF Spec

\* A page only comes to read as lost when the kernel takes it: no caller's
\* store makes its last byte zero (bit_from_tail).
THEOREM OnlyTheKernelLoses == Spec => LossIsReclaim
  <1>1. TypeInv /\ [Next]_vars => [~Lost /\ Lost' => lazy /\ pc' = pc]_vars
    BY NextLoses
  <1> QED
    BY <1>1, PageInvariant, PTL DEF Spec, LossIsReclaim

=============================================================================
