---------------------------- MODULE PageProtocol ----------------------------
(***************************************************************************)
(* One page at the grain of single loads and stores.  A caller reads it in *)
(* place (lazyfree_read), upgrades its read lock with the page's first     *)
(* byte, and moves the lowest bit of the last byte in and out of bit0.     *)
(* The kernel may take the page between any two of these steps, and        *)
(* between the caller's calls, zero-copy reads included, other callers     *)
(* evict the page and write to it.                                         *)
(*                                                                         *)
(* Loads and stores happen in program order: the Makefile compiles with    *)
(* -O0, and the kernel stops the processor before it takes a mapped page.  *)
(***************************************************************************)
EXTENDS Integers, Sequences

CONSTANTS
    PageSize,    \* PAGE_SIZE
    HeadByte,    \* what callers store in the bytes before the last one
    TailByte,    \* and in the last one
    MaxEnd       \* the largest offset + size callers pass to lazyfree_read,
                 \* which nothing keeps to the page

Byte == 0 .. 255
Last == PageSize - 1
Pos  == 0 .. Last

ASSUME PageSizeAssumption == PageSize \in Nat /\ PageSize >= 2
ASSUME ByteAssumption     == HeadByte \subseteq Byte /\ TailByte \subseteq Byte
ASSUME MaxEndAssumption   == MaxEnd \in Nat

VARIABLES
    kind,       \* the page's chunk: "lazyfree", "anon" or "disk"
    bytes,      \* struct discardable_entry
    lazy,       \* MADV_FREE was called, and nothing stored since
    bit0,       \* the page's bit in chunk->bit0
    owned,      \* the page is the one in use for the caller's key
    pc,         \* where the caller is
    tail,       \* lock->tail
    byte0,      \* a byte lazyfree_write_lock or _unlock loaded to store it
    read,       \* the running or last lazyfree_read: offset, size, dest, result
    payload     \* what the writers of the key stored, as far as they did

pageVars == <<bytes, lazy, bit0>>
vars == <<kind, pageVars, owned, pc, tail, byte0, read, payload>>

Unwritten == -1
NoRead == [offset |-> 0, size |-> 0, dest |-> << >>, result |-> "none"]

\* The caller is not inside a function of the cache, and others may be.
Outside == {"idle", "locked", "reading"}

TypeOK ==
    /\ kind \in {"lazyfree", "anon", "disk"}
    /\ bytes \in [Pos -> Byte]
    /\ lazy \in BOOLEAN /\ bit0 \in BOOLEAN /\ owned \in BOOLEAN
    /\ pc \in Outside \cup
              {"tested", "upgrading", "marked", "lost", "checked", "restored",
               "clearing", "upgraded", "writing", "keeping", "setting",
               "exited"}
    /\ tail \in Byte /\ byte0 \in Byte
    /\ read \in [offset : Pos, size : Nat, dest : Seq(Byte),
                 result : {"none", "ok", "failed"}]
    /\ payload \in [Pos -> Byte \cup {Unwritten}]

Zeros == [i \in Pos |-> 0]

Init ==
    /\ kind \in {"lazyfree", "anon", "disk"}
    /\ bytes = Zeros
    /\ lazy = FALSE /\ bit0 = FALSE /\ owned = FALSE
    /\ pc = "idle" /\ tail = 0 /\ byte0 = 0
    /\ read = NoRead
    /\ payload = [i \in Pos |-> Unwritten]

ByteAt(i)    == IF i = Last THEN TailByte ELSE HeadByte
SetBit0(b) == b + 1 - (b % 2)            \* b | 1

\* Mutant: the bit is subtracted, not masked.
ClearBit0Decrement(b) == b - 1

ClearBit0(b) == b - (b % 2)              \* b & ~1

\* bit_to_tail on a copy of the last byte.
BitToTail(b) == IF bit0 THEN b ELSE ClearBit0(b)

Store(i, b) == bytes' = [bytes EXCEPT ![i] = b] /\ lazy' = FALSE

\* LAZYFREE_LOCK_CHECK
LockCheck == bytes[Last] > 0

Goto(label) == pc' = label

----------------------------------------------------------------------------
(* Reading *)

\* lazyfree_read_lock finds the page; its last byte is not zero.
ReadLockTest ==
    /\ pc = "idle" /\ owned
    /\ bytes[Last] # 0
    /\ Goto("tested")
    /\ read' = NoRead
    /\ UNCHANGED <<pageVars, owned, tail, byte0, payload>>

\* It loads the last byte once more, for the lock.
ReadLockLoad ==
    /\ pc = "tested"
    /\ tail' = BitToTail(bytes[Last])
    /\ Goto("locked")
    /\ UNCHANGED <<pageVars, owned, byte0, read, payload>>

\* lazyfree_read up to its loop.
ReadBegin(offset, size) ==
    /\ pc = "locked"
    /\ offset + size <= MaxEnd
    /\ read' = [offset |-> offset, size |-> size, dest |-> << >>,
                result |-> IF LockCheck THEN "none" ELSE "failed"]
    /\ IF LockCheck THEN Goto("reading") ELSE UNCHANGED pc
    /\ UNCHANGED <<pageVars, owned, tail, byte0, payload>>

CopyDone == \/ Len(read.dest) = read.size
            \/ read.offset + Len(read.dest) = PageSize

ReadByte ==
    /\ pc = "reading"
    /\ ~CopyDone
    /\ read' = [read EXCEPT !.dest =
                    Append(@, bytes[read.offset + Len(read.dest)])]
    /\ UNCHANGED <<pageVars, owned, pc, tail, byte0, payload>>

\* Mutant: no check after the loop.
ReadEndUnchecked ==
    /\ pc = "reading"
    /\ CopyDone
    /\ read' = [read EXCEPT
                  !.dest = IF read.offset + read.size = PageSize
                           THEN [@ EXCEPT ![read.size] = tail] ELSE @,
                  !.result = "ok"]
    /\ Goto("locked")
    /\ UNCHANGED <<pageVars, owned, tail, byte0, payload>>

\* Mutant: the last byte is copied from the page.
ReadEndRawTail ==
    /\ pc = "reading"
    /\ CopyDone
    /\ read' = [read EXCEPT !.result = IF LockCheck THEN "ok" ELSE "failed"]
    /\ Goto("locked")
    /\ UNCHANGED <<pageVars, owned, tail, byte0, payload>>

\* After the loop: the last byte comes from the lock, and the page is checked.
ReadEnd ==
    /\ pc = "reading"
    /\ CopyDone
    /\ read' = [read EXCEPT
                  !.dest = IF read.offset + read.size = PageSize
                           THEN [@ EXCEPT ![read.size] = tail] ELSE @,
                  !.result = IF LockCheck THEN "ok" ELSE "failed"]
    /\ Goto("locked")
    /\ UNCHANGED <<pageVars, owned, tail, byte0, payload>>

\* lazyfree_read_unlock.  A dropped page is no longer the key's.
ReadUnlock(drop) ==
    /\ pc = "locked"
    /\ Goto(IF LockCheck THEN "idle" ELSE "exited")
    /\ owned' = (owned /\ ~(LockCheck /\ drop))
    /\ read' = NoRead
    /\ UNCHANGED <<pageVars, tail, byte0, payload>>

----------------------------------------------------------------------------
(* lazyfree_write_lock on a read lock whose page still has its key *)

UpgradeLoad ==
    /\ pc = "locked" /\ owned
    /\ byte0' = bytes[0]
    /\ Goto("upgrading")
    /\ read' = NoRead
    /\ UNCHANGED <<pageVars, owned, tail, payload>>

\* Mutant: the page is only checked, not stored to.
UpgradeMarkNot ==
    /\ pc = "upgrading"
    /\ Goto("marked")
    /\ UNCHANGED <<pageVars, owned, tail, byte0, read, payload>>

UpgradeMark ==
    /\ pc = "upgrading"
    /\ Store(0, 1)
    /\ Goto("marked")
    /\ UNCHANGED <<bit0, owned, tail, byte0, read, payload>>

UpgradeCheck ==
    /\ pc = "marked"
    /\ Goto(IF LockCheck THEN "checked" ELSE "lost")
    /\ UNCHANGED <<pageVars, owned, tail, byte0, read, payload>>

\* The key gets another page.
UpgradeFail ==
    /\ pc = "lost"
    /\ Store(0, 0)
    /\ Goto("idle")
    /\ owned' = FALSE
    /\ UNCHANGED <<bit0, tail, byte0, read, payload>>

UpgradeRestore ==
    /\ pc = "checked"
    /\ Store(0, byte0)
    /\ Goto("restored")
    /\ UNCHANGED <<bit0, owned, tail, byte0, read, payload>>

\* bit_to_tail in the page itself.
UpgradeBit ==
    /\ pc = "restored"
    /\ byte0' = bytes[Last]
    /\ Goto(IF bit0 THEN "upgraded" ELSE "clearing")
    /\ UNCHANGED <<pageVars, owned, tail, read, payload>>

UpgradeClear ==
    /\ pc = "clearing"
    /\ Store(Last, ClearBit0(byte0))
    /\ Goto("upgraded")
    /\ UNCHANGED <<bit0, owned, tail, byte0, read, payload>>

----------------------------------------------------------------------------
(* Writing *)

\* lazyfree_write_alloc takes this page for the key.  It holds what it held.
WriteAlloc ==
    /\ pc = "idle" /\ ~owned
    /\ owned' = TRUE
    /\ Goto("writing")
    /\ payload' = [i \in Pos |-> Unwritten]
    /\ UNCHANGED <<pageVars, tail, byte0, read>>

\* The caller stores a byte.
WriteByte(i, b) ==
    /\ pc \in {"upgraded", "writing"}
    /\ Store(i, b)
    /\ payload' = [payload EXCEPT ![i] = b]
    /\ Goto("writing")
    /\ UNCHANGED <<bit0, owned, tail, byte0, read>>

\* Mutant: the bit is taken after it was set.
WriteUnlockBitLate ==
    /\ pc \in {"upgraded", "writing"}
    /\ bit0' = TRUE
    /\ Goto("keeping")
    /\ UNCHANGED <<bytes, lazy, owned, tail, byte0, read, payload>>

\* lazyfree_write_unlock: bit_from_tail keeps the lowest bit ...
WriteUnlockBit ==
    /\ pc \in {"upgraded", "writing"}
    /\ bit0' = (bytes[Last] % 2 = 1)
    /\ Goto("keeping")
    /\ UNCHANGED <<bytes, lazy, owned, tail, byte0, read, payload>>

\* ... and sets it in the page, whose last byte is loaded again.
WriteUnlockLoad ==
    /\ pc = "keeping"
    /\ byte0' = bytes[Last]
    /\ Goto("setting")
    /\ UNCHANGED <<pageVars, owned, tail, read, payload>>

\* Mutant: the lowest bit is left as it is.
WriteUnlockSetNot ==
    /\ pc = "setting"
    /\ Goto("idle")
    /\ UNCHANGED <<pageVars, owned, tail, byte0, read, payload>>

WriteUnlockSet ==
    /\ pc = "setting"
    /\ Store(Last, SetBit0(byte0))
    /\ Goto("idle")
    /\ UNCHANGED <<bit0, owned, tail, byte0, read, payload>>

\* lazyfree_write_unlock(drop = true)
WriteUnlockDrop ==
    /\ pc \in {"upgraded", "writing"}
    /\ owned' = FALSE
    /\ Goto("idle")
    /\ UNCHANGED <<pageVars, tail, byte0, read, payload>>

----------------------------------------------------------------------------
(* The kernel, and other callers *)

Reclaim ==
    /\ lazy
    /\ bytes' = Zeros
    /\ lazy' = FALSE
    /\ UNCHANGED <<bit0, owned, pc, tail, byte0, read, payload>>

\* Another caller's allocation finds the page's chunk full.
Advance ==
    /\ pc \in Outside /\ kind = "lazyfree"
    /\ lazy' = TRUE
    /\ UNCHANGED <<bytes, bit0, owned, pc, tail, byte0, read, payload>>

\* Another caller's allocation evicts the page's chunk: MADV_DONTNEED.
Evict ==
    /\ pc \in Outside
    /\ owned' = FALSE
    /\ \/ kind = "disk" /\ UNCHANGED <<bytes, lazy>>
       \/ kind # "disk" /\ bytes' = Zeros /\ lazy' = FALSE
    /\ UNCHANGED <<bit0, pc, tail, byte0, read, payload>>

\* The key is given another page, by a write lock taken without a read lock.
Abandon ==
    /\ pc = "idle"
    /\ owned' = FALSE
    /\ UNCHANGED <<pageVars, pc, tail, byte0, read, payload>>

\* Another caller has the page by now, and writes to it.
OtherStore(i, b) ==
    /\ pc \in Outside /\ ~owned
    /\ Store(i, b)
    /\ UNCHANGED <<bit0, owned, pc, tail, byte0, read, payload>>

\* And leaves its own bit there.
OtherBit ==
    /\ pc \in Outside /\ ~owned
    /\ bit0' = ~bit0
    /\ UNCHANGED <<bytes, lazy, owned, pc, tail, byte0, read, payload>>

Step ==
    \/ ReadLockTest \/ ReadLockLoad
    \/ \E offset \in Pos, size \in 1 .. MaxEnd : ReadBegin(offset, size)
    \/ ReadByte \/ ReadEnd
    \/ \E drop \in BOOLEAN : ReadUnlock(drop)
    \/ UpgradeLoad \/ UpgradeMark \/ UpgradeCheck \/ UpgradeFail
    \/ UpgradeRestore \/ UpgradeBit \/ UpgradeClear
    \/ WriteAlloc
    \/ \E i \in Pos : \E b \in ByteAt(i) : WriteByte(i, b) \/ OtherStore(i, b)
    \/ WriteUnlockBit \/ WriteUnlockLoad \/ WriteUnlockSet \/ WriteUnlockDrop
    \/ Reclaim \/ Advance \/ Evict \/ Abandon \/ OtherBit

Next == Step /\ UNCHANGED kind

Spec == Init /\ [][Next]_vars

----------------------------------------------------------------------------
(* Properties *)

\* A page outside a write lock that does not read as lost yields every byte
\* its writers stored, the lowest bit of the last one from bit0
\* (bit_from_tail, bit_to_tail).
LivePageIntact ==
    owned /\ pc \in Outside /\ LockCheck =>
        \A i \in Pos : payload[i] # Unwritten =>
            payload[i] = IF i = Last THEN BitToTail(bytes[i]) ELSE bytes[i]

\* Byte i of the destination is the writers', if they stored it.
Delivers(i) == payload[read.offset + i - 1] \in {Unwritten, read.dest[i]}

\* It is so but for the bit that is kept in bit0.
DeliversTop(i) == LET p == payload[read.offset + i - 1]
                  IN  p = Unwritten \/ SetBit0(p) = SetBit0(read.dest[i])

\* A lazyfree_read that returned true, on a lock lazyfree_read_unlock still
\* accepts, delivered what the writers stored: no byte of a page taken, or
\* written by another caller, in the middle of the copy.  One that was asked
\* to read beyond the page has its last byte from the page and not from the
\* lock: the lowest bit of it may be wrong, and nothing else (cache.h:84).
AcceptedReadIsPayload ==
    pc = "locked" /\ owned /\ read.result = "ok" =>
        \A i \in 1 .. Len(read.dest) :
            \/ Delivers(i)
            \/ /\ read.offset + read.size > PageSize
               /\ read.offset + i - 1 = Last
               /\ DeliversTop(i)

\* The page under a write lock holds what was stored to it, and an upgrade
\* ends with the page out of the kernel's reach, no byte of it lost
\* (lazyfree_write_lock, "Use first byte to lock the page").
WriterKeepsPage ==
    /\ pc \in {"upgraded", "writing", "keeping", "setting"} =>
           \A i \in Pos : payload[i] \in {Unwritten, bytes[i]}
    /\ pc = "upgraded" => ~lazy

\* Only the kernel makes a page of the key read as lost: a caller that stores
\* zeros does not (bit_from_tail).
Lost == owned /\ pc \in Outside \cup {"tested"} /\ ~LockCheck
LossIsReclaim == [][~Lost /\ Lost' => lazy /\ pc' = pc]_vars

\* A page that is not under MADV_FREE is never lost while it is its key's
\* (cache.c:38, "no MADV_FREE, no lock failures").
NoLockFailures == kind # "lazyfree" => ~Lost

=============================================================================
