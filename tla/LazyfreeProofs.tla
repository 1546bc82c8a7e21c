--------------------------- MODULE LazyfreeProofs ---------------------------
(***************************************************************************)
(* Types and safety of the cache, for every size of the cache and any      *)
(* number of callers: the free lists, the owners of the pages, the hash    *)
(* map, the locks and the count of free pages stay consistent.  A chunk is *)
(* evicted when and only when the cache is full, and no free list          *)
(* overruns.  The cache implements DiscardableMap.                         *)
(*                                                                         *)
(* Two conditions are needed beyond the types, and both are real: 0 is not *)
(* among the keys and the index of a page fits into _index.  The runs      *)
(* drop_of_key_zero and upgrade_of_large_index show what happens without.  *)
(***************************************************************************)
EXTENDS LazyfreeImplementsMap, LazyfreeClaims,
        FiniteSetTheorems, FunctionTheorems, SequenceTheorems, TLAPS

----------------------------------------------------------------------------
(* Pages and bytes *)

\* A page is a pair of a chunk and an index, and none of the special values.
LEMMA SlotFacts ==
    /\ \A s \in Slot : s[1] \in Chunk /\ s[2] \in Page /\ s = <<s[1], s[2]>>
    /\ \A c \in Chunk, p \in Page : <<c, p>> \in Slot
    /\ EMPTY_DESC \notin Slot /\ NULL \notin Slot /\ EMPTY_PAGE \notin Slot
    /\ NULL # EMPTY_PAGE /\ NULL = EMPTY_DESC
  BY ChunksAssumption, PagesAssumption
     DEF Slot, Chunk, Page, EMPTY_DESC, NULL, EMPTY_PAGE

\* Moving the lowest bit in and out keeps a byte a byte.
LEMMA ByteFacts ==
    /\ 0 \in Byte
    /\ \A b \in Byte : SetBit0(b) \in Byte /\ ClearBit0(b) \in Byte
  BY DEF Byte, SetBit0, ClearBit0

\* Setting the lowest bit, with bit0 to tell what it was, loses nothing.
LEMMA Bit0RoundTrip ==
    ASSUME NEW b \in Byte
    PROVE  /\ SetBit0(b) > 0
           /\ (IF b % 2 = 1 THEN SetBit0(b) ELSE ClearBit0(SetBit0(b))) = b
  BY DEF Byte, SetBit0, ClearBit0

\* _index keeps a prefix of the indices.
LEMMA IndexFacts ==
    \A p \in Page : /\ p % IndexRange \in Page
                    /\ PagesPerChunk <= IndexRange => p % IndexRange = p
  BY PagesAssumption, IndexRangeAssumption DEF Page

\* The payload's last byte is a byte.
LEMMA PayloadTailType ==
    ASSUME TypeOK, NEW s \in Slot
    PROVE  PayloadTail(s) \in Byte
  BY ByteFacts DEF TypeOK, MemTypeOK, PayloadTail

----------------------------------------------------------------------------
(* Types *)

\* A lock in use is for a key; a read lock's head is never NULL (the
\* assertion lazyfree_cache.c:339).
LocksWellFormed ==
    \A h \in Handle :
        /\ locks[h].mode # "idle" => locks[h].key \in Key
        /\ locks[h].mode = "read" => locks[h].head # NULL

TypeInv == TypeOK /\ LocksWellFormed

\* The types and the locks' shape hold of a new cache.
LEMMA InitTypeInv == Init => TypeInv
  <1> SUFFICES ASSUME Init PROVE TypeInv
    OBVIOUS
  <1>1. MemTypeOK
    <2>1. {0} \cup LeftoverBytes \subseteq Byte
      BY LeftoverAssumption DEF Byte
    <2>2. entries \in [Slot -> {0} \cup LeftoverBytes]
      BY DEF Init, MemInit
    <2>3. entries \in [Slot -> Byte]
      BY <2>1, <2>2
    <2>4. lazy \in [Slot -> BOOLEAN]
      BY DEF Init, MemInit
    <2> QED
      BY <2>3, <2>4 DEF MemTypeOK
  <1>2. free_pages \in [Chunk -> Seq(Page)] /\ len \in [Chunk -> 0 .. PagesPerChunk]
    BY PagesAssumption DEF Init
  <1>3. current_chunk_idx \in Chunk /\ total_free_pages \in Int
    <2>1. NumChunks \in Nat \ {0}
      BY ChunksAssumption
    <2> QED
      BY <2>1, PagesAssumption DEF Init, Chunk
  <1>4. Idle \in Lock
    BY ByteFacts DEF Idle, Lock
  <1>5. LocksWellFormed
    BY DEF Init, LocksWellFormed, Idle, Lock
  <1> QED
    BY <1>1, <1>2, <1>3, <1>4, <1>5 DEF Init, TypeInv, TypeOK

\* The page of a lock that passes the checks is a page.
LEMMA ValidHead ==
    ASSUME TypeInv, NEW h \in Handle, LockValid(h)
    PROVE  locks[h].head \in Slot /\ locks[h].key \in Key
  BY SlotFacts DEF TypeInv, TypeOK, LocksWellFormed, LockValid, Lock

\* lazyfree_read_lock.
LEMMA ReadLockType ==
    ASSUME TypeInv, NEW h \in Handle, NEW k \in Key, ReadLock(h, k)
    PROVE  TypeInv'
  BY SlotFacts, ByteFacts, PayloadTailType
     DEF ReadLock, TypeInv, TypeOK, MemTypeOK, LocksWellFormed, memVars, cacheVars, Lock

\* A lock that is given up.
LEMMA IdleType ==
    ASSUME TypeInv, NEW h \in Handle, locks' = [locks EXCEPT ![h] = Idle],
           UNCHANGED <<memVars, cacheVars, exited>>
    PROVE  TypeInv'
  BY ByteFacts DEF TypeInv, TypeOK, MemTypeOK, LocksWellFormed, memVars, cacheVars, Idle, Lock, NULL

\* exit(1) leaves all but the reason.
LEMMA ExitType ==
    ASSUME TypeInv, NEW m \in {"LOCK CHECK FAILED", "free list overrun", "Failed to find free page"}, Exit(m)
    PROVE  TypeInv'
  BY DEF TypeInv, TypeOK, MemTypeOK, LocksWellFormed, memVars, cacheVars, Exit

\* cache_drop puts the page on its chunk's free list.
LEMMA CacheDropType ==
    ASSUME TypeOK, NEW s \in Slot, CacheDrop(s)
    PROVE  /\ keys' \in [Slot -> Key \cup {ZeroKey}]
           /\ bit0' \in [Slot -> BOOLEAN]
           /\ free_pages' \in [Chunk -> Seq(Page)]
           /\ len' \in [Chunk -> 0 .. PagesPerChunk]
           /\ current_chunk_idx' \in Chunk
           /\ map' \in [Key -> Slot \cup {EMPTY_DESC}]
           /\ total_free_pages' \in Int
  <1>1. s[1] \in Chunk /\ s[2] \in Page
    BY SlotFacts
  <1>2. free_pages[s[1]] \in Seq(Page)
    BY <1>1 DEF TypeOK
  <1>3. Append(free_pages[s[1]], s[2]) \in Seq(Page)
    BY <1>1, <1>2
  <1>4. free_pages' \in [Chunk -> Seq(Page)]
    BY <1>3 DEF TypeOK, CacheDrop
  <1>5. map' \in [Key -> Slot \cup {EMPTY_DESC}]
    BY DEF TypeOK, CacheDrop, HmapRemove
  <1>6. keys' \in [Slot -> Key \cup {ZeroKey}]
    BY DEF TypeOK, CacheDrop
  <1>7. total_free_pages' \in Int
    <2>1. total_free_pages \in Int
      BY DEF TypeOK
    <2>2. total_free_pages' = total_free_pages + 1
      BY DEF CacheDrop
    <2> QED
      BY <2>1, <2>2
  <1> QED
    BY <1>4, <1>5, <1>6, <1>7 DEF TypeOK, CacheDrop

\* lazyfree_read_unlock with drop.
LEMMA ReadUnlockDropType ==
    ASSUME TypeInv, NEW h \in Handle, ReadUnlockDrop(h)
    PROVE  TypeInv'
  <1> DEFINE s == locks[h].head
  <1>1. s \in Slot
    BY ValidHead DEF ReadUnlockDrop
  <1>2. CASE Exit("free list overrun")
    BY <1>2, ExitType
  <1>3. CASE /\ CacheDrop(s)
             /\ locks' = [locks EXCEPT ![h] = Idle]
             /\ UNCHANGED <<memVars, wlock, exited>>
    <2>1. TypeOK
      BY DEF TypeInv
    <2>2. locks' \in [Handle -> Lock]
      BY <1>3, <2>1, ByteFacts DEF TypeOK, Idle, Lock
    <2>3. LocksWellFormed'
      BY <1>3, <2>1 DEF TypeInv, LocksWellFormed, TypeOK, Idle, Lock
    <2>4. MemTypeOK' /\ wlock' \in Slot \cup {EMPTY_DESC}
          /\ exited' \in {"no", "LOCK CHECK FAILED", "free list overrun", "Failed to find free page"}
      BY <1>3, <2>1 DEF TypeOK, MemTypeOK, memVars
    <2> HIDE DEF s
    <2>5. /\ keys' \in [Slot -> Key \cup {ZeroKey}]
          /\ bit0' \in [Slot -> BOOLEAN]
          /\ free_pages' \in [Chunk -> Seq(Page)]
          /\ len' \in [Chunk -> 0 .. PagesPerChunk]
          /\ current_chunk_idx' \in Chunk
          /\ map' \in [Key -> Slot \cup {EMPTY_DESC}]
          /\ total_free_pages' \in Int
      BY <1>1, <1>3, <2>1, CacheDropType
    <2> QED
      BY <2>2, <2>3, <2>4, <2>5 DEF TypeInv, TypeOK
  <1> QED
    BY <1>2, <1>3 DEF ReadUnlockDrop

\* alloc_new_page and the end of lazyfree_write_alloc, for a key k.
AllocType(k) ==
    /\ MemTypeOK'
    /\ keys' \in [Slot -> Key \cup {ZeroKey}]
    /\ bit0' \in [Slot -> BOOLEAN]
    /\ free_pages' \in [Chunk -> Seq(Page)]
    /\ len' \in [Chunk -> 0 .. PagesPerChunk]
    /\ current_chunk_idx' \in Chunk
    /\ map' \in [Key -> Slot \cup {EMPTY_DESC}]
    /\ total_free_pages' \in Int
    /\ wlock' \in Slot

\* A page gets a key, and the hash map leads to it.
LEMMA TakePageType ==
    ASSUME TypeOK, NEW k \in Key, NEW s \in Slot,
           NEW m \in [Key -> Slot \cup {EMPTY_DESC}],
           NEW ks \in [Slot -> Key \cup {ZeroKey}],
           TakePage(s, k, m, ks)
    PROVE  /\ wlock' \in Slot
           /\ map' \in [Key -> Slot \cup {EMPTY_DESC}]
           /\ keys' \in [Slot -> Key \cup {ZeroKey}]
  BY DEF TakePage

\* The chunk a search from the current one arrives at.
LEMMA AheadType ==
    ASSUME TypeOK, NEW n \in Nat
    PROVE  Ahead(n) \in Chunk
  <1>1. NumChunks \in Nat \ {0}
    BY ChunksAssumption
  <1>2. current_chunk_idx \in 0 .. NumChunks - 1
    BY DEF TypeOK, Chunk
  <1>3. (current_chunk_idx + n) % NumChunks \in 0 .. NumChunks - 1
    BY <1>1, <1>2
  <1> QED
    BY <1>3 DEF Ahead, Chunk

\* madvise for the chunks that were passed over.
LEMMA MadvImplType ==
    ASSUME TypeOK, NEW C, MadvImpl(C), UNCHANGED entries
    PROVE  MemTypeOK'
  BY DEF TypeOK, MemTypeOK, MadvImpl

\* The page popped from a chunk's free list.
LEMMA PopType ==
    ASSUME TypeOK, NEW c \in Chunk, Len(free_pages[c]) > 0
    PROVE  /\ free_pages[c][Len(free_pages[c])] \in Page
           /\ SubSeq(free_pages[c], 1, Len(free_pages[c]) - 1) \in Seq(Page)
  <1>1. free_pages[c] \in Seq(Page)
    BY DEF TypeOK
  <1> QED
    BY <1>1

\* alloc_new_page without an eviction.
LEMMA AllocNextType ==
    ASSUME TypeOK, NEW k \in Key, AllocNext(k)
    PROVE  AllocType(k)
  <1>1. PICK n \in 0 .. NumChunks - 1 :
          LET c == Ahead(n)
          IN  /\ Available(c)
              /\ MadvImpl({Ahead(m) : m \in 0 .. n - 1})
              /\ current_chunk_idx' = c
              /\ \/ LET last == Len(free_pages[c])
                    IN  /\ last > 0
                        /\ free_pages' = [free_pages EXCEPT
                                              ![c] = SubSeq(@, 1, last - 1)]
                        /\ TakePage(<<c, free_pages[c][last]>>, k, map, keys)
                        /\ UNCHANGED len
                 \/ /\ free_pages[c] = << >>
                    /\ len' = [len EXCEPT ![c] = @ + 1]
                    /\ TakePage(<<c, len[c]>>, k, map, keys)
                    /\ UNCHANGED free_pages
    BY DEF AllocNext
  <1> DEFINE c == Ahead(n)
             last == Len(free_pages[c])
  <1>2. c \in Chunk
    BY AheadType
  <1>3. MemTypeOK'
    BY <1>1, MadvImplType DEF AllocNext
  <1>4. bit0' \in [Slot -> BOOLEAN]
    BY DEF AllocNext, TypeOK
  <1>5. total_free_pages' \in Int
    <2>1. total_free_pages \in Int /\ total_free_pages' = total_free_pages - 1
      BY DEF AllocNext, TypeOK
    <2> QED
      BY <2>1
  <1>6. current_chunk_idx' \in Chunk
    BY <1>1, <1>2
  <1> HIDE DEF c
  <1>7. CASE /\ last > 0
             /\ free_pages' = [free_pages EXCEPT ![c] = SubSeq(@, 1, last - 1)]
             /\ TakePage(<<c, free_pages[c][last]>>, k, map, keys)
             /\ UNCHANGED len
    <2>1. /\ free_pages[c][last] \in Page
          /\ SubSeq(free_pages[c], 1, last - 1) \in Seq(Page)
      BY <1>2, <1>7, PopType
    <2>2. free_pages' \in [Chunk -> Seq(Page)]
      BY <1>7, <2>1 DEF TypeOK
    <2>3. <<c, free_pages[c][last]>> \in Slot
      BY <1>2, <2>1, SlotFacts
    <2>4. len' \in [Chunk -> 0 .. PagesPerChunk]
      BY <1>7 DEF TypeOK
    <2>5. map \in [Key -> Slot \cup {EMPTY_DESC}] /\ keys \in [Slot -> Key \cup {ZeroKey}]
      BY DEF TypeOK
    <2> QED
      BY <1>3, <1>4, <1>5, <1>6, <1>7, <2>2, <2>3, <2>4, <2>5, TakePageType DEF AllocType
  <1>8. CASE /\ free_pages[c] = << >>
             /\ len' = [len EXCEPT ![c] = @ + 1]
             /\ TakePage(<<c, len[c]>>, k, map, keys)
             /\ UNCHANGED free_pages
    <2>1. len[c] \in 0 .. PagesPerChunk /\ len[c] < PagesPerChunk
      BY <1>1, <1>2, <1>8 DEF TypeOK, Available, c
    <2>2. <<c, len[c]>> \in Slot
      BY <1>2, <2>1, PagesAssumption, SlotFacts DEF Page
    <2>3. len[c] + 1 \in 0 .. PagesPerChunk
      BY <2>1, PagesAssumption
    <2>4. len' \in [Chunk -> 0 .. PagesPerChunk]
      BY <1>8, <2>3 DEF TypeOK
    <2>5. free_pages' \in [Chunk -> Seq(Page)]
      BY <1>8 DEF TypeOK
    <2>6. map \in [Key -> Slot \cup {EMPTY_DESC}] /\ keys \in [Slot -> Key \cup {ZeroKey}]
      BY DEF TypeOK
    <2> QED
      BY <1>3, <1>4, <1>5, <1>6, <1>8, <2>2, <2>4, <2>5, <2>6, TakePageType DEF AllocType
  <1> QED
    BY <1>1, <1>7, <1>8 DEF c

\* alloc_new_page that evicts a chunk first.
LEMMA AllocEvictingType ==
    ASSUME TypeOK, NEW k \in Key, AllocEvicting(k)
    PROVE  AllocType(k)
  <1>1. PICK c \in Chunk :
          LET dropped == {s \in Slot : s[1] = c /\ s[2] < len[c]}
          IN  /\ MadvDontneed(c)
              /\ TakePage(<<c, 0>>, k, HmapRemove({keys[s] : s \in dropped}),
                          [s \in Slot |-> IF s \in dropped THEN ZeroKey ELSE keys[s]])
              /\ total_free_pages' =
                     total_free_pages + (len[c] - Len(free_pages[c])) - 1
              /\ len' = [len EXCEPT ![c] = 1]
              /\ free_pages' = [free_pages EXCEPT ![c] = << >>]
              /\ current_chunk_idx' = c
    BY DEF AllocEvicting
  <1> DEFINE dropped == {s \in Slot : s[1] = c /\ s[2] < len[c]}
             m  == HmapRemove({keys[s] : s \in dropped})
             ks == [s \in Slot |-> IF s \in dropped THEN ZeroKey ELSE keys[s]]
  <1>2. MemTypeOK'
    BY <1>1, ByteFacts DEF TypeOK, MemTypeOK, MadvDontneed
  <1>3. m \in [Key -> Slot \cup {EMPTY_DESC}]
    BY DEF HmapRemove, TypeOK
  <1>4. ks \in [Slot -> Key \cup {ZeroKey}]
    BY DEF TypeOK
  <1>5. <<c, 0>> \in Slot
    BY PagesAssumption, SlotFacts DEF Page
  <1>6. TakePage(<<c, 0>>, k, m, ks)
    BY <1>1
  <1>7. total_free_pages' \in Int
    <2>1. total_free_pages \in Int /\ len[c] \in 0 .. PagesPerChunk
      BY DEF TypeOK
    <2>2. free_pages[c] \in Seq(Page)
      BY DEF TypeOK
    <2>3. Len(free_pages[c]) \in Nat
      BY <2>2
    <2>4. total_free_pages' = total_free_pages + (len[c] - Len(free_pages[c])) - 1
      BY <1>1
    <2> QED
      BY <2>1, <2>3, <2>4
  <1>8. len' \in [Chunk -> 0 .. PagesPerChunk]
    <2>1. 1 \in 0 .. PagesPerChunk
      BY PagesAssumption
    <2> QED
      BY <1>1, <2>1 DEF TypeOK
  <1>9. free_pages' \in [Chunk -> Seq(Page)] /\ current_chunk_idx' \in Chunk
    <2>1. << >> \in Seq(Page)
      OBVIOUS
    <2> QED
      BY <1>1, <2>1 DEF TypeOK
  <1>10. bit0' \in [Slot -> BOOLEAN]
    BY DEF AllocEvicting, TypeOK
  <1> HIDE DEF m, ks
  <1> QED
    BY <1>2, <1>3, <1>4, <1>5, <1>6, <1>7, <1>8, <1>9, <1>10, TakePageType DEF AllocType

\* lazyfree_write_lock that takes a new page.
LEMMA WriteAllocType ==
    ASSUME TypeInv, NEW h \in Handle, NEW k \in Key,
           NEW head \in {NULL, EMPTY_PAGE}, WriteAlloc(h, k, head)
    PROVE  TypeInv'
  <1>0. CASE AllocFails
    BY <1>0, ExitType DEF AllocFails
  <1> SUFFICES ASSUME ~AllocFails PROVE TypeInv'
    BY <1>0
  <1>1. AllocType(k)
    BY AllocNextType, AllocEvictingType DEF WriteAlloc, TypeInv
  <1>2. exited' = exited
    BY DEF WriteAlloc, AllocNext, AllocEvicting
  <1>3. locks' = [locks EXCEPT ![h] = [mode |-> "write", key |-> k,
                                       head |-> head, tail |-> @.tail]]
    BY DEF WriteAlloc
  <1>4. locks' \in [Handle -> Lock]
    BY <1>3 DEF TypeInv, TypeOK, Lock
  <1>5. LocksWellFormed'
    BY <1>3 DEF TypeInv, TypeOK, LocksWellFormed
  <1> QED
    BY <1>1, <1>2, <1>4, <1>5 DEF TypeInv, TypeOK, AllocType

\* lazyfree_write_lock over a valid read lock.
LEMMA WriteLockUpgradeType ==
    ASSUME TypeInv, NEW h \in Handle, WriteLockUpgrade(h)
    PROVE  TypeInv'
  <1> DEFINE page == locks[h].head
             w    == <<page[1], page[2] % IndexRange>>
  <1>1. page \in Slot
    BY ValidHead DEF WriteLockUpgrade
  <1>2. w \in Slot
    BY <1>1, SlotFacts, IndexFacts
  <1>3. PayloadTail(w) \in Byte
    BY <1>2, PayloadTailType DEF TypeInv
  <1>4. /\ wlock' = w
        /\ entries' = [entries EXCEPT ![w] = PayloadTail(w)]
        /\ lazy' = [s \in Slot |-> lazy[s] /\ s # page /\ (s = w => bit0[w])]
        /\ locks' = [locks EXCEPT ![h].mode = "write"]
    BY DEF WriteLockUpgrade
  <1> HIDE DEF w
  <1>5. MemTypeOK'
    BY <1>2, <1>3, <1>4 DEF MemTypeOK, TypeOK, TypeInv
  <1>6. locks' \in [Handle -> Lock]
    BY <1>4 DEF TypeInv, TypeOK, Lock
  <1>7. LocksWellFormed'
    <2>1. locks[h].key \in Key /\ locks[h].mode = "read"
      BY ValidHead DEF WriteLockUpgrade, LockValid
    <2>2. locks \in [Handle -> Lock]
      BY DEF TypeInv, TypeOK
    <2>3. locks'[h].mode = "write" /\ locks'[h].key = locks[h].key
      BY <1>4, <2>2
    <2>4. \A g \in Handle \ {h} : locks'[g] = locks[g]
      BY <1>4, <2>2
    <2> QED
      BY <2>1, <2>3, <2>4 DEF TypeInv, LocksWellFormed
  <1> QED
    BY <1>2, <1>4, <1>5, <1>6, <1>7 DEF WriteLockUpgrade, TypeInv, TypeOK

\* A store to a page.
LEMMA StoreTailType ==
    ASSUME MemTypeOK, NEW s \in Slot, NEW b \in Byte, StoreTail(s, b)
    PROVE  MemTypeOK'
  BY DEF MemTypeOK, StoreTail

\* Releasing the write lock resets its handle.
LEMMA ReleaseWriterType ==
    ASSUME TypeInv, ReleaseWriter
    PROVE  /\ locks' \in [Handle -> Lock]
           /\ LocksWellFormed'
  BY ByteFacts DEF TypeInv, TypeOK, LocksWellFormed, ReleaseWriter, Idle, Lock

\* A write between lazyfree_write_lock and its unlock.
LEMMA WritePageType ==
    ASSUME TypeInv, NEW v \in TailValue, WritePage(v)
    PROVE  TypeInv'
  <1>1. v \in Byte /\ wlock \in Slot
    BY TailAssumption DEF WritePage, TypeInv, TypeOK
  <1>2. MemTypeOK'
    BY <1>1, StoreTailType DEF WritePage, TypeInv, TypeOK
  <1> QED
    BY <1>2 DEF WritePage, TypeInv, TypeOK, LocksWellFormed, cacheVars

\* lazyfree_write_unlock.
LEMMA WriteUnlockKeepType ==
    ASSUME TypeInv, WriteUnlockKeep
    PROVE  TypeInv'
  <1>1. wlock \in Slot /\ entries[wlock] \in Byte
    BY DEF WriteUnlockKeep, TypeInv, TypeOK, MemTypeOK
  <1>2. MemTypeOK'
    BY <1>1, ByteFacts, StoreTailType DEF WriteUnlockKeep, TypeInv, TypeOK
  <1>3. bit0' \in [Slot -> BOOLEAN]
    BY DEF WriteUnlockKeep, TypeInv, TypeOK
  <1>4. wlock' \in Slot \cup {EMPTY_DESC}
    BY DEF WriteUnlockKeep
  <1> QED
    BY <1>2, <1>3, <1>4, ReleaseWriterType DEF WriteUnlockKeep, TypeInv, TypeOK

\* lazyfree_write_unlock with drop.
LEMMA WriteUnlockDropType ==
    ASSUME TypeInv, WriteUnlockDrop
    PROVE  TypeInv'
  <1>1. CASE Exit("free list overrun")
    BY <1>1, ExitType
  <1>2. CASE /\ CacheDrop(wlock)
             /\ wlock' = EMPTY_DESC
             /\ ReleaseWriter
             /\ UNCHANGED <<memVars, exited>>
    <2>1. wlock \in Slot /\ TypeOK
      BY DEF WriteUnlockDrop, TypeInv, TypeOK
    <2>2. /\ keys' \in [Slot -> Key \cup {ZeroKey}]
          /\ bit0' \in [Slot -> BOOLEAN]
          /\ free_pages' \in [Chunk -> Seq(Page)]
          /\ len' \in [Chunk -> 0 .. PagesPerChunk]
          /\ current_chunk_idx' \in Chunk
          /\ map' \in [Key -> Slot \cup {EMPTY_DESC}]
          /\ total_free_pages' \in Int
      BY <1>2, <2>1, CacheDropType
    <2>3. /\ locks' \in [Handle -> Lock]
          /\ LocksWellFormed'
      BY <1>2, ReleaseWriterType
    <2>4. MemTypeOK' /\ wlock' \in Slot \cup {EMPTY_DESC}
          /\ exited' \in {"no", "LOCK CHECK FAILED", "free list overrun", "Failed to find free page"}
      BY <1>2, <2>1 DEF TypeOK, MemTypeOK, memVars
    <2> QED
      BY <2>2, <2>3, <2>4 DEF TypeInv, TypeOK
  <1> QED
    BY <1>1, <1>2 DEF WriteUnlockDrop

\* The kernel takes a page.
LEMMA KernelReclaimType ==
    ASSUME TypeInv, NEW s \in Slot, KernelReclaim(s)
    PROVE  TypeInv'
  <1>1. MemTypeOK'
    BY ByteFacts DEF KernelReclaim, Reclaim, TypeInv, TypeOK, MemTypeOK
  <1> QED
    BY <1>1 DEF KernelReclaim, TypeInv, TypeOK, LocksWellFormed, cacheVars

\* Every step keeps the types and the locks' shape.
LEMMA NextTypeInv == TypeInv /\ [Next]_vars => TypeInv'
  <1> SUFFICES ASSUME TypeInv, [Next]_vars PROVE TypeInv'
    OBVIOUS
  <1>1. CASE UNCHANGED vars
    BY <1>1 DEF vars, memVars, cacheVars, TypeInv, TypeOK, MemTypeOK, LocksWellFormed
  <1>2. ASSUME NEW h \in Handle, NEW k \in Key, ReadLock(h, k) \/ WriteLockNew(h, k)
        PROVE  TypeInv'
    BY <1>2, ReadLockType, WriteAllocType DEF WriteLockNew
  <1>3. ASSUME NEW h \in Handle,
               ReadUnlockInvalid(h) \/ ReadUnlockExits(h) \/ ReadUnlockKeep(h)
        PROVE  TypeInv'
    BY <1>3, IdleType, ExitType DEF ReadUnlockInvalid, ReadUnlockExits, ReadUnlockKeep
  <1>4. ASSUME NEW h \in Handle, ReadUnlockDrop(h)
        PROVE  TypeInv'
    BY <1>4, ReadUnlockDropType
  <1>5. ASSUME NEW h \in Handle, WriteLockMiss(h) \/ WriteLockLost(h)
        PROVE  TypeInv'
    <2>1. locks[h].key \in Key
      BY <1>5 DEF WriteLockMiss, WriteLockLost, TypeInv, LocksWellFormed
    <2> QED
      BY <1>5, <2>1, WriteAllocType DEF WriteLockMiss, WriteLockLost
  <1>6. ASSUME NEW h \in Handle, WriteLockUpgrade(h)
        PROVE  TypeInv'
    BY <1>6, WriteLockUpgradeType
  <1>7. ASSUME NEW v \in TailValue, WritePage(v)
        PROVE  TypeInv'
    BY <1>7, WritePageType
  <1>8. CASE WriteUnlockKeep \/ WriteUnlockDrop
    BY <1>8, WriteUnlockKeepType, WriteUnlockDropType
  <1>9. ASSUME NEW s \in Slot, KernelReclaim(s)
        PROVE  TypeInv'
    BY <1>9, KernelReclaimType
  <1> QED
    BY <1>1, <1>2, <1>3, <1>4, <1>5, <1>6, <1>7, <1>8, <1>9 DEF Next, Call

\* Every state of the cache is typed, and no read lock has a NULL head, which
\* lazyfree_read_unlock asserts (lazyfree_cache.c:339).
THEOREM TypeCorrect == Spec => []TypeInv
  BY InitTypeInv, NextTypeInv, PTL DEF Spec

\* TypeOK, the type invariant the runs check.
THEOREM TypeOKHolds == Spec => []TypeOK
  BY TypeCorrect, PTL DEF TypeInv

----------------------------------------------------------------------------
(* The index, the locks and the count of free pages *)

NonzeroKeys  == ZeroKey \notin Key
SmallIndices == PagesPerChunk <= IndexRange

\* Two locks in use are for different keys.
OneLockPerKey ==
    \A g, h \in Handle :
        g # h /\ locks[g].mode # "idle" /\ locks[h].mode # "idle"
            => locks[g].key # locks[h].key

\* There is a writer while a page is write-locked, and only then.
IsWriter(h) == /\ keys[wlock] = locks[h].key
               /\ \A g \in Handle : locks[g].mode = "write" <=> g = h

WriterInv ==
    IF wlock = EMPTY_DESC THEN \A h \in Handle : locks[h].mode # "write"
    ELSE \E h \in Handle : IsWriter(h)

IndexInv == FreeListsSound /\ OwnersSound /\ MapSound

SafetyInv ==
    /\ TypeInv
    /\ IndexInv
    /\ OneLockPerKey
    /\ WriterInv
    /\ ValidLockIsCurrent

----------------------------------------------------------------------------
(* Free lists *)

\* A push adds the page to the list, once if it was not there.
LEMMA PushFacts ==
    ASSUME NEW q \in Seq(Page), NEW p \in Page
    PROVE  /\ Range(Append(q, p)) = Range(q) \cup {p}
           /\ IsInjective(q) /\ p \notin Range(q) => IsInjective(Append(q, p))
  <1> DEFINE r == Append(q, p)
  <1>1. /\ r \in Seq(Page)
        /\ Len(r) = Len(q) + 1
        /\ \A i \in 1 .. Len(q) : r[i] = q[i]
        /\ r[Len(q) + 1] = p
    BY AppendProperties
  <1>2. Len(q) \in Nat /\ DOMAIN q = 1 .. Len(q) /\ DOMAIN r = 1 .. Len(q) + 1
    BY <1>1
  <1> HIDE DEF r
  <1>3. Range(r) = Range(q) \cup {p}
    BY <1>1, <1>2 DEF Range
  <1>4. ASSUME IsInjective(q), p \notin Range(q)
        PROVE  IsInjective(r)
    <2> SUFFICES ASSUME NEW i \in DOMAIN r, NEW j \in DOMAIN r, r[i] = r[j]
                 PROVE  i = j
      BY DEF IsInjective
    <2>1. CASE i \in DOMAIN q /\ j \in DOMAIN q
      BY <1>1, <1>2, <1>4, <2>1 DEF IsInjective
    <2>2. CASE i = Len(q) + 1 \/ j = Len(q) + 1
      BY <1>1, <1>2, <1>4, <2>2 DEF Range
    <2> QED
      BY <1>2, <2>1, <2>2
  <1> QED
    BY <1>3, <1>4 DEF r

\* A pop takes the last page from the list.
LEMMA PopFacts ==
    ASSUME NEW q \in Seq(Page), Len(q) > 0, IsInjective(q)
    PROVE  LET r == SubSeq(q, 1, Len(q) - 1)
           IN  /\ Range(r) = Range(q) \ {q[Len(q)]}
               /\ IsInjective(r)
               /\ q[Len(q)] \in Range(q)
  <1> DEFINE r == SubSeq(q, 1, Len(q) - 1)
  <1>1. Len(q) \in Nat /\ DOMAIN q = 1 .. Len(q)
    OBVIOUS
  <1>2. /\ DOMAIN r = 1 .. Len(q) - 1
        /\ \A i \in 1 .. Len(q) - 1 : r[i] = q[i]
    BY <1>1
  <1> HIDE DEF r
  <1>3. Range(r) = Range(q) \ {q[Len(q)]}
    BY <1>1, <1>2 DEF Range, IsInjective
  <1>4. IsInjective(r)
    BY <1>1, <1>2 DEF IsInjective
  <1>5. q[Len(q)] \in Range(q)
    BY <1>1 DEF Range
  <1> QED
    BY <1>3, <1>4, <1>5 DEF r

----------------------------------------------------------------------------
(* The index *)

\* The free list of a chunk is one of its pages.
LEMMA FreeFacts ==
    ASSUME TypeOK, NEW c \in Chunk
    PROVE  free_pages[c] \in Seq(Page) /\ Free(c) \subseteq Page
  <1>1. free_pages[c] \in Seq(Page)
    BY DEF TypeOK
  <1> QED
    BY <1>1, RangeOfSeq DEF Free

\* cache_drop of a page with an owner.
LEMMA CacheDropIndex ==
    ASSUME NonzeroKeys, TypeOK, IndexInv,
           NEW s \in Slot, keys[s] # ZeroKey, CacheDrop(s)
    PROVE  IndexInv'
  <1> DEFINE c == s[1]
             p == s[2]
  <1>1. c \in Chunk /\ p \in Page /\ s = <<c, p>>
    BY SlotFacts
  <1>2. p < len[c] /\ p \notin Free(c)
    BY DEF IndexInv, OwnersSound, InUse
  <1>3. /\ free_pages' = [free_pages EXCEPT ![c] = Append(@, p)]
        /\ map' = HmapRemove({keys[s]})
        /\ keys' = [keys EXCEPT ![s] = ZeroKey]
        /\ len' = len
    BY DEF CacheDrop
  <1> HIDE DEF c, p
  <1>4. Free(c)' = Free(c) \cup {p}
    <2>1. free_pages'[c] = Append(free_pages[c], p)
      BY <1>1, <1>3 DEF TypeOK
    <2>2. Range(Append(free_pages[c], p)) = Range(free_pages[c]) \cup {p}
      BY <1>1, FreeFacts, PushFacts
    <2> QED
      BY <2>1, <2>2 DEF Free
  <1>5. \A d \in Chunk \ {c} : free_pages'[d] = free_pages[d] /\ Free(d)' = Free(d)
    BY <1>3 DEF TypeOK, Free
  <1>6. FreeListsSound'
    <2>1. IsInjective(free_pages'[c])
      <3>1. IsInjective(free_pages[c]) /\ p \notin Range(free_pages[c])
        BY <1>1, <1>2 DEF IndexInv, FreeListsSound, Free
      <3>2. free_pages'[c] = Append(free_pages[c], p)
        BY <1>1, <1>3 DEF TypeOK
      <3> QED
        BY <1>1, <3>1, <3>2, FreeFacts, PushFacts
    <2>2. Free(c)' \subseteq 0 .. len'[c] - 1
      <3>1. Free(c) \subseteq 0 .. len[c] - 1
        BY <1>1 DEF IndexInv, FreeListsSound
      <3>2. p \in 0 .. len[c] - 1
        <4>1. len[c] \in 0 .. PagesPerChunk
          BY <1>1 DEF TypeOK
        <4> QED
          BY <1>1, <1>2, <4>1, PagesAssumption DEF Page
      <3> QED
        BY <1>3, <1>4, <3>1, <3>2
    <2>3. \A d \in Chunk \ {c} : /\ Free(d)' \subseteq 0 .. len'[d] - 1
                                 /\ IsInjective(free_pages'[d])
      BY <1>3, <1>5 DEF IndexInv, FreeListsSound
    <2> QED
      BY <2>1, <2>2, <2>3 DEF FreeListsSound
  <1>7. OwnersSound'
    <2> SUFFICES ASSUME NEW t \in Slot PROVE (keys[t] # ZeroKey <=> InUse(t))'
      BY DEF OwnersSound
    <2>1. CASE t = s
      BY <1>1, <1>3, <1>4, <2>1 DEF InUse, TypeOK
    <2>2. CASE t # s
      <3>1. keys'[t] = keys[t]
        BY <1>3, <2>2 DEF TypeOK
      <3>2. InUse(t)' <=> InUse(t)
        BY <1>1, <1>3, <1>4, <1>5, <2>2, SlotFacts DEF InUse
      <3> QED
        BY <3>1, <3>2 DEF IndexInv, OwnersSound
    <2> QED
      BY <2>1, <2>2
  <1>8. MapSound'
    <2> SUFFICES ASSUME NEW k \in Key, map'[k] # EMPTY_DESC
                 PROVE  keys'[map'[k]] = k
      BY DEF MapSound
    <2>1. map'[k] = map[k] /\ k # keys[s]
      BY <1>3 DEF HmapRemove, NonzeroKeys
    <2>2. keys[map[k]] = k /\ map[k] \in Slot
      BY <2>1 DEF IndexInv, MapSound, TypeOK
    <2> QED
      BY <1>3, <2>1, <2>2 DEF TypeOK
  <1> QED
    BY <1>6, <1>7, <1>8 DEF IndexInv

\* Taking page s, which has no owner, for key k.
LEMMA TakePageIndex ==
    ASSUME NonzeroKeys, TypeOK, IndexInv, NEW k \in Key,
           NEW s \in Slot, keys[s] = ZeroKey, TakePage(s, k, map, keys),
           FreeListsSound',
           \A t \in Slot : InUse(t)' <=> InUse(t) \/ t = s
    PROVE  IndexInv'
  <1>1. map' = [map EXCEPT ![k] = s] /\ keys' = [keys EXCEPT ![s] = k]
    BY DEF TakePage
  <1>2. k # ZeroKey
    BY DEF NonzeroKeys
  <1>3. OwnersSound'
    <2> SUFFICES ASSUME NEW t \in Slot PROVE keys'[t] # ZeroKey <=> InUse(t)'
      BY DEF OwnersSound
    <2>1. CASE t = s
      BY <1>1, <1>2, <2>1 DEF TypeOK
    <2>2. CASE t # s
      BY <1>1, <2>2 DEF IndexInv, OwnersSound, TypeOK
    <2> QED
      BY <2>1, <2>2
  <1>4. MapSound'
    <2> SUFFICES ASSUME NEW j \in Key, map'[j] # EMPTY_DESC
                 PROVE  keys'[map'[j]] = j
      BY DEF MapSound
    <2>1. CASE j = k
      BY <1>1, <2>1 DEF TypeOK
    <2>2. CASE j # k
      <3>1. map'[j] = map[j] /\ map[j] \in Slot /\ keys[map[j]] = j
        BY <1>1, <2>2 DEF IndexInv, MapSound, TypeOK
      <3>2. map[j] # s
        BY <3>1 DEF NonzeroKeys
      <3> QED
        BY <1>1, <3>1, <3>2 DEF TypeOK
    <2> QED
      BY <2>1, <2>2
  <1> QED
    BY <1>3, <1>4 DEF IndexInv

\* alloc_current_chunk, wherever the search ends.
LEMMA AllocNextIndex ==
    ASSUME NonzeroKeys, TypeOK, IndexInv, NEW k \in Key, AllocNext(k)
    PROVE  IndexInv' /\ keys[wlock'] = ZeroKey /\ wlock' \in Slot /\ keys' = [keys EXCEPT ![wlock'] = k]
           /\ map' = [map EXCEPT ![k] = wlock']
  <1>1. PICK n \in 0 .. NumChunks - 1 :
          LET c == Ahead(n)
          IN  /\ Available(c)
              /\ \/ LET last == Len(free_pages[c])
                    IN  /\ last > 0
                        /\ free_pages' = [free_pages EXCEPT
                                              ![c] = SubSeq(@, 1, last - 1)]
                        /\ TakePage(<<c, free_pages[c][last]>>, k, map, keys)
                        /\ UNCHANGED len
                 \/ /\ free_pages[c] = << >>
                    /\ len' = [len EXCEPT ![c] = @ + 1]
                    /\ TakePage(<<c, len[c]>>, k, map, keys)
                    /\ UNCHANGED free_pages
    BY DEF AllocNext
  <1>2. PICK c \in Chunk : c = Ahead(n)
    BY AheadType
  <1> DEFINE last == Len(free_pages[c])
             q == SubSeq(free_pages[c], 1, last - 1)
  <1>3. len[c] \in 0 .. PagesPerChunk /\ free_pages[c] \in Seq(Page)
    BY <1>2 DEF TypeOK
  <1>4. Free(c) \subseteq 0 .. len[c] - 1 /\ IsInjective(free_pages[c])
    BY <1>2 DEF IndexInv, FreeListsSound
  <1>5. CASE /\ last > 0
             /\ free_pages' = [free_pages EXCEPT ![c] = q]
             /\ TakePage(<<c, free_pages[c][last]>>, k, map, keys)
             /\ UNCHANGED len
    <2>0. PICK p \in Page : p = free_pages[c][last]
      BY <1>3, <1>5, PopType
    <2> DEFINE s == <<c, p>>
    <2>1. /\ Range(q) = Free(c) \ {p}
          /\ IsInjective(q)
          /\ p \in Free(c)
      BY <1>3, <1>4, <1>5, <2>0, PopFacts DEF Free
    <2>2. p \in Page /\ s \in Slot
      BY <1>2, <2>0, SlotFacts
    <2>3. Free(c)' = Free(c) \ {p} /\ free_pages'[c] = q
      BY <1>2, <1>5, <2>1 DEF Free, TypeOK
    <2>4. \A d \in Chunk \ {c} : Free(d)' = Free(d) /\ free_pages'[d] = free_pages[d]
      BY <1>5 DEF Free, TypeOK
    <2> HIDE DEF q
    <2>5. keys[s] = ZeroKey
      BY <2>1, <2>2 DEF IndexInv, OwnersSound, InUse
    <2>6. FreeListsSound'
      BY <1>4, <1>5, <2>1, <2>3, <2>4 DEF IndexInv, FreeListsSound
    <2>7. p < len[c]
      BY <1>3, <1>4, <2>1, <2>2 DEF Page
    <2>8. ASSUME NEW t \in Slot PROVE InUse(t)' <=> InUse(t) \/ t = s
      <3>1. t[1] \in Chunk /\ t[2] \in Page /\ t = <<t[1], t[2]>> /\ len' = len
        BY <1>5, SlotFacts
      <3>2. CASE t[1] = c
        BY <2>1, <2>3, <2>7, <3>1, <3>2 DEF InUse
      <3>3. CASE t[1] # c
        BY <2>4, <3>1, <3>3 DEF InUse
      <3> QED
        BY <3>2, <3>3
    <2>9. TakePage(s, k, map, keys)
      BY <1>5, <2>0
    <2> HIDE DEF s
    <2> QED
      BY <2>2, <2>5, <2>6, <2>8, <2>9, TakePageIndex DEF TakePage
  <1>6. CASE /\ free_pages[c] = << >>
             /\ len' = [len EXCEPT ![c] = @ + 1]
             /\ TakePage(<<c, len[c]>>, k, map, keys)
             /\ UNCHANGED free_pages
    <2>0. PICK p : p = len[c]
      OBVIOUS
    <2> DEFINE s == <<c, p>>
    <2>1. len[c] < PagesPerChunk
      BY <1>1, <1>2, <1>6 DEF Available
    <2>2. s \in Slot
      BY <1>2, <1>3, <2>0, <2>1, PagesAssumption, SlotFacts DEF Page
    <2>3. keys[s] = ZeroKey
      BY <1>3, <2>0, <2>2 DEF IndexInv, OwnersSound, InUse
    <2>4. len'[c] = len[c] + 1 /\ \A d \in Chunk \ {c} : len'[d] = len[d]
      BY <1>2, <1>6 DEF TypeOK
    <2>5. \A d \in Chunk : Free(d)' = Free(d) /\ free_pages'[d] = free_pages[d]
      BY <1>6 DEF Free
    <2>6. FreeListsSound'
      <3>1. Free(c)' \subseteq 0 .. len'[c] - 1
        BY <1>2, <1>3, <1>4, <2>4, <2>5
      <3> QED
        BY <2>4, <2>5, <3>1, <1>2 DEF IndexInv, FreeListsSound
    <2>7. len[c] \notin Free(c)
      BY <1>3, <1>4
    <2>8. ASSUME NEW t \in Slot PROVE InUse(t)' <=> InUse(t) \/ t = s
      <3>1. t[1] \in Chunk /\ t[2] \in Nat /\ t = <<t[1], t[2]>>
        BY PagesAssumption, SlotFacts DEF Page
      <3>2. CASE t[1] = c
        BY <1>2, <1>3, <2>0, <2>4, <2>5, <2>7, <3>1, <3>2 DEF InUse
      <3>3. CASE t[1] # c
        BY <2>4, <2>5, <3>1, <3>3 DEF InUse
      <3> QED
        BY <3>2, <3>3
    <2>9. TakePage(s, k, map, keys)
      BY <1>6, <2>0
    <2> HIDE DEF s
    <2> QED
      BY <2>2, <2>3, <2>6, <2>8, <2>9, TakePageIndex DEF TakePage
  <1> QED
    BY <1>1, <1>2, <1>5, <1>6

\* drop_next_chunk and the first page of the chunk it dropped.
LEMMA AllocEvictingIndex ==
    ASSUME NonzeroKeys, TypeOK, IndexInv, NEW k \in Key, AllocEvicting(k)
    PROVE  /\ IndexInv'
           /\ wlock' \in Slot /\ keys'[wlock'] = k /\ map'[k] = wlock'
           /\ \A t \in Slot \ {wlock'} :
                 keys'[t] # ZeroKey => keys'[t] = keys[t] /\ entries'[t] = entries[t]
           /\ \A j \in Key \ {k} : map'[j] \in {map[j], EMPTY_DESC}
  <1>1. PICK c \in Chunk :
          LET dropped == {s \in Slot : s[1] = c /\ s[2] < len[c]}
          IN  /\ MadvDontneed(c)
              /\ TakePage(<<c, 0>>, k, HmapRemove({keys[s] : s \in dropped}),
                          [s \in Slot |-> IF s \in dropped THEN ZeroKey ELSE keys[s]])
              /\ len' = [len EXCEPT ![c] = 1]
              /\ free_pages' = [free_pages EXCEPT ![c] = << >>]
    BY DEF AllocEvicting
  <1> DEFINE dropped == {s \in Slot : s[1] = c /\ s[2] < len[c]}
             s0 == <<c, 0>>
  <1>2. s0 \in Slot /\ k # ZeroKey
    BY PagesAssumption, SlotFacts DEF Page, NonzeroKeys
  <1>3. \A t \in Slot : t[1] = c /\ t \notin dropped => keys[t] = ZeroKey
    BY DEF IndexInv, OwnersSound, InUse
  <1>4. \A t \in Slot : keys'[t] = IF t = s0 THEN k
                                   ELSE IF t[1] = c THEN ZeroKey ELSE keys[t]
    BY <1>1, <1>2, <1>3 DEF TakePage
  <1>5. wlock' = s0
    BY <1>1 DEF TakePage
  <1>6. \A j \in Key : map'[j] = IF j = k THEN s0
                                 ELSE IF j \in {keys[s] : s \in dropped}
                                      THEN EMPTY_DESC ELSE map[j]
    BY <1>1 DEF TakePage, HmapRemove, NonzeroKeys
  <1>7. len'[c] = 1 /\ free_pages'[c] = << >>
    BY <1>1 DEF TypeOK
  <1>8. \A d \in Chunk \ {c} : len'[d] = len[d] /\ free_pages'[d] = free_pages[d]
    BY <1>1 DEF TypeOK
  <1>9. Free(c)' = {} /\ IsInjective(free_pages'[c])
    BY <1>7 DEF Free, Range, IsInjective
  <1>10. \A d \in Chunk \ {c} : Free(d)' = Free(d)
    BY <1>8 DEF Free
  <1>11. FreeListsSound'
    BY <1>8, <1>9, <1>10 DEF IndexInv, FreeListsSound
  <1>12. OwnersSound'
    <2> SUFFICES ASSUME NEW t \in Slot PROVE keys'[t] # ZeroKey <=> InUse(t)'
      BY DEF OwnersSound
    <2>1. t[1] \in Chunk /\ t[2] \in Nat /\ t = <<t[1], t[2]>>
      BY PagesAssumption, SlotFacts DEF Page
    <2>2. CASE t[1] = c
      <3>1. InUse(t)' <=> t[2] = 0
        BY <1>7, <1>9, <2>1, <2>2 DEF InUse
      <3>2. t[2] = 0 <=> t = s0
        BY <2>1, <2>2
      <3> QED
        BY <1>2, <1>4, <2>2, <3>1, <3>2
    <2>3. CASE t[1] # c
      BY <1>4, <1>8, <1>10, <2>1, <2>3 DEF InUse, IndexInv, OwnersSound
    <2> QED
      BY <2>2, <2>3
  <1>13. MapSound'
    <2> SUFFICES ASSUME NEW j \in Key, map'[j] # EMPTY_DESC
                 PROVE  keys'[map'[j]] = j
      BY DEF MapSound
    <2>1. CASE j = k
      BY <1>2, <1>4, <1>6, <2>1
    <2>2. CASE j # k
      <3>1. map'[j] = map[j] /\ j \notin {keys[s] : s \in dropped}
        BY <1>6, <2>2
      <3>2. map[j] \in Slot /\ keys[map[j]] = j
        BY <3>1 DEF IndexInv, MapSound, TypeOK
      <3>3. map[j] \notin dropped /\ j # ZeroKey
        BY <3>1, <3>2 DEF NonzeroKeys
      <3>4. map[j][1] # c
        BY <1>3, <3>2, <3>3
      <3> QED
        BY <1>4, <3>1, <3>2, <3>4
    <2> QED
      BY <2>1, <2>2
  <1>14. \A t \in Slot : t[1] # c => entries'[t] = entries[t]
    BY <1>1 DEF MadvDontneed
  <1> HIDE DEF s0, dropped
  <1> QED
    BY <1>2, <1>4, <1>5, <1>6, <1>11, <1>12, <1>13, <1>14 DEF IndexInv

\* The effect of an allocation for key k on the index and on the other pages.
AllocEffect(k) ==
    /\ IndexInv'
    /\ wlock' \in Slot /\ keys'[wlock'] = k /\ map'[k] = wlock'
    /\ \A t \in Slot \ {wlock'} :
          keys'[t] # ZeroKey => keys'[t] = keys[t] /\ entries'[t] = entries[t]
    /\ \A j \in Key \ {k} : map'[j] \in {map[j], EMPTY_DESC}
    /\ bit0' = bit0

\* An allocation keeps the index, and leads its key to a page that had none.
LEMMA AllocIndex ==
    ASSUME NonzeroKeys, TypeOK, IndexInv, NEW k \in Key,
           AllocNext(k) \/ AllocEvicting(k)
    PROVE  AllocEffect(k)
  <1>1. CASE AllocNext(k)
    <2>1. /\ IndexInv' /\ wlock' \in Slot
          /\ keys' = [keys EXCEPT ![wlock'] = k]
          /\ map' = [map EXCEPT ![k] = wlock']
      BY <1>1, AllocNextIndex
    <2>2. entries' = entries /\ bit0' = bit0
      BY <1>1 DEF AllocNext
    <2>3. /\ keys'[wlock'] = k /\ map'[k] = wlock'
          /\ \A t \in Slot \ {wlock'} : keys'[t] = keys[t]
          /\ \A j \in Key \ {k} : map'[j] = map[j]
      BY <2>1 DEF TypeOK
    <2> QED
      BY <2>1, <2>2, <2>3 DEF AllocEffect
  <1>2. CASE AllocEvicting(k)
    BY <1>2, AllocEvictingIndex DEF AllocEffect, AllocEvicting
  <1> QED
    BY <1>1, <1>2

----------------------------------------------------------------------------
(* The locks *)

\* A lock that passes the checks still covers what it was taken on.
Current(h) ==
    LockValid(h) => /\ locks[h].tail = PayloadTail(locks[h].head)
                    /\ map[locks[h].key] \in {locks[h].head, EMPTY_DESC}

\* A lock stays current when a step touches neither it nor, if it is still
\* valid afterwards, its page.
LEMMA OtherLock ==
    ASSUME ValidLockIsCurrent, NEW g \in Handle, locks'[g] = locks[g],
           LockValid(g)' =>
               /\ keys'[locks[g].head] = keys[locks[g].head]
               /\ entries'[locks[g].head] = entries[locks[g].head]
               /\ bit0'[locks[g].head] = bit0[locks[g].head]
               /\ map'[locks[g].key] \in {map[locks[g].key], EMPTY_DESC}
    PROVE  Current(g)'
  <1> SUFFICES ASSUME LockValid(g)'
               PROVE  /\ locks'[g].tail = PayloadTail(locks[g].head)'
                      /\ map'[locks[g].key] \in {locks[g].head, EMPTY_DESC}
    BY DEF Current, PayloadTail, ClearBit0
  <1>1. LockValid(g)
    BY DEF LockValid, LockCheck
  <1>2. /\ locks[g].tail = PayloadTail(locks[g].head)
        /\ map[locks[g].key] \in {locks[g].head, EMPTY_DESC}
    BY <1>1 DEF ValidLockIsCurrent
  <1> QED
    BY <1>2 DEF PayloadTail, ClearBit0

\* The safety invariant holds of a new cache.
LEMMA InitSafety == Init => SafetyInv
  <1> SUFFICES ASSUME Init PROVE SafetyInv
    OBVIOUS
  <1>1. TypeInv
    BY InitTypeInv
  <1>2. \A h \in Handle : locks[h].mode = "idle"
    BY DEF Init, Idle
  <1>3. \A c \in Chunk : Free(c) = {}
    BY DEF Init, Free, Range
  <1>4. FreeListsSound
    BY <1>3 DEF FreeListsSound, Init, IsInjective
  <1>5. OwnersSound
    BY PagesAssumption, SlotFacts DEF OwnersSound, InUse, Init, Page
  <1>6. MapSound
    BY DEF MapSound, Init
  <1> QED
    BY <1>1, <1>2, <1>4, <1>5, <1>6
       DEF SafetyInv, IndexInv, OneLockPerKey, WriterInv, ValidLockIsCurrent, LockValid, Init

\* lazyfree_read_lock keeps it.
LEMMA ReadLockSafety ==
    ASSUME SafetyInv, NEW h \in Handle, NEW k \in Key, ReadLock(h, k)
    PROVE  SafetyInv'
  <1> DEFINE desc == map[k]
             hit  == desc # EMPTY_DESC /\ keys[desc] = k /\ entries[desc] # 0
             lock == [mode |-> "read", key |-> k,
                      head |-> IF hit THEN desc ELSE EMPTY_PAGE,
                      tail |-> IF hit THEN PayloadTail(desc) ELSE 0]
  <1>1. TypeInv /\ TypeInv' /\ TypeOK
    BY ReadLockType DEF SafetyInv, TypeInv
  <1>2. locks'[h] = lock /\ \A g \in Handle \ {h} : locks'[g] = locks[g]
    BY <1>1 DEF ReadLock, TypeOK
  <1>3. UNCHANGED <<memVars, cacheVars, exited>> /\ wlock = EMPTY_DESC
    BY DEF ReadLock
  <1>4. /\ keys' = keys /\ entries' = entries /\ bit0' = bit0 /\ map' = map
        /\ len' = len /\ free_pages' = free_pages /\ wlock' = wlock
    BY <1>3 DEF memVars, cacheVars
  <1>5. IndexInv'
    BY <1>4 DEF SafetyInv, IndexInv, FreeListsSound, OwnersSound, MapSound, InUse, Free
  <1>6. OneLockPerKey'
    BY <1>2 DEF SafetyInv, OneLockPerKey, ReadLock, Held
  <1>7. WriterInv'
    BY <1>2, <1>3, <1>4 DEF SafetyInv, WriterInv
  <1>8. Current(h)'
    <2>1. CASE hit
      BY <1>2, <1>4, <2>1 DEF Current, PayloadTail
    <2>2. CASE ~hit
      BY <1>2, <2>2 DEF Current, LockValid
    <2> QED
      BY <2>1, <2>2
  <1>9. \A g \in Handle \ {h} : Current(g)'
    BY <1>2, <1>4, OtherLock DEF SafetyInv
  <1>10. ValidLockIsCurrent'
    BY <1>8, <1>9 DEF ValidLockIsCurrent, Current
  <1> QED
    BY <1>1, <1>5, <1>6, <1>7, <1>10 DEF SafetyInv

\* A read lock that is given back.
LEMMA IdleSafety ==
    ASSUME SafetyInv, NEW h \in Handle, locks[h].mode = "read", wlock = EMPTY_DESC,
           locks' = [locks EXCEPT ![h] = Idle],
           UNCHANGED <<memVars, cacheVars, exited>>
    PROVE  SafetyInv'
  <1>1. TypeInv /\ TypeInv' /\ TypeOK
    BY IdleType DEF SafetyInv, TypeInv
  <1>2. locks'[h] = Idle /\ \A g \in Handle \ {h} : locks'[g] = locks[g]
    BY <1>1 DEF TypeOK
  <1>4. /\ keys' = keys /\ entries' = entries /\ bit0' = bit0 /\ map' = map
        /\ len' = len /\ free_pages' = free_pages /\ wlock' = wlock
    BY DEF memVars, cacheVars
  <1>5. IndexInv'
    BY <1>4 DEF SafetyInv, IndexInv, FreeListsSound, OwnersSound, MapSound, InUse, Free
  <1>6. OneLockPerKey'
    BY <1>2 DEF SafetyInv, OneLockPerKey, Idle
  <1>7. WriterInv'
    BY <1>2, <1>4 DEF SafetyInv, WriterInv, Idle
  <1>8. Current(h)'
    BY <1>2 DEF Current, LockValid, Idle
  <1>9. \A g \in Handle \ {h} : Current(g)'
    BY <1>2, <1>4, OtherLock DEF SafetyInv
  <1>10. ValidLockIsCurrent'
    BY <1>8, <1>9 DEF ValidLockIsCurrent, Current
  <1> QED
    BY <1>1, <1>5, <1>6, <1>7, <1>10 DEF SafetyInv

\* exit(1) and stuttering leave the state alone.
LEMMA SameSafety ==
    ASSUME SafetyInv, TypeInv', UNCHANGED <<memVars, cacheVars, locks>>
    PROVE  SafetyInv'
  BY DEF SafetyInv, IndexInv, FreeListsSound, OwnersSound, MapSound, InUse, Free,
         OneLockPerKey, WriterInv, IsWriter, ValidLockIsCurrent, LockValid,
         LockCheck, PayloadTail, memVars, cacheVars

\* So does a write lock that takes a new page.
LEMMA WriteAllocSafety ==
    ASSUME NonzeroKeys, SafetyInv, NEW h \in Handle, NEW k \in Key,
           NEW head \in {NULL, EMPTY_PAGE}, WriteAlloc(h, k, head),
           wlock = EMPTY_DESC,
           \A g \in Handle \ {h} : locks[g].mode # "idle" => locks[g].key # k
    PROVE  SafetyInv'
  <1>1. TypeInv /\ TypeInv' /\ TypeOK /\ IndexInv
    BY WriteAllocType DEF SafetyInv, TypeInv
  <1>0. CASE AllocFails
    BY <1>0, <1>1, SameSafety DEF AllocFails, Exit
  <1> SUFFICES ASSUME ~AllocFails PROVE SafetyInv'
    BY <1>0
  <1>2. AllocEffect(k)
    BY <1>1, AllocIndex DEF WriteAlloc
  <1>3. /\ locks'[h].mode = "write" /\ locks'[h].key = k
        /\ \A g \in Handle \ {h} : locks'[g] = locks[g]
    <2>1. locks' = [locks EXCEPT ![h] = [mode |-> "write", key |-> k,
                                         head |-> head, tail |-> @.tail]]
      BY DEF WriteAlloc
    <2> QED
      BY <1>1, <2>1 DEF TypeOK
  <1>4. wlock' # EMPTY_DESC
    BY <1>2, SlotFacts DEF AllocEffect
  <1>5. OneLockPerKey'
    BY <1>3 DEF SafetyInv, OneLockPerKey
  <1>6. WriterInv'
    <2>1. IsWriter(h)'
      BY <1>2, <1>3 DEF AllocEffect, IsWriter, SafetyInv, WriterInv
    <2> QED
      BY <1>4, <2>1 DEF WriterInv
  <1>7. Current(h)'
    BY <1>3 DEF Current, LockValid
  <1>8. ASSUME NEW g \in Handle \ {h} PROVE Current(g)'
    <2> DEFINE s == locks[g].head
    <2>1. locks'[g] = locks[g]
      BY <1>3
    <2>2. ASSUME LockValid(g)'
          PROVE  /\ keys'[s] = keys[s]
                 /\ entries'[s] = entries[s]
                 /\ bit0'[s] = bit0[s]
                 /\ map'[locks[g].key] \in {map[locks[g].key], EMPTY_DESC}
      <3>1. s \in Slot /\ locks[g].key \in Key /\ locks[g].mode = "read"
            /\ keys'[s] = locks[g].key
        BY <1>1, <2>1, <2>2, ValidHead DEF LockValid, TypeInv, TypeOK, Lock, LocksWellFormed
      <3>2. locks[g].key # k /\ locks[g].key # ZeroKey
        BY <3>1 DEF NonzeroKeys
      <3>3. s # wlock'
        BY <1>2, <3>1, <3>2 DEF AllocEffect
      <3> HIDE DEF s
      <3> QED
        BY <1>2, <3>1, <3>2, <3>3 DEF AllocEffect
    <2> HIDE DEF s
    <2> QED
      BY <2>1, <2>2, OtherLock DEF SafetyInv, s
  <1>9. ValidLockIsCurrent'
    BY <1>7, <1>8 DEF ValidLockIsCurrent, Current
  <1> QED
    BY <1>1, <1>2, <1>5, <1>6, <1>9 DEF SafetyInv, AllocEffect

\* The locks other than h after a page of h is dropped, or written.
LEMMA DisjointPages ==
    ASSUME TypeInv, OneLockPerKey, NEW h \in Handle, NEW g \in Handle \ {h},
           locks[h].mode # "idle", NEW s, keys[s] = locks[h].key,
           locks[g].mode = "read", locks[g].head \in Slot,
           keys[locks[g].head] = locks[g].key
    PROVE  locks[g].head # s /\ locks[g].key # locks[h].key
  BY DEF OneLockPerKey

\* So does one over a valid read lock.
LEMMA WriteLockUpgradeSafety ==
    ASSUME SmallIndices, SafetyInv, NEW h \in Handle, WriteLockUpgrade(h)
    PROVE  SafetyInv'
  <1> DEFINE page == locks[h].head
  <1>1. TypeInv /\ TypeInv' /\ TypeOK
    BY WriteLockUpgradeType DEF SafetyInv, TypeInv
  <1>2. page \in Slot /\ keys[page] = locks[h].key /\ locks[h].mode = "read"
    BY <1>1, ValidHead DEF WriteLockUpgrade, LockValid
  <1>3. <<page[1], page[2] % IndexRange>> = page
    BY <1>2, SlotFacts, IndexFacts DEF SmallIndices
  <1> HIDE DEF page
  <1>4. wlock' = page /\ entries' = [entries EXCEPT ![page] = PayloadTail(page)]
    BY <1>3 DEF WriteLockUpgrade, page
  <1>5. /\ keys' = keys /\ bit0' = bit0 /\ map' = map
        /\ len' = len /\ free_pages' = free_pages
    BY DEF WriteLockUpgrade
  <1>6. /\ locks'[h].mode = "write" /\ locks'[h].key = locks[h].key
        /\ \A g \in Handle \ {h} : locks'[g] = locks[g]
    BY <1>1 DEF WriteLockUpgrade, TypeOK, Lock
  <1>7. IndexInv'
    BY <1>5 DEF SafetyInv, IndexInv, FreeListsSound, OwnersSound, MapSound, InUse, Free
  <1>8. OneLockPerKey'
    BY <1>2, <1>6 DEF SafetyInv, OneLockPerKey
  <1>9. WriterInv'
    <2>1. wlock = EMPTY_DESC /\ wlock' # EMPTY_DESC
      BY <1>2, <1>4, SlotFacts DEF WriteLockUpgrade
    <2>2. IsWriter(h)'
      BY <1>2, <1>4, <1>5, <1>6, <2>1 DEF IsWriter, SafetyInv, WriterInv
    <2> QED
      BY <2>1, <2>2 DEF WriterInv
  <1>10. Current(h)'
    BY <1>6 DEF Current, LockValid
  <1>11. ASSUME NEW g \in Handle \ {h} PROVE Current(g)'
    <2>1. ASSUME LockValid(g)'
          PROVE  entries'[locks[g].head] = entries[locks[g].head]
      <3>1. /\ locks[g].head \in Slot /\ locks[g].mode = "read"
            /\ keys[locks[g].head] = locks[g].key
        BY <1>1, <1>5, <1>6, <2>1 DEF LockValid, TypeInv, TypeOK, Lock, LocksWellFormed
      <3>2. locks[g].head # page
        BY <1>1, <1>2, <3>1, DisjointPages DEF SafetyInv
      <3> QED
        BY <1>1, <1>4, <3>1, <3>2 DEF TypeOK, MemTypeOK
    <2> QED
      BY <1>5, <1>6, <2>1, OtherLock DEF SafetyInv
  <1>12. ValidLockIsCurrent'
    BY <1>10, <1>11 DEF ValidLockIsCurrent, Current
  <1> QED
    BY <1>1, <1>7, <1>8, <1>9, <1>12 DEF SafetyInv

\* The writer, while there is one, and the page it has locked.
LEMMA WriterFacts ==
    ASSUME SafetyInv, wlock # EMPTY_DESC
    PROVE  \E h \in Handle : /\ IsWriter(h)
                             /\ locks[h].mode = "write" /\ locks[h].key \in Key
                             /\ wlock \in Slot
  BY DEF SafetyInv, WriterInv, IsWriter, TypeInv, TypeOK, LocksWellFormed

\* A store to the write-locked page, by the caller or on its release.
LEMMA StoreCurrent ==
    ASSUME SafetyInv, wlock # EMPTY_DESC, NEW g \in Handle,
           locks[g].mode # "write", locks'[g] = locks[g],
           keys' = keys, map' = map,
           \A s \in Slot \ {wlock} : entries'[s] = entries[s] /\ bit0'[s] = bit0[s]
    PROVE  Current(g)'
  <1>1. PICK h \in Handle : IsWriter(h) /\ locks[h].mode = "write"
    BY WriterFacts
  <1>2. ASSUME LockValid(g)'
        PROVE  locks[g].head \in Slot /\ locks[g].head # wlock
    <2>1. /\ locks[g].head \in Slot /\ locks[g].mode = "read"
          /\ keys[locks[g].head] = locks[g].key
      BY <1>2 DEF LockValid, SafetyInv, TypeInv, TypeOK, Lock, LocksWellFormed
    <2> QED
      BY <1>1, <2>1, DisjointPages DEF SafetyInv, IsWriter
  <1> QED
    BY <1>2, OtherLock DEF SafetyInv

\* So does a write.
LEMMA WritePageSafety ==
    ASSUME SafetyInv, NEW v \in TailValue, WritePage(v)
    PROVE  SafetyInv'
  <1>1. TypeInv' /\ TypeOK
    BY WritePageType DEF SafetyInv, TypeInv
  <1>2. /\ keys' = keys /\ bit0' = bit0 /\ map' = map /\ wlock' = wlock
        /\ len' = len /\ free_pages' = free_pages /\ locks' = locks
    BY DEF WritePage, cacheVars
  <1>3. wlock # EMPTY_DESC
        /\ \A s \in Slot \ {wlock} : entries'[s] = entries[s]
    BY <1>1 DEF WritePage, StoreTail, TypeOK, MemTypeOK
  <1>4. IndexInv'
    BY <1>2 DEF SafetyInv, IndexInv, FreeListsSound, OwnersSound, MapSound, InUse, Free
  <1>5. OneLockPerKey' /\ WriterInv'
    BY <1>2 DEF SafetyInv, OneLockPerKey, WriterInv, IsWriter
  <1>6. ASSUME NEW g \in Handle PROVE Current(g)'
    <2>1. CASE locks[g].mode = "write"
      BY <1>2, <2>1 DEF Current, LockValid
    <2>2. CASE locks[g].mode # "write"
      BY <1>2, <1>3, <2>2, StoreCurrent
    <2> QED
      BY <2>1, <2>2
  <1> QED
    BY <1>1, <1>4, <1>5, <1>6 DEF SafetyInv, ValidLockIsCurrent, Current

\* After the writer's handle was reset the locks are those of the readers.
LEMMA ReleaseWriterSafety ==
    ASSUME SafetyInv, ReleaseWriter, wlock' = EMPTY_DESC
    PROVE  OneLockPerKey' /\ WriterInv'
  <1>1. \A h \in Handle : locks'[h] = IF locks[h].mode = "write" THEN Idle ELSE locks[h]
    BY DEF ReleaseWriter
  <1>2. OneLockPerKey'
    BY <1>1 DEF SafetyInv, OneLockPerKey, Idle
  <1>3. WriterInv'
    BY <1>1 DEF WriterInv, Idle
  <1> QED
    BY <1>2, <1>3

\* So does lazyfree_write_unlock.
LEMMA WriteUnlockKeepSafety ==
    ASSUME SafetyInv, WriteUnlockKeep
    PROVE  SafetyInv'
  <1>1. TypeInv' /\ TypeOK
    BY WriteUnlockKeepType DEF SafetyInv, TypeInv
  <1>2. /\ keys' = keys /\ map' = map /\ wlock # EMPTY_DESC
        /\ len' = len /\ free_pages' = free_pages
    BY DEF WriteUnlockKeep
  <1>3. \A s \in Slot \ {wlock} : entries'[s] = entries[s] /\ bit0'[s] = bit0[s]
    BY <1>1 DEF WriteUnlockKeep, StoreTail, TypeOK, MemTypeOK
  <1>4. IndexInv'
    BY <1>2 DEF SafetyInv, IndexInv, FreeListsSound, OwnersSound, MapSound, InUse, Free
  <1>5. OneLockPerKey' /\ WriterInv'
    BY ReleaseWriterSafety DEF WriteUnlockKeep
  <1>6. ASSUME NEW g \in Handle PROVE Current(g)'
    <2>0. locks'[g] = IF locks[g].mode = "write" THEN Idle ELSE locks[g]
      BY DEF WriteUnlockKeep, ReleaseWriter
    <2>1. CASE locks[g].mode = "write"
      BY <2>0, <2>1 DEF Current, LockValid, Idle
    <2>2. CASE locks[g].mode # "write"
      BY <1>2, <1>3, <2>0, <2>2, StoreCurrent
    <2> QED
      BY <2>1, <2>2
  <1> QED
    BY <1>1, <1>4, <1>5, <1>6 DEF SafetyInv, ValidLockIsCurrent, Current

\* A reader's lock after another caller, h, dropped the page s of its own key.
LEMMA DropCurrent ==
    ASSUME NonzeroKeys, SafetyInv, NEW h \in Handle, locks[h].mode # "idle",
           NEW s \in Slot, keys[s] = locks[h].key, CacheDrop(s),
           UNCHANGED memVars,
           NEW g \in Handle \ {h}, locks'[g] = locks[g]
    PROVE  Current(g)'
  <1>1. keys' = [keys EXCEPT ![s] = ZeroKey] /\ bit0' = bit0 /\ entries' = entries
    BY DEF CacheDrop, memVars
  <1>2. \A k \in Key : map'[k] \in {map[k], EMPTY_DESC}
    BY DEF CacheDrop, HmapRemove
  <1>3. ASSUME LockValid(g)'
        PROVE  keys'[locks[g].head] = keys[locks[g].head] /\ locks[g].key \in Key
    <2>1. /\ locks[g].head \in Slot /\ locks[g].key \in Key
          /\ keys'[locks[g].head] = locks[g].key
      BY <1>3 DEF LockValid, SafetyInv, TypeInv, TypeOK, Lock, LocksWellFormed
    <2>2. locks[g].head # s
      BY <1>1, <2>1 DEF NonzeroKeys, SafetyInv, TypeInv, TypeOK
    <2> QED
      BY <1>1, <2>1, <2>2 DEF SafetyInv, TypeInv, TypeOK
  <1> QED
    BY <1>1, <1>2, <1>3, OtherLock DEF SafetyInv

\* So does lazyfree_read_unlock with drop.
LEMMA ReadUnlockDropSafety ==
    ASSUME NonzeroKeys, SafetyInv, NEW h \in Handle, ReadUnlockDrop(h)
    PROVE  SafetyInv'
  <1> DEFINE s == locks[h].head
  <1>1. TypeInv /\ TypeInv' /\ TypeOK /\ IndexInv
    BY ReadUnlockDropType DEF SafetyInv, TypeInv
  <1>2. /\ s \in Slot /\ locks[h].key \in Key /\ keys[s] = locks[h].key
        /\ locks[h].mode = "read"
    BY <1>1, ValidHead DEF ReadUnlockDrop, LockValid
  <1>3. keys[s] # ZeroKey /\ wlock = EMPTY_DESC
    BY <1>2 DEF NonzeroKeys, ReadUnlockDrop
  <1>4. CASE Exit("free list overrun")
    BY <1>1, <1>4, SameSafety DEF Exit
  <1>5. CASE /\ CacheDrop(s)
             /\ locks' = [locks EXCEPT ![h] = Idle]
             /\ UNCHANGED <<memVars, wlock, exited>>
    <2> HIDE DEF s
    <2>1. locks'[h] = Idle /\ \A g \in Handle \ {h} : locks'[g] = locks[g]
      BY <1>1, <1>5 DEF TypeOK
    <2>2. IndexInv'
      BY <1>1, <1>2, <1>3, <1>5, CacheDropIndex
    <2>3. OneLockPerKey'
      BY <2>1 DEF SafetyInv, OneLockPerKey, Idle
    <2>4. WriterInv'
      BY <1>3, <1>5, <2>1 DEF SafetyInv, WriterInv, Idle
    <2>5. Current(h)'
      BY <2>1 DEF Current, LockValid, Idle
    <2>6. \A g \in Handle \ {h} : Current(g)'
      BY <1>2, <1>5, <2>1, DropCurrent
    <2> QED
      BY <1>1, <2>2, <2>3, <2>4, <2>5, <2>6 DEF SafetyInv, ValidLockIsCurrent, Current
  <1> QED
    BY <1>4, <1>5 DEF ReadUnlockDrop

\* So does lazyfree_write_unlock with drop.
LEMMA WriteUnlockDropSafety ==
    ASSUME NonzeroKeys, SafetyInv, WriteUnlockDrop
    PROVE  SafetyInv'
  <1>1. TypeInv' /\ TypeOK /\ IndexInv
    BY WriteUnlockDropType DEF SafetyInv, TypeInv
  <1>2. CASE Exit("free list overrun")
    BY <1>1, <1>2, SameSafety DEF Exit
  <1>3. CASE /\ CacheDrop(wlock)
             /\ wlock' = EMPTY_DESC
             /\ ReleaseWriter
             /\ UNCHANGED <<memVars, exited>>
    <2>1. PICK h \in Handle : /\ IsWriter(h) /\ locks[h].mode = "write"
                             /\ locks[h].key \in Key /\ wlock \in Slot
      BY WriterFacts DEF WriteUnlockDrop
    <2>2. PICK s \in Slot : s = wlock
      BY <2>1
    <2>3. keys[s] = locks[h].key /\ keys[s] # ZeroKey /\ CacheDrop(s)
      BY <1>3, <2>1, <2>2 DEF IsWriter, NonzeroKeys
    <2>4. IndexInv'
      BY <1>1, <2>3, CacheDropIndex
    <2>5. OneLockPerKey' /\ WriterInv'
      BY <1>3, ReleaseWriterSafety
    <2>6. ASSUME NEW g \in Handle PROVE Current(g)'
      <3>0. locks'[g] = IF locks[g].mode = "write" THEN Idle ELSE locks[g]
        BY <1>3 DEF ReleaseWriter
      <3>1. CASE locks[g].mode = "write"
        BY <3>0, <3>1 DEF Current, LockValid, Idle
      <3>2. CASE locks[g].mode # "write"
        BY <1>3, <2>1, <2>3, <3>0, <3>2, DropCurrent
      <3> QED
        BY <3>1, <3>2
    <2> QED
      BY <1>1, <2>4, <2>5, <2>6 DEF SafetyInv, ValidLockIsCurrent, Current
  <1> QED
    BY <1>2, <1>3 DEF WriteUnlockDrop

\* So does the kernel.
LEMMA KernelReclaimSafety ==
    ASSUME SafetyInv, NEW s \in Slot, KernelReclaim(s)
    PROVE  SafetyInv'
  <1>1. TypeInv' /\ TypeOK
    BY KernelReclaimType DEF SafetyInv, TypeInv
  <1>2. /\ keys' = keys /\ bit0' = bit0 /\ map' = map /\ wlock' = wlock
        /\ len' = len /\ free_pages' = free_pages /\ locks' = locks
    BY DEF KernelReclaim, cacheVars
  <1>3. entries' = [entries EXCEPT ![s] = 0]
    BY DEF KernelReclaim, Reclaim
  <1>4. IndexInv'
    BY <1>2 DEF SafetyInv, IndexInv, FreeListsSound, OwnersSound, MapSound, InUse, Free
  <1>5. OneLockPerKey' /\ WriterInv'
    BY <1>2 DEF SafetyInv, OneLockPerKey, WriterInv, IsWriter
  <1>6. ASSUME NEW g \in Handle PROVE Current(g)'
    <2>1. ASSUME LockValid(g)'
          PROVE  entries'[locks[g].head] = entries[locks[g].head]
      <3>1. entries'[locks[g].head] > 0
        BY <1>2, <2>1 DEF LockValid, LockCheck
      <3>2. locks[g].head \in Slot
        BY <1>2, <2>1 DEF LockValid, SafetyInv, TypeInv, TypeOK, Lock, LocksWellFormed
      <3>3. locks[g].head # s
        <4>1. entries'[s] = 0
          BY <1>1, <1>3 DEF TypeOK, MemTypeOK
        <4>2. ~(0 > 0)
          OBVIOUS
        <4> QED
          BY <3>1, <4>1, <4>2
      <3> QED
        BY <1>1, <1>3, <3>2, <3>3 DEF TypeOK, MemTypeOK
    <2> QED
      BY <1>2, <2>1, OtherLock DEF SafetyInv
  <1> QED
    BY <1>1, <1>4, <1>5, <1>6 DEF SafetyInv, ValidLockIsCurrent, Current

\* Every step keeps the safety invariant.
LEMMA NextSafety == NonzeroKeys /\ SmallIndices /\ SafetyInv /\ [Next]_vars => SafetyInv'
  <1> SUFFICES ASSUME NonzeroKeys, SmallIndices, SafetyInv, [Next]_vars
               PROVE  SafetyInv'
    OBVIOUS
  <1>0. TypeInv /\ TypeInv'
    BY NextTypeInv DEF SafetyInv
  <1>1. CASE UNCHANGED vars
    BY <1>0, <1>1, SameSafety DEF vars
  <1>2. ASSUME NEW h \in Handle, NEW k \in Key, ReadLock(h, k)
        PROVE  SafetyInv'
    BY <1>2, ReadLockSafety
  <1>3. ASSUME NEW h \in Handle, NEW k \in Key, WriteLockNew(h, k)
        PROVE  SafetyInv'
    BY <1>3, WriteAllocSafety DEF WriteLockNew, Held
  <1>4. ASSUME NEW h \in Handle, ReadUnlockInvalid(h) \/ ReadUnlockKeep(h)
        PROVE  SafetyInv'
    BY <1>4, IdleSafety DEF ReadUnlockInvalid, ReadUnlockKeep, LockValid
  <1>5. ASSUME NEW h \in Handle, ReadUnlockExits(h)
        PROVE  SafetyInv'
    BY <1>0, <1>5, SameSafety DEF ReadUnlockExits, Exit
  <1>6. ASSUME NEW h \in Handle, ReadUnlockDrop(h)
        PROVE  SafetyInv'
    BY <1>6, ReadUnlockDropSafety
  <1>7. ASSUME NEW h \in Handle, WriteLockMiss(h) \/ WriteLockLost(h)
        PROVE  SafetyInv'
    <2>1. locks[h].mode = "read" /\ locks[h].key \in Key /\ wlock = EMPTY_DESC
      BY <1>0, <1>7 DEF WriteLockMiss, WriteLockLost, TypeInv, LocksWellFormed
    <2>2. \A g \in Handle \ {h} : locks[g].mode # "idle" => locks[g].key # locks[h].key
      BY <2>1 DEF SafetyInv, OneLockPerKey
    <2>3. WriteAlloc(h, locks[h].key, EMPTY_PAGE) \/ WriteAlloc(h, locks[h].key, NULL)
      BY <1>7 DEF WriteLockMiss, WriteLockLost
    <2> QED
      BY <2>1, <2>2, <2>3, WriteAllocSafety
  <1>8. ASSUME NEW h \in Handle, WriteLockUpgrade(h)
        PROVE  SafetyInv'
    BY <1>8, WriteLockUpgradeSafety
  <1>9. ASSUME NEW v \in TailValue, WritePage(v)
        PROVE  SafetyInv'
    BY <1>9, WritePageSafety
  <1>10. CASE WriteUnlockKeep \/ WriteUnlockDrop
    BY <1>10, WriteUnlockKeepSafety, WriteUnlockDropSafety
  <1>11. ASSUME NEW s \in Slot, KernelReclaim(s)
        PROVE  SafetyInv'
    BY <1>11, KernelReclaimSafety
  <1> QED
    BY <1>1, <1>2, <1>3, <1>4, <1>5, <1>6, <1>7, <1>8, <1>9, <1>10, <1>11
       DEF Next, Call

----------------------------------------------------------------------------
(* The theorems *)

\* The safety invariant of the cache, in every state of every run.
THEOREM SafetyHolds ==
    ASSUME NonzeroKeys, SmallIndices
    PROVE  Spec => []SafetyInv
  <1>1. Init => SafetyInv
    BY InitSafety
  <1>2. SafetyInv /\ [Next]_vars => SafetyInv'
    BY NextSafety
  <1> QED
    BY <1>1, <1>2, PTL DEF Spec

\* The free lists, the owners of the pages and the hash map agree, through
\* every drop, eviction, reclaim and reuse of a page: no page is on a free
\* list twice, a page has an owner exactly while it is in use, and the hash
\* map never leads to a page of another key.
THEOREM IndexConsistent ==
    ASSUME NonzeroKeys, SmallIndices
    PROVE  Spec => [](FreeListsSound /\ OwnersSound /\ MapSound)
  <1>1. SafetyInv => FreeListsSound /\ OwnersSound /\ MapSound
    BY DEF SafetyInv, IndexInv
  <1> QED
    BY <1>1, SafetyHolds, PTL

\* A reader whose lock passes both checks has read its own key's page.
THEOREM ReadersUndisturbed ==
    ASSUME NonzeroKeys, SmallIndices
    PROVE  Spec => []ValidLockIsCurrent
  <1>1. SafetyInv => ValidLockIsCurrent
    BY DEF SafetyInv
  <1> QED
    BY <1>1, SafetyHolds, PTL

\* There is one writer, on a page of its own.
THEOREM WriterExclusive ==
    ASSUME NonzeroKeys, SmallIndices
    PROVE  Spec => []WriteLockExclusive
  <1>1. ASSUME SafetyInv, wlock # EMPTY_DESC, NEW g \in Handle, LockValid(g)
        PROVE  locks[g].head # wlock
    <2>1. PICK h \in Handle : IsWriter(h) /\ locks[h].mode = "write"
      BY <1>1, WriterFacts
    <2>2. /\ locks[g].mode = "read" /\ locks[g].head \in Slot
          /\ keys[locks[g].head] = locks[g].key
      BY <1>1, ValidHead DEF LockValid, SafetyInv
    <2> QED
      BY <1>1, <2>1, <2>2, DisjointPages DEF SafetyInv, IsWriter
  <1>2. SafetyInv => WriteLockExclusive
    BY <1>1 DEF SafetyInv, WriterInv, IsWriter, WriteLockExclusive
  <1> QED
    BY <1>2, SafetyHolds, PTL

----------------------------------------------------------------------------
(* The count of free pages *)

Unowned == {s \in Slot : keys[s] = ZeroKey}

CountInv == SafetyInv /\ NoDoubleDrop /\ FreePagesCounted

\* The cache has as many pages as its chunks together.
LEMMA SlotsFinite == IsFiniteSet(Slot) /\ Cardinality(Slot) = NumChunks * PagesPerChunk
  <1>1. NumChunks \in Nat \ {0} /\ PagesPerChunk \in Nat \ {0}
    BY ChunksAssumption, PagesAssumption
  <1>2. IsFiniteSet(Chunk) /\ Cardinality(Chunk) = NumChunks
    BY <1>1, FS_Interval DEF Chunk
  <1>3. IsFiniteSet(Page) /\ Cardinality(Page) = PagesPerChunk
    BY <1>1, FS_Interval DEF Page
  <1> QED
    BY <1>2, <1>3, FS_Product DEF Slot

\* A list of different pages below n that lacks one of them is shorter than n.
LEMMA ShortList ==
    ASSUME NEW q \in Seq(Page), IsInjective(q), NEW n \in Nat, NEW p \in 0 .. n - 1,
           Range(q) \subseteq 0 .. n - 1, p \notin Range(q)
    PROVE  Len(q) + 1 <= n
  <1> DEFINE T == (0 .. n - 1) \ {p}
  <1>1. IsFiniteSet(T) /\ Cardinality(T) = n - 1
    <2>1. IsFiniteSet(0 .. n - 1) /\ Cardinality(0 .. n - 1) = n
      BY FS_Interval
    <2> QED
      BY <2>1, FS_RemoveElement
  <1>2. Len(q) \in Nat /\ DOMAIN q = 1 .. Len(q)
    OBVIOUS
  <1>3. q \in [1 .. Len(q) -> T]
    BY <1>2 DEF Range
  <1>4. q \in Injection(1 .. Len(q), T)
    BY <1>2, <1>3, Fun_IsInj DEF IsInjective
  <1>5. Cardinality(1 .. Len(q)) <= Cardinality(T)
    BY <1>1, <1>4, FS_Injection
  <1>6. Cardinality(1 .. Len(q)) = Len(q)
    <2>1. ASSUME NEW m \in Nat PROVE Cardinality(1 .. m) = m
      BY FS_Interval
    <2> QED
      BY <1>2, <2>1
  <1> QED
    BY <1>1, <1>2, <1>5, <1>6

\* A page with an owner can be put on its free list.
LEMMA DropFits ==
    ASSUME TypeOK, IndexInv, NEW s \in Slot, keys[s] # ZeroKey
    PROVE  ~CacheDropOverruns(s)
  <1> DEFINE c == s[1]
  <1>1. c \in Chunk /\ s[2] \in Page
    BY SlotFacts
  <1>2. s[2] < len[c] /\ s[2] \notin Free(c)
    BY DEF IndexInv, OwnersSound, InUse
  <1>3. Free(c) \subseteq 0 .. len[c] - 1 /\ IsInjective(free_pages[c])
    BY <1>1 DEF IndexInv, FreeListsSound
  <1>4. len[c] \in 0 .. PagesPerChunk
    BY <1>1 DEF TypeOK
  <1>5. len[c] \in Nat /\ s[2] \in 0 .. len[c] - 1
    BY <1>1, <1>2, <1>4, PagesAssumption DEF Page
  <1>6. free_pages[c] \in Seq(Page)
    BY <1>1, FreeFacts
  <1>7. Len(free_pages[c]) + 1 <= len[c]
    BY <1>2, <1>3, <1>5, <1>6, ShortList DEF Free
  <1> QED
    BY <1>5, <1>6, <1>7 DEF CacheDropOverruns

\* When no page is without an owner, every chunk is handed out to its end and
\* has nothing on its free list, and the other way round.
LEMMA FullCache ==
    ASSUME TypeOK, IndexInv, NEW c \in Chunk
    PROVE  (\A p \in Page : keys[<<c, p>>] # ZeroKey)
             <=> free_pages[c] = << >> /\ len[c] = PagesPerChunk
  <1>1. len[c] \in 0 .. PagesPerChunk /\ PagesPerChunk \in Nat \ {0}
    BY PagesAssumption DEF TypeOK
  <1>2. free_pages[c] \in Seq(Page) /\ Free(c) \subseteq Page
    BY FreeFacts
  <1>3. \A p \in Page : <<c, p>> \in Slot /\ (keys[<<c, p>>] # ZeroKey <=> p < len[c] /\ p \notin Free(c))
    BY SlotFacts DEF IndexInv, OwnersSound, InUse
  <1>4. ASSUME \A p \in Page : keys[<<c, p>>] # ZeroKey
        PROVE  free_pages[c] = << >> /\ len[c] = PagesPerChunk
    <2>1. PagesPerChunk - 1 < len[c]
      <3>1. PagesPerChunk - 1 \in Page
        BY <1>1 DEF Page
      <3> QED
        BY <1>3, <1>4, <3>1
    <2>2. Free(c) = {}
      BY <1>2, <1>3, <1>4
    <2>3. Len(free_pages[c]) \in Nat /\ DOMAIN free_pages[c] = 1 .. Len(free_pages[c])
      BY <1>2
    <2>4. ~(1 \in DOMAIN free_pages[c])
      BY <2>2 DEF Free, Range
    <2>5. Len(free_pages[c]) = 0
      BY <2>3, <2>4
    <2> QED
      BY <1>1, <1>2, <2>1, <2>5
  <1>5. ASSUME free_pages[c] = << >>, len[c] = PagesPerChunk, NEW p \in Page
        PROVE  keys[<<c, p>>] # ZeroKey
    <2>1. Free(c) = {}
      BY <1>5 DEF Free, Range
    <2> QED
      BY <1>1, <1>3, <1>5, <2>1 DEF Page
  <1> QED
    BY <1>4, <1>5

\* The pages without an owner can be counted.
LEMMA UnownedFinite == IsFiniteSet(Unowned) /\ Cardinality(Unowned) \in Nat
  BY SlotsFinite, FS_Subset, FS_CardinalityType DEF Unowned

\* The count is zero when all pages have owners.
LEMMA CountZero ==
    ASSUME FreePagesCounted
    PROVE  total_free_pages = 0 <=> \A s \in Slot : keys[s] # ZeroKey
  <1>1. total_free_pages = 0 <=> Unowned = {}
    BY UnownedFinite, FS_EmptySet DEF FreePagesCounted, Unowned
  <1> QED
    BY <1>1 DEF Unowned

\* cache_drop frees one page, and counts it.
LEMMA CacheDropCount ==
    ASSUME FreePagesCounted, TypeOK, NEW s \in Slot, keys[s] # ZeroKey, CacheDrop(s)
    PROVE  FreePagesCounted'
  <1>1. Unowned' = Unowned \cup {s} /\ s \notin Unowned
    BY DEF Unowned, CacheDrop, TypeOK
  <1>2. Cardinality(Unowned') = Cardinality(Unowned) + 1
    BY <1>1, UnownedFinite, FS_AddElement
  <1>3. total_free_pages' = total_free_pages + 1
    BY DEF CacheDrop
  <1> QED
    BY <1>2, <1>3 DEF FreePagesCounted, Unowned

\* An allocation takes one page, and counts it.
LEMMA AllocNextCount ==
    ASSUME NonzeroKeys, FreePagesCounted, TypeOK, IndexInv, NEW k \in Key, AllocNext(k)
    PROVE  FreePagesCounted'
  <1>1. PICK s \in Slot : s = wlock'
    BY AllocNextIndex
  <1>2. keys[s] = ZeroKey /\ keys' = [keys EXCEPT ![s] = k] /\ k # ZeroKey
    BY <1>1, AllocNextIndex DEF NonzeroKeys
  <1>3. Unowned' = Unowned \ {s} /\ s \in Unowned
    BY <1>1, <1>2 DEF Unowned, TypeOK
  <1>4. Cardinality(Unowned') = Cardinality(Unowned) - 1
    BY <1>3, UnownedFinite, FS_RemoveElement
  <1>5. total_free_pages' = total_free_pages - 1
    BY DEF AllocNext
  <1> QED
    BY <1>4, <1>5 DEF FreePagesCounted, Unowned

\* The pages of a chunk but the first.
LEMMA RestOfChunk ==
    ASSUME NEW c \in Chunk
    PROVE  Cardinality({s \in Slot : s[1] = c /\ s[2] # 0}) = PagesPerChunk - 1
  <1> DEFINE S == {s \in Slot : s[1] = c /\ s[2] # 0}
             n == PagesPerChunk - 1
             f == [p \in 1 .. n |-> <<c, p>>]
  <1>1. PagesPerChunk \in Nat \ {0} /\ n \in Nat
    BY PagesAssumption
  <1>2. f \in [1 .. n -> S]
    BY <1>1, SlotFacts DEF Page
  <1>3. \A a, b \in 1 .. n : f[a] = f[b] => a = b
    OBVIOUS
  <1>4. \A s \in S : \E p \in 1 .. n : f[p] = s
    <2> SUFFICES ASSUME NEW s \in S PROVE \E p \in 1 .. n : f[p] = s
      OBVIOUS
    <2>1. s[2] \in 1 .. n /\ s = <<c, s[2]>>
      BY <1>1, SlotFacts DEF Page
    <2> QED
      BY <2>1
  <1> HIDE DEF S, f
  <1>5. f \in Bijection(1 .. n, S)
    BY <1>2, <1>3, <1>4, Fun_IsBij
  <1>6. ExistsBijection(1 .. n, S)
    BY <1>5 DEF ExistsBijection
  <1> QED
    BY <1>1, <1>6, FS_CountingElements DEF S

\* An eviction counts the pages of the chunk, less the one it gives away.
LEMMA AllocEvictingCount ==
    ASSUME NonzeroKeys, FreePagesCounted, TypeOK, IndexInv, NEW k \in Key, AllocEvicting(k)
    PROVE  FreePagesCounted'
  <1>1. PICK c \in Chunk :
          LET dropped == {s \in Slot : s[1] = c /\ s[2] < len[c]}
          IN  /\ TakePage(<<c, 0>>, k, HmapRemove({keys[s] : s \in dropped}),
                          [s \in Slot |-> IF s \in dropped THEN ZeroKey ELSE keys[s]])
              /\ total_free_pages' =
                     total_free_pages + (len[c] - Len(free_pages[c])) - 1
    BY DEF AllocEvicting
  <1>2. \A s \in Slot : keys[s] # ZeroKey
    BY CountZero DEF AllocEvicting
  <1>3. free_pages[c] = << >> /\ len[c] = PagesPerChunk
    BY <1>2, FullCache, SlotFacts
  <1>4. total_free_pages' = PagesPerChunk - 1
    BY <1>1, <1>3, PagesAssumption DEF AllocEvicting
  <1>5. <<c, 0>> \in Slot /\ k # ZeroKey
    BY PagesAssumption, SlotFacts DEF Page, NonzeroKeys
  <1>6. \A s \in Slot : keys'[s] = IF s = <<c, 0>> THEN k
                                   ELSE IF s[1] = c THEN ZeroKey ELSE keys[s]
    <2>1. \A s \in Slot : s[1] = c => s[2] < len[c]
      BY <1>3, SlotFacts, PagesAssumption DEF Page
    <2> QED
      BY <1>1, <1>5, <2>1 DEF TakePage
  <1>7. Unowned' = {s \in Slot : s[1] = c /\ s[2] # 0}
    BY <1>2, <1>5, <1>6, SlotFacts DEF Unowned
  <1> QED
    BY <1>4, <1>7, RestOfChunk DEF FreePagesCounted, Unowned

\* Every step keeps the count of free pages.
LEMMA NextCount ==
    NonzeroKeys /\ SmallIndices /\ CountInv /\ [Next]_vars => CountInv'
  <1> SUFFICES ASSUME NonzeroKeys, SmallIndices, CountInv, [Next]_vars
               PROVE  CountInv'
    OBVIOUS
  <1>0. SafetyInv' /\ SafetyInv /\ TypeInv /\ TypeOK /\ IndexInv
    BY NextSafety DEF CountInv, SafetyInv, TypeInv
  <1>1. ASSUME UNCHANGED <<keys, total_free_pages>>, exited' # "free list overrun"
        PROVE  CountInv'
    BY <1>0, <1>1 DEF CountInv, NoDoubleDrop, FreePagesCounted
  <1>2. ASSUME NEW s \in Slot, keys[s] # ZeroKey, CacheDrop(s), exited' = exited
        PROVE  CountInv'
    BY <1>0, <1>2, CacheDropCount DEF CountInv, NoDoubleDrop
  <1>3. ASSUME NEW k \in Key, AllocNext(k) \/ AllocEvicting(k)
        PROVE  CountInv'
    BY <1>0, <1>3, AllocNextCount, AllocEvictingCount
       DEF CountInv, NoDoubleDrop, AllocNext, AllocEvicting
  <1>15. CASE AllocFails
    BY <1>1, <1>15 DEF AllocFails, Exit, cacheVars
  <1>4. CASE UNCHANGED vars
    BY <1>1, <1>4 DEF vars, cacheVars, CountInv, NoDoubleDrop
  <1>5. ASSUME NEW h \in Handle, NEW k \in Key, ReadLock(h, k)
        PROVE  CountInv'
    BY <1>1, <1>5 DEF ReadLock, cacheVars, CountInv, NoDoubleDrop
  <1>6. ASSUME NEW h \in Handle,
               ReadUnlockInvalid(h) \/ ReadUnlockKeep(h) \/ ReadUnlockExits(h)
        PROVE  CountInv'
    BY <1>1, <1>6 DEF ReadUnlockInvalid, ReadUnlockKeep, ReadUnlockExits, Exit,
                      cacheVars, CountInv, NoDoubleDrop
  <1>7. ASSUME NEW h \in Handle, ReadUnlockDrop(h)
        PROVE  CountInv'
    <2>1. PICK s \in Slot : s = locks[h].head /\ keys[s] # ZeroKey
      BY <1>0, <1>7, ValidHead DEF ReadUnlockDrop, LockValid, NonzeroKeys
    <2>2. ~CacheDropOverruns(s)
      BY <1>0, <2>1, DropFits
    <2> QED
      BY <1>2, <1>7, <2>1, <2>2 DEF ReadUnlockDrop
  <1>8. ASSUME NEW h \in Handle, NEW k \in Key, WriteLockNew(h, k)
        PROVE  CountInv'
    BY <1>3, <1>8, <1>15 DEF WriteLockNew, WriteAlloc
  <1>9. ASSUME NEW h \in Handle, WriteLockMiss(h) \/ WriteLockLost(h)
        PROVE  CountInv'
    <2>1. locks[h].key \in Key
      BY <1>0, <1>9 DEF WriteLockMiss, WriteLockLost, TypeInv, LocksWellFormed
    <2> QED
      BY <1>3, <1>9, <1>15, <2>1 DEF WriteLockMiss, WriteLockLost, WriteAlloc
  <1>10. ASSUME NEW h \in Handle, WriteLockUpgrade(h)
         PROVE  CountInv'
    BY <1>1, <1>10 DEF WriteLockUpgrade, CountInv, NoDoubleDrop
  <1>11. ASSUME NEW v \in TailValue, WritePage(v)
         PROVE  CountInv'
    BY <1>1, <1>11 DEF WritePage, cacheVars, CountInv, NoDoubleDrop
  <1>12. CASE WriteUnlockKeep
    BY <1>1, <1>12 DEF WriteUnlockKeep, CountInv, NoDoubleDrop
  <1>13. CASE WriteUnlockDrop
    <2>1. PICK s \in Slot : s = wlock /\ keys[s] # ZeroKey
      BY <1>0, <1>13, WriterFacts DEF WriteUnlockDrop, IsWriter, NonzeroKeys
    <2>2. ~CacheDropOverruns(s)
      BY <1>0, <2>1, DropFits
    <2> QED
      BY <1>2, <1>13, <2>1, <2>2 DEF WriteUnlockDrop
  <1>14. ASSUME NEW s \in Slot, KernelReclaim(s)
         PROVE  CountInv'
    BY <1>1, <1>14 DEF KernelReclaim, cacheVars, CountInv, NoDoubleDrop
  <1> QED
    BY <1>4, <1>5, <1>6, <1>7, <1>8, <1>9, <1>10, <1>11, <1>12, <1>13, <1>14
       DEF Next, Call

\* A new cache has all pages free.
LEMMA InitCount == Init => CountInv
  <1> SUFFICES ASSUME Init PROVE CountInv
    OBVIOUS
  <1>1. Unowned = Slot
    BY DEF Init, Unowned
  <1> QED
    BY <1>1, InitSafety, SlotsFinite DEF CountInv, NoDoubleDrop, FreePagesCounted, Unowned, Init

\* The count of free pages is exact, and no page is dropped twice.
THEOREM CountHolds ==
    ASSUME NonzeroKeys, SmallIndices
    PROVE  Spec => []CountInv
  <1>1. Init => CountInv
    BY InitCount
  <1>2. CountInv /\ [Next]_vars => CountInv'
    BY NextCount
  <1> QED
    BY <1>1, <1>2, PTL DEF Spec

\* total_free_pages is the number of pages without an owner.
THEOREM FreePagesExact ==
    ASSUME NonzeroKeys, SmallIndices
    PROVE  Spec => []FreePagesCounted
  <1>1. CountInv => FreePagesCounted
    BY DEF CountInv
  <1> QED
    BY <1>1, CountHolds, PTL

\* cache_drop's check of its free list never fails.
THEOREM DropsFit ==
    ASSUME NonzeroKeys, SmallIndices
    PROVE  Spec => []NoDoubleDrop
  <1>1. CountInv => NoDoubleDrop
    BY DEF CountInv
  <1> QED
    BY <1>1, CountHolds, PTL

\* A dropped key is no longer in the cache (lazyfree_cache.h:26), but for the
\* key 0: the run drop_of_key_zero shows the one case there is.
THEOREM DropsRemove ==
    ASSUME NonzeroKeys
    PROVE  Spec => DropRemoves
  <1>1. ASSUME NEW h \in Handle, NEW k \in Key,
               ReadUnlockDrop(h), locks[h].key = k, exited' = "no"
        PROVE  ~InCache(k)'
    <2>1. keys[locks[h].head] = k /\ k # ZeroKey
      BY <1>1 DEF ReadUnlockDrop, LockValid, NonzeroKeys
    <2>2. map' = HmapRemove({k})
      BY <1>1, <2>1 DEF ReadUnlockDrop, Exit, CacheDrop
    <2>3. map'[k] = EMPTY_DESC
      BY <2>1, <2>2 DEF HmapRemove
    <2> QED
      BY <2>3 DEF InCache
  <1>2. [\A h \in Handle, k \in Key :
             ReadUnlockDrop(h) /\ locks[h].key = k /\ exited' = "no" => ~InCache(k)']_vars
    BY <1>1
  <1> QED
    BY <1>2, PTL DEF DropRemoves

\* An upgraded lock's page is its key's (lazyfree_cache.c:519) while every index
\* fits into _index: the run upgrade_of_large_index has one that does not.
THEOREM UpgradesOwned ==
    ASSUME NonzeroKeys, SmallIndices
    PROVE  Spec => []UpgradedPageOwned
  <1>1. SafetyInv => UpgradedPageOwned
    BY DEF SafetyInv, WriterInv, IsWriter, UpgradedPageOwned
  <1> QED
    BY <1>1, SafetyHolds, PTL

\* While the count is exact, there is a page on it if and only if some chunk
\* has one.
LEMMA FullExact ==
    ASSUME CountInv
    PROVE  EvictsExactlyWhenFull
  <1>1. TypeOK /\ IndexInv /\ FreePagesCounted
    BY DEF CountInv, SafetyInv, TypeInv
  <1>2. total_free_pages = 0 <=> \A s \in Slot : keys[s] # ZeroKey
    BY <1>1, CountZero
  <1>3. (\A s \in Slot : keys[s] # ZeroKey)
          <=> \A c \in Chunk : \A p \in Page : keys[<<c, p>>] # ZeroKey
    BY SlotFacts
  <1>4. ASSUME NEW c \in Chunk
        PROVE  ~Available(c) <=> free_pages[c] = << >> /\ len[c] = PagesPerChunk
    <2>1. len[c] \in 0 .. PagesPerChunk /\ PagesPerChunk \in Nat
      BY <1>1, PagesAssumption DEF TypeOK
    <2> QED
      BY <2>1 DEF Available
  <1> QED
    BY <1>1, <1>2, <1>3, <1>4, FullCache DEF EvictsExactlyWhenFull

\* The search is at every chunk once.
LEMMA AheadCovers ==
    ASSUME TypeOK, NEW c \in Chunk
    PROVE  \E n \in 0 .. NumChunks - 1 : Ahead(n) = c
  <1>1. current_chunk_idx \in Chunk /\ NumChunks \in Nat \ {0}
    <2>1. NumChunks \in Nat \ {0}
      BY ChunksAssumption
    <2> QED
      BY <2>1 DEF TypeOK
  <1>2. CASE c >= current_chunk_idx
    <2>1. c - current_chunk_idx \in 0 .. NumChunks - 1 /\ c \in 0 .. NumChunks - 1
      BY <1>1, <1>2 DEF Chunk
    <2>2. Ahead(c - current_chunk_idx) = c
      BY <1>1, <2>1 DEF Ahead, Chunk
    <2> QED
      BY <2>1, <2>2
  <1>3. CASE c < current_chunk_idx
    <2>1. c + NumChunks - current_chunk_idx \in 0 .. NumChunks - 1
      BY <1>1, <1>3 DEF Chunk
    <2>2. Ahead(c + NumChunks - current_chunk_idx) = (c + NumChunks) % NumChunks
      BY <1>1, <2>1 DEF Ahead, Chunk
    <2>3. (c + NumChunks) % NumChunks = c
      BY <1>1 DEF Chunk
    <2> QED
      BY <2>1, <2>2, <2>3
  <1> QED
    BY <1>1, <1>2, <1>3 DEF Chunk

\* The exit after a failed search (lazyfree_cache.c:455) is never reached.
LEMMA NeverFails ==
    ASSUME CountInv
    PROVE  ~AllocFails
  <1>1. TypeOK
    BY DEF CountInv, SafetyInv, TypeInv
  <1>2. ASSUME AllocFails, NEW c \in Chunk PROVE ~Available(c)
    BY <1>1, <1>2, AheadCovers DEF AllocFails
  <1> QED
    BY <1>2, FullExact DEF AllocFails, EvictsExactlyWhenFull

\* A chunk is evicted exactly when there is no page left, so that the search
\* for one always ends with a page (NeverFails).
THEOREM EvictionExact ==
    ASSUME NonzeroKeys, SmallIndices
    PROVE  Spec => []EvictsExactlyWhenFull
  <1>1. CountInv => EvictsExactlyWhenFull
    BY FullExact
  <1> QED
    BY <1>1, CountHolds, PTL

----------------------------------------------------------------------------
(* The cache implements DiscardableMap: each call and each step of the     *)
(* kernel is one step of the map under the refinement mapping of           *)
(* LazyfreeImplementsMap, or changes nothing that the mapping shows.       *)

\* The hash map leads to the write-locked page, or its key was evicted.
WlockMapped == wlock # EMPTY_DESC => map[keys[wlock]] \in {wlock, EMPTY_DESC}

RefinementInv == SafetyInv /\ WlockMapped

----------------------------------------------------------------------------
(* The invariant *)

\* The locked page stays the one of its key until the write lock is given back.
LEMMA NextWlockMapped ==
    ASSUME NonzeroKeys, SmallIndices, RefinementInv, [Next]_vars
    PROVE  WlockMapped'
  <1>0. TypeInv /\ TypeOK /\ IndexInv /\ ValidLockIsCurrent
    BY DEF RefinementInv, SafetyInv, TypeInv
  <1>1. CASE wlock' = EMPTY_DESC
    BY <1>1 DEF WlockMapped
  <1>2. CASE UNCHANGED <<map, keys, wlock>>
    BY <1>2 DEF WlockMapped, RefinementInv
  <1>3. ASSUME NEW k \in Key, AllocNext(k) \/ AllocEvicting(k)
        PROVE  WlockMapped'
    BY <1>0, <1>3, AllocIndex DEF AllocEffect, WlockMapped
  <1>14. CASE AllocFails
    BY <1>2, <1>14 DEF AllocFails, Exit, cacheVars
  <1>4. ASSUME NEW h \in Handle, WriteLockUpgrade(h)
        PROVE  WlockMapped'
    <2>1. /\ locks[h].head \in Slot /\ keys[locks[h].head] = locks[h].key
          /\ map[locks[h].key] \in {locks[h].head, EMPTY_DESC}
      BY <1>0, <1>4, ValidHead DEF WriteLockUpgrade, LockValid, ValidLockIsCurrent
    <2>2. wlock' = locks[h].head
      BY <1>4, <2>1, SlotFacts, IndexFacts DEF SmallIndices, WriteLockUpgrade
    <2> QED
      BY <1>4, <2>1, <2>2 DEF WriteLockUpgrade, WlockMapped
  <1>5. CASE UNCHANGED vars
    BY <1>2, <1>5 DEF vars, cacheVars
  <1>6. ASSUME NEW h \in Handle, NEW k \in Key, ReadLock(h, k)
        PROVE  WlockMapped'
    BY <1>2, <1>6 DEF ReadLock, cacheVars
  <1>7. ASSUME NEW h \in Handle,
               ReadUnlockInvalid(h) \/ ReadUnlockKeep(h) \/ ReadUnlockExits(h)
        PROVE  WlockMapped'
    BY <1>2, <1>7 DEF ReadUnlockInvalid, ReadUnlockKeep, ReadUnlockExits, Exit, cacheVars
  <1>8. ASSUME NEW h \in Handle, ReadUnlockDrop(h)
        PROVE  WlockMapped'
    BY <1>1, <1>2, <1>8 DEF ReadUnlockDrop, Exit, cacheVars
  <1>9. ASSUME NEW h \in Handle, NEW k \in Key, WriteLockNew(h, k)
        PROVE  WlockMapped'
    BY <1>3, <1>9, <1>14 DEF WriteLockNew, WriteAlloc
  <1>10. ASSUME NEW h \in Handle, WriteLockMiss(h) \/ WriteLockLost(h)
         PROVE  WlockMapped'
    <2>1. locks[h].key \in Key
      BY <1>0, <1>10 DEF WriteLockMiss, WriteLockLost, TypeInv, LocksWellFormed
    <2> QED
      BY <1>3, <1>10, <1>14, <2>1 DEF WriteLockMiss, WriteLockLost, WriteAlloc
  <1>11. ASSUME NEW v \in TailValue, WritePage(v)
         PROVE  WlockMapped'
    BY <1>2, <1>11 DEF WritePage, cacheVars
  <1>12. CASE WriteUnlockKeep \/ WriteUnlockDrop
    BY <1>1, <1>2, <1>12 DEF WriteUnlockKeep, WriteUnlockDrop, Exit, cacheVars
  <1>13. ASSUME NEW s \in Slot, KernelReclaim(s)
         PROVE  WlockMapped'
    BY <1>2, <1>13 DEF KernelReclaim, cacheVars
  <1> QED
    BY <1>4, <1>5, <1>6, <1>7, <1>8, <1>9, <1>10, <1>11, <1>12, <1>13 DEF Next, Call

----------------------------------------------------------------------------
(* What a step does to the values of the map *)

\* A key keeps its value when neither its page nor the page's owner or
\* contents change, and the page is write-locked neither before nor after.
LEMMA SameValue ==
    ASSUME NEW k \in Key, map'[k] = map[k],
           map[k] # EMPTY_DESC =>
               /\ keys'[map[k]] = keys[map[k]]
               /\ entries'[map[k]] = entries[map[k]]
               /\ bit0'[map[k]] = bit0[map[k]]
               /\ map[k] # wlock /\ map[k] # wlock'
    PROVE  storeBar'[k] = storeBar[k]
  BY DEF storeBar, Cached, LockCheck, PayloadTail, ClearBit0

\* Values that are lost, and only those, make a Without step.
LEMMA LosesOnly ==
    ASSUME NEW S \in SUBSET Key,
           \A k \in S : ~Cached(k)',
           \A k \in Key \ S : storeBar'[k] = storeBar[k]
    PROVE  storeBar' = Abstract!Without(S)
  <1>1. \A k \in Key : storeBar'[k] = IF k \in S THEN Absent ELSE storeBar[k]
    BY DEF storeBar
  <1> QED
    BY <1>1 DEF storeBar, Abstract!Without

----------------------------------------------------------------------------
(* The steps *)

\* A step of the map, or none.
MapStep == [Abstract!MapNext]_(Abstract!mapVars)

\* A call that returns without touching pages, owners or the hash map.
LEMMA NothingChanges ==
    ASSUME UNCHANGED <<memVars, cacheVars>>
    PROVE  MapStep
  <1>1. UNCHANGED <<entries, lazy, keys, bit0, map, wlock>>
    BY DEF memVars, cacheVars
  <1>2. storeBar' = storeBar
    BY <1>1 DEF storeBar, Cached, LockCheck, PayloadTail, ClearBit0
  <1>3. writingBar' = writingBar /\ pendingBar' = pendingBar
    BY <1>1 DEF writingBar, pendingBar
  <1> QED
    BY <1>2, <1>3 DEF MapStep, Abstract!mapVars

\* What cache_drop takes from the map: the value of the page's key.
LEMMA DropLoses ==
    ASSUME NonzeroKeys, TypeOK, IndexInv, NEW s \in Slot,
           NEW k \in Key, keys[s] = k, CacheDrop(s), UNCHANGED memVars,
           wlock \in {s, EMPTY_DESC}, wlock' = EMPTY_DESC
    PROVE  storeBar' = Abstract!Without({k})
  <1>1. /\ map' = [j \in Key |-> IF j = k THEN EMPTY_DESC ELSE map[j]]
        /\ keys' = [keys EXCEPT ![s] = ZeroKey]
        /\ UNCHANGED <<entries, bit0>>
    BY DEF CacheDrop, HmapRemove, NonzeroKeys, memVars
  <1>2. ~Cached(k)'
    BY <1>1 DEF Cached
  <1>3. ASSUME NEW j \in Key \ {k}
        PROVE  storeBar'[j] = storeBar[j]
    <2>1. map'[j] = map[j]
      BY <1>1
    <2>2. ASSUME map[j] # EMPTY_DESC
          PROVE  map[j] \in Slot /\ map[j] # s
      BY <2>2 DEF TypeOK, IndexInv, MapSound
    <2> QED
      BY <1>1, <2>1, <2>2, SameValue, SlotFacts DEF TypeOK
  <1> DEFINE S == {k}
  <1>4. S \in SUBSET Key /\ \A j \in S : ~Cached(j)'
    BY <1>2
  <1> QED
    BY <1>3, <1>4, LosesOnly

\* lazyfree_read_unlock(drop = true) loses the value of the lock's key.
LEMMA ReadUnlockDropStep ==
    ASSUME NonzeroKeys, RefinementInv, NEW h \in Handle, ReadUnlockDrop(h)
    PROVE  MapStep
  <1> DEFINE s == locks[h].head
  <1>1. CASE Exit("free list overrun")
    BY <1>1, NothingChanges DEF Exit
  <1>2. CASE CacheDrop(s) /\ UNCHANGED <<memVars, wlock>>
    <2>1. TypeInv /\ TypeOK /\ IndexInv
      BY DEF RefinementInv, SafetyInv, TypeInv
    <2>2. s \in Slot /\ keys[s] \in Key /\ wlock = EMPTY_DESC
      BY <2>1, ValidHead DEF ReadUnlockDrop, LockValid
    <2> HIDE DEF s
    <2>3. PICK k \in Key : k = keys[s]
      BY <2>2
    <2>4. storeBar' = Abstract!Without({k})
      BY <1>2, <2>1, <2>2, <2>3, DropLoses
    <2>5. UNCHANGED <<writingBar, pendingBar>>
      BY <1>2, <2>2 DEF writingBar, pendingBar
    <2>6. Abstract!Lose
      BY <2>4, <2>5 DEF Abstract!Lose
    <2> QED
      BY <2>6 DEF MapStep, Abstract!MapNext
  <1> QED
    BY <1>1, <1>2 DEF ReadUnlockDrop

\* lazyfree_write_alloc locks a new page: the key's value is lost, and that
\* of every key on an evicted chunk.
LEMMA AllocStep ==
    ASSUME NonzeroKeys, RefinementInv, TypeOK', wlock = EMPTY_DESC,
           NEW k \in Key, AllocNext(k) \/ AllocEvicting(k)
    PROVE  MapStep
  <1>1. TypeOK /\ IndexInv
    BY DEF RefinementInv, SafetyInv, TypeInv
  <1>2. AllocEffect(k)
    BY <1>1, AllocIndex
  <1> DEFINE S == {j \in Key : ~Cached(j)'}
  <1>3. k \in S
    BY <1>2 DEF AllocEffect, Cached
  <1>4. ASSUME NEW j \in Key \ S
        PROVE  storeBar'[j] = storeBar[j]
    <2>1. Cached(j)' /\ j # k
      BY <1>3
    <2>2. map'[j] = map[j] /\ map[j] # EMPTY_DESC /\ map[j] # wlock' /\ keys'[map[j]] = j
      BY <1>2, <2>1 DEF AllocEffect, Cached
    <2>3. map[j] \in Slot \ {wlock'} /\ j # ZeroKey
      BY <1>1, <2>2 DEF TypeOK, NonzeroKeys
    <2>4. keys'[map[j]] = keys[map[j]] /\ entries'[map[j]] = entries[map[j]] /\ bit0' = bit0
      BY <1>2, <2>2, <2>3 DEF AllocEffect
    <2> QED
      BY <2>2, <2>4, SameValue
  <1>5. storeBar' = Abstract!Without(S)
    <2> DEFINE T == S
    <2>1. T \in SUBSET Key /\ \A j \in T : ~Cached(j)'
      OBVIOUS
    <2>2. \A j \in Key \ T : storeBar'[j] = storeBar[j]
      BY <1>4
    <2> HIDE DEF T
    <2>3. storeBar' = Abstract!Without(T)
      BY <2>1, <2>2, LosesOnly
    <2> QED
      BY <2>3 DEF T
  <1>6. wlock' \in Slot /\ wlock' # EMPTY_DESC /\ keys'[wlock'] = k
    BY <1>2, SlotFacts DEF AllocEffect
  <1>7. writingBar = NoKey /\ writingBar' = k
    BY <1>6 DEF writingBar
  <1>8. pendingBar' \in Byte \cup {Garbage}
    BY <1>6 DEF pendingBar, TypeOK, MemTypeOK
  <1> HIDE DEF S
  <1>9. S \in SUBSET Key
    BY DEF S
  <1>10. Abstract!LockNew(k)
    BY <1>3, <1>5, <1>7, <1>8, <1>9 DEF Abstract!LockNew
  <1> QED
    BY <1>10 DEF MapStep, Abstract!MapNext

\* lazyfree_write_lock upgrades a read lock: the page it locks is the one the
\* key's value was on, and holds that value.
LEMMA UpgradeStep ==
    ASSUME SmallIndices, RefinementInv, TypeOK', NEW h \in Handle, WriteLockUpgrade(h)
    PROVE  MapStep
  <1>1. TypeInv /\ TypeOK /\ IndexInv /\ ValidLockIsCurrent
    BY DEF RefinementInv, SafetyInv, TypeInv
  <1>2. LockValid(h) /\ wlock = EMPTY_DESC
    BY DEF WriteLockUpgrade
  <1>3. PICK page \in Slot : page = locks[h].head
    BY <1>1, <1>2, ValidHead
  <1>4. PICK k \in Key : k = locks[h].key
    BY <1>1, <1>2, ValidHead
  <1>5. keys[page] = k /\ map[k] \in {page, EMPTY_DESC}
    BY <1>1, <1>2, <1>3, <1>4 DEF LockValid, ValidLockIsCurrent
  <1>6. /\ wlock' = page
        /\ entries' = [entries EXCEPT ![page] = PayloadTail(page)]
        /\ lazy'[page] = FALSE
        /\ UNCHANGED <<keys, bit0, map>>
    BY <1>3, SlotFacts, IndexFacts DEF SmallIndices, WriteLockUpgrade
  <1>7. page # EMPTY_DESC
    BY <1>3, SlotFacts
  <1>8. ~Cached(k)'
    BY <1>5, <1>6 DEF Cached
  <1>9. ASSUME NEW j \in Key \ {k}
        PROVE  storeBar'[j] = storeBar[j]
    <2>1. ASSUME map[j] # EMPTY_DESC
          PROVE  map[j] \in Slot /\ map[j] # page
      BY <1>1, <1>5, <2>1 DEF TypeOK, IndexInv, MapSound
    <2> QED
      BY <1>1, <1>2, <1>6, <2>1, SameValue DEF TypeOK, MemTypeOK
  <1>10. storeBar' = Abstract!Without({k})
    <2> DEFINE S == {k}
    <2>1. S \in SUBSET Key /\ \A j \in S : ~Cached(j)'
      BY <1>8
    <2> QED
      BY <1>9, <2>1, LosesOnly
  <1>11. writingBar = NoKey /\ writingBar' = k
    BY <1>2, <1>5, <1>6, <1>7 DEF writingBar
  <1>12. pendingBar' = PayloadTail(page) /\ PayloadTail(page) \in Byte
    BY <1>1, <1>6, <1>7, PayloadTailType DEF pendingBar, TypeOK, MemTypeOK
  <1>13. storeBar[k] # Absent => storeBar[k] = PayloadTail(page)
    BY <1>5 DEF storeBar, Cached
  <1>14. Abstract!LockUpgrade(k)
    BY <1>10, <1>11, <1>12, <1>13 DEF Abstract!LockUpgrade
  <1> QED
    BY <1>14 DEF MapStep, Abstract!MapNext

\* What is write-locked, and for which key.
LEMMA LockedPage ==
    ASSUME RefinementInv, wlock # EMPTY_DESC
    PROVE  /\ wlock \in Slot /\ keys[wlock] \in Key
           /\ map[keys[wlock]] \in {wlock, EMPTY_DESC}
           /\ writingBar = keys[wlock]
           /\ \A j \in Key \ {keys[wlock]} : map[j] # wlock
  <1>1. wlock \in Slot /\ keys[wlock] \in Key
    BY WriterFacts DEF RefinementInv, IsWriter
  <1>2. \A j \in Key : map[j] = wlock => keys[wlock] = j
    BY DEF RefinementInv, SafetyInv, IndexInv, MapSound
  <1> QED
    BY <1>1, <1>2 DEF RefinementInv, WlockMapped, writingBar

\* The caller stores to the locked page: no other caller sees it yet.
LEMMA WritePageStep ==
    ASSUME NoKey \notin Key, RefinementInv, NEW v \in TailValue, WritePage(v)
    PROVE  MapStep
  <1>1. TypeOK
    BY DEF RefinementInv, SafetyInv, TypeInv
  <1>2. /\ wlock # EMPTY_DESC
        /\ entries' = [entries EXCEPT ![wlock] = v]
        /\ lazy' = [lazy EXCEPT ![wlock] = FALSE]
        /\ UNCHANGED <<keys, bit0, map, wlock>>
    BY DEF WritePage, StoreTail, cacheVars
  <1>3. wlock \in Slot /\ writingBar \in Key
    BY <1>2, LockedPage
  <1>4. ASSUME NEW k \in Key PROVE storeBar'[k] = storeBar[k]
    <2>1. CASE map[k] = wlock
      BY <1>2, <2>1 DEF storeBar, Cached
    <2>2. CASE map[k] # wlock
      BY <1>1, <1>2, <2>2, SameValue DEF TypeOK, MemTypeOK
    <2> QED
      BY <2>1, <2>2
  <1>5. storeBar' = storeBar
    BY <1>4 DEF storeBar
  <1>6. writingBar' = writingBar /\ writingBar # NoKey
    BY <1>2, <1>3 DEF writingBar
  <1>7. pendingBar' = v /\ v \in Byte
    BY <1>1, <1>2, <1>3, TailAssumption DEF pendingBar, TypeOK, MemTypeOK
  <1>8. Abstract!Put(v)
    BY <1>5, <1>6, <1>7 DEF Abstract!Put
  <1> QED
    BY <1>7, <1>8 DEF MapStep, Abstract!MapNext

\* lazyfree_write_unlock(drop = false): the key has what was last put on its
\* page; no value, as before, if the hash map does not lead there any more.
LEMMA WriteUnlockKeepStep ==
    ASSUME NoKey \notin Key, RefinementInv, WriteUnlockKeep
    PROVE  MapStep
  <1>1. TypeOK
    BY DEF RefinementInv, SafetyInv, TypeInv
  <1>2. /\ wlock # EMPTY_DESC /\ wlock' = EMPTY_DESC
        /\ bit0' = [bit0 EXCEPT ![wlock] = entries[wlock] % 2 = 1]
        /\ entries' = [entries EXCEPT ![wlock] = SetBit0(entries[wlock])]
        /\ UNCHANGED <<keys, map>>
    BY DEF WriteUnlockKeep, StoreTail
  <1>3. PICK s \in Slot : s = wlock
    BY <1>2, LockedPage
  <1>4. PICK k \in Key : k = keys[s]
    BY <1>2, <1>3, LockedPage
  <1>5. /\ map[k] \in {s, EMPTY_DESC} /\ writingBar = k /\ k # NoKey
        /\ \A j \in Key \ {k} : map[j] # s
    BY <1>2, <1>3, <1>4, LockedPage
  <1>6. writingBar' = NoKey /\ pendingBar' = Garbage
    BY <1>2 DEF writingBar, pendingBar
  <1>7. ASSUME NEW j \in Key \ {k} PROVE storeBar'[j] = storeBar[j]
    <2>1. ASSUME map[j] # EMPTY_DESC
          PROVE  map[j] \in Slot \ {s}
      BY <1>1, <1>5, <2>1 DEF TypeOK
    <2> QED
      BY <1>1, <1>2, <1>3, <2>1, SameValue DEF TypeOK, MemTypeOK
  <1>8. entries[s] \in Byte
    BY <1>1 DEF TypeOK, MemTypeOK
  <1>9. CASE map[k] = s
    <2>1. entries'[s] = SetBit0(entries[s]) /\ bit0'[s] = (entries[s] % 2 = 1)
      BY <1>1, <1>2, <1>3 DEF TypeOK, MemTypeOK
    <2>2. Cached(k)'
      BY <1>2, <1>3, <1>4, <1>8, <1>9, <2>1, Bit0RoundTrip, SlotFacts DEF Cached, LockCheck
    <2>3. PayloadTail(s)' = entries[s]
      <3>1. PayloadTail(s)' = IF bit0'[s] THEN entries'[s] ELSE ClearBit0(entries'[s])
        BY DEF PayloadTail, ClearBit0
      <3> QED
        BY <1>8, <2>1, <3>1, Bit0RoundTrip
    <2>4. storeBar'[k] = entries[s]
      BY <1>2, <1>9, <2>2, <2>3 DEF storeBar, PayloadTail, ClearBit0
    <2>5. storeBar' = [storeBar EXCEPT ![k] = entries[s]]
      BY <1>7, <2>4 DEF storeBar
    <2>6. pendingBar # Garbage => entries[s] = pendingBar
      BY <1>3 DEF pendingBar
    <2>7. Abstract!Commit
      BY <1>5, <1>6, <1>8, <2>5, <2>6 DEF Abstract!Commit
    <2> QED
      BY <2>7 DEF MapStep, Abstract!MapNext
  <1>10. CASE map[k] = EMPTY_DESC
    <2>1. storeBar'[k] = storeBar[k]
      BY <1>2, <1>10, SameValue
    <2>2. storeBar' = storeBar
      BY <1>7, <2>1 DEF storeBar
    <2>3. Abstract!Abort
      BY <1>5, <1>6, <2>2 DEF Abstract!Abort
    <2> QED
      BY <2>3 DEF MapStep, Abstract!MapNext
  <1> QED
    BY <1>5, <1>9, <1>10

\* lazyfree_write_unlock(drop = true).
LEMMA WriteUnlockDropStep ==
    ASSUME NonzeroKeys, NoKey \notin Key, RefinementInv, WriteUnlockDrop
    PROVE  MapStep
  <1>1. CASE Exit("free list overrun")
    BY <1>1, NothingChanges DEF Exit
  <1>2. CASE /\ CacheDrop(wlock)
             /\ wlock' = EMPTY_DESC
             /\ UNCHANGED memVars
    <2>1. TypeOK /\ IndexInv
      BY DEF RefinementInv, SafetyInv, TypeInv
    <2>2. wlock # EMPTY_DESC
      BY DEF WriteUnlockDrop
    <2>3. PICK s \in Slot : s = wlock
      BY <2>2, LockedPage
    <2>4. PICK k \in Key : k = keys[s]
      BY <2>2, <2>3, LockedPage
    <2>5. CacheDrop(s) /\ wlock = s
      BY <1>2, <2>3
    <2>6. storeBar' = Abstract!Without({k})
      BY <1>2, <2>1, <2>4, <2>5, DropLoses
    <2>7. ~Cached(k) /\ writingBar = k
      BY <2>2, <2>3, <2>4, LockedPage DEF Cached
    <2>8. storeBar[k] = Absent
      BY <2>7 DEF storeBar
    <2>9. storeBar' = storeBar
      BY <2>6, <2>8 DEF Abstract!Without, storeBar
    <2>10. writingBar' = NoKey /\ pendingBar' = Garbage
      BY <1>2 DEF writingBar, pendingBar
    <2>11. Abstract!Abort
      BY <2>7, <2>9, <2>10 DEF Abstract!Abort
    <2> QED
      BY <2>11 DEF MapStep, Abstract!MapNext
  <1> QED
    BY <1>1, <1>2 DEF WriteUnlockDrop

\* The kernel takes a cached page, whose value is lost, or the locked page
\* before the caller's first store: zeros are what it holds then.
LEMMA KernelReclaimStep ==
    ASSUME RefinementInv, NEW s \in Slot, KernelReclaim(s)
    PROVE  MapStep
  <1>1. TypeOK
    BY DEF RefinementInv, SafetyInv, TypeInv
  <1>2. /\ lazy[s]
        /\ entries' = [entries EXCEPT ![s] = 0]
        /\ lazy' = [lazy EXCEPT ![s] = FALSE]
        /\ UNCHANGED <<keys, bit0, map, wlock>>
    BY DEF KernelReclaim, Reclaim, cacheVars
  <1>3. entries'[s] = 0 /\ lazy'[s] = FALSE
    BY <1>1, <1>2 DEF TypeOK, MemTypeOK
  <1>4. \A t \in Slot \ {s} : entries'[t] = entries[t] /\ lazy'[t] = lazy[t]
    BY <1>1, <1>2 DEF TypeOK, MemTypeOK
  <1>5. writingBar' = writingBar
    BY <1>2 DEF writingBar
  <1>6. ASSUME NEW k \in Key, map[k] # s \/ map[k] = wlock
        PROVE  storeBar'[k] = storeBar[k]
    <2>1. CASE map[k] = wlock
      BY <1>2, <2>1 DEF storeBar, Cached
    <2>2. CASE map[k] # wlock
      BY <1>1, <1>2, <1>4, <1>6, <2>2, SameValue DEF TypeOK
    <2> QED
      BY <2>1, <2>2
  <1>7. CASE s = wlock
    <2>1. storeBar' = storeBar
      BY <1>6, <1>7 DEF storeBar
    <2>2. wlock # EMPTY_DESC
      BY <1>7, SlotFacts
    <2>3. pendingBar = Garbage /\ pendingBar' = 0
      BY <1>2, <1>3, <1>7, <2>2 DEF pendingBar
    <2>4. Abstract!Settle
      BY <1>5, <2>1, <2>3, ByteFacts DEF Abstract!Settle
    <2> QED
      BY <2>4 DEF MapStep, Abstract!MapNext
  <1>8. CASE s # wlock
    <2> DEFINE S == {k \in Key : map[k] = s}
    <2>1. ASSUME NEW k \in S PROVE ~Cached(k)'
      BY <1>2, <1>3 DEF Cached, LockCheck
    <2>2. \A k \in Key \ S : storeBar'[k] = storeBar[k]
      BY <1>6
    <2>3. S \in SUBSET Key
      OBVIOUS
    <2> HIDE DEF S
    <2>4. storeBar' = Abstract!Without(S)
      BY <2>1, <2>2, <2>3, LosesOnly
    <2>5. pendingBar' = pendingBar
      BY <1>1, <1>2, <1>4, <1>8 DEF pendingBar, TypeOK
    <2>6. Abstract!Lose
      BY <1>5, <2>3, <2>4, <2>5 DEF Abstract!Lose
    <2> QED
      BY <2>6 DEF MapStep, Abstract!MapNext
  <1> QED
    BY <1>7, <1>8

\* Every step of the cache is a step of the map or shows nothing in it.
LEMMA NextStep ==
    ASSUME NonzeroKeys, SmallIndices, NoKey \notin Key,
           RefinementInv, TypeOK', [Next]_vars
    PROVE  MapStep
  <1>1. CASE UNCHANGED vars
    BY <1>1, NothingChanges DEF vars
  <1>2. ASSUME NEW h \in Handle, NEW k \in Key, ReadLock(h, k)
        PROVE  MapStep
    BY <1>2, NothingChanges DEF ReadLock
  <1>11. CASE AllocFails
    BY <1>11, NothingChanges DEF AllocFails, Exit
  <1>3. ASSUME NEW h \in Handle, NEW k \in Key, WriteLockNew(h, k)
        PROVE  MapStep
    BY <1>3, <1>11, AllocStep DEF WriteLockNew, WriteAlloc
  <1>4. ASSUME NEW h \in Handle,
               ReadUnlockInvalid(h) \/ ReadUnlockKeep(h) \/ ReadUnlockExits(h)
        PROVE  MapStep
    BY <1>4, NothingChanges DEF ReadUnlockInvalid, ReadUnlockKeep, ReadUnlockExits, Exit
  <1>5. ASSUME NEW h \in Handle, ReadUnlockDrop(h)
        PROVE  MapStep
    BY <1>5, ReadUnlockDropStep
  <1>6. ASSUME NEW h \in Handle, WriteLockMiss(h) \/ WriteLockLost(h)
        PROVE  MapStep
    <2>1. locks[h].key \in Key /\ wlock = EMPTY_DESC
      BY <1>6 DEF WriteLockMiss, WriteLockLost, RefinementInv, SafetyInv, TypeInv,
                  LocksWellFormed
    <2> QED
      BY <1>6, <1>11, <2>1, AllocStep DEF WriteLockMiss, WriteLockLost, WriteAlloc
  <1>7. ASSUME NEW h \in Handle, WriteLockUpgrade(h)
        PROVE  MapStep
    BY <1>7, UpgradeStep
  <1>8. ASSUME NEW v \in TailValue, WritePage(v)
        PROVE  MapStep
    BY <1>8, WritePageStep
  <1>9. CASE WriteUnlockKeep \/ WriteUnlockDrop
    BY <1>9, WriteUnlockKeepStep, WriteUnlockDropStep
  <1>10. ASSUME NEW s \in Slot, KernelReclaim(s)
         PROVE  MapStep
    BY <1>10, KernelReclaimStep
  <1> QED
    BY <1>1, <1>2, <1>3, <1>4, <1>5, <1>6, <1>7, <1>8, <1>9, <1>10 DEF Next, Call

----------------------------------------------------------------------------
(* The theorem *)

\* A new cache is an empty map.
LEMMA InitMaps == Init => Abstract!MapInit
  <1> SUFFICES ASSUME Init PROVE Abstract!MapInit
    OBVIOUS
  <1>1. wlock = EMPTY_DESC /\ \A k \in Key : map[k] = EMPTY_DESC
    BY DEF Init
  <1> QED
    BY <1>1 DEF Abstract!MapInit, storeBar, writingBar, pendingBar, Cached

\* The cache never returns a value for a key but the one last written under
\* that key's write lock, however calls, evictions and reclaims interleave:
\* it implements the map that may only lose values.
THEOREM Refinement ==
    ASSUME NonzeroKeys, SmallIndices, NoKey \notin Key
    PROVE  Spec => ImplementsMap
  <1>1. Init => RefinementInv
    BY InitSafety DEF RefinementInv, WlockMapped, Init
  <1>2. RefinementInv /\ [Next]_vars => RefinementInv'
    BY NextSafety, NextWlockMapped DEF RefinementInv
  <1>3. RefinementInv /\ [Next]_vars => [Abstract!MapNext]_(Abstract!mapVars)
    <2>1. RefinementInv /\ RefinementInv' /\ [Next]_vars => MapStep
      BY NextStep DEF RefinementInv, SafetyInv, TypeInv
    <2> QED
      BY <1>2, <2>1 DEF MapStep
  <1> QED
    BY <1>1, <1>2, <1>3, InitMaps, PTL DEF Spec, ImplementsMap, Abstract!MapSpec

=============================================================================
