--------------------------- MODULE LazyfreeCache ---------------------------
(***************************************************************************)
(* struct lazyfree_cache and its four operations (lazyfree_cache.c): the   *)
(* hash map from keys to pages, the chunks with their free lists, the      *)
(* optimistic read locks and the single write lock.                        *)
(*                                                                         *)
(* Callers run the functions in one critical section (lazyfree_cache.h),   *)
(* so each call is one step; between the calls other callers run, and the  *)
(* kernel may reclaim pages.  A handle is a lazyfree_rlock_t of a caller.  *)
(***************************************************************************)
EXTENDS DiscardableMemory, Sequences, FiniteSets, Functions

CONSTANTS
    Key,          \* the keys in use
    ZeroKey,      \* the key 0, a key like any other to the callers; the code
                  \* also marks a page without an owner with it
    Handle,       \* the callers' lock structures
    TailValue,    \* what callers store in the last byte of a page
    IndexRange    \* how many values rlock_impl_t._index has: 2^16 (uint16_t)

ASSUME TailAssumption == TailValue \subseteq Byte
ASSUME IndexRangeAssumption == IndexRange \in Nat \ {0}

VARIABLES
    keys,               \* chunk->keys: the owner of a page, ZeroKey if it has none
    bit0,               \* chunk->bit0: the payload's lowest bit, moved out of tail
    free_pages,         \* chunk->free_pages, as a stack; its length is the count
    len,                \* chunk->len: pages handed out at least once
    current_chunk_idx,
    map,                \* cache->map and, for key 0, cache->key0
    total_free_pages,
    wlock,              \* <<wlock_chunk, wlock_index>>
    locks,              \* the handles, and what their callers hold them for
    exited              \* the message the program exited with

cacheVars == <<keys, bit0, free_pages, len, current_chunk_idx, map,
               total_free_pages, wlock>>
vars == <<memVars, cacheVars, locks, exited>>

\* Values a pointer or a descriptor has besides the pages.
EMPTY_DESC == <<-1, 0>>
NULL       == <<-1, 0>>
EMPTY_PAGE == <<-1, 1>>

\* lazyfree_rlock_t, and what its caller holds it for.
Lock == [mode : {"idle", "read", "write"},
         key  : Key \cup {ZeroKey},
         head : Slot \cup {NULL, EMPTY_PAGE},
         tail : Byte]

Idle == [mode |-> "idle", key |-> ZeroKey, head |-> NULL, tail |-> 0]

TypeOK ==
    /\ MemTypeOK
    /\ keys \in [Slot -> Key \cup {ZeroKey}]
    /\ bit0 \in [Slot -> BOOLEAN]
    /\ free_pages \in [Chunk -> Seq(Page)]
    /\ len \in [Chunk -> 0 .. PagesPerChunk]
    /\ current_chunk_idx \in Chunk
    /\ map \in [Key -> Slot \cup {EMPTY_DESC}]
    /\ total_free_pages \in Int
    /\ wlock \in Slot \cup {EMPTY_DESC}
    /\ locks \in [Handle -> Lock]
    /\ exited \in {"no", "LOCK CHECK FAILED", "free list overrun", "Failed to find free page"}

\* lazyfree_cache_new_ex.  bit0 and keys come from malloc; no page is looked
\* at before write_alloc sets its key and write_unlock its bit.
Init ==
    /\ MemInit
    /\ keys = [s \in Slot |-> ZeroKey]
    /\ bit0 = [s \in Slot |-> FALSE]
    /\ free_pages = [c \in Chunk |-> << >>]
    /\ len = [c \in Chunk |-> 0]
    /\ current_chunk_idx = 0
    /\ map = [k \in Key |-> EMPTY_DESC]
    /\ total_free_pages = NumChunks * PagesPerChunk
    /\ wlock = EMPTY_DESC
    /\ locks = [h \in Handle |-> Idle]
    /\ exited = "no"

----------------------------------------------------------------------------
(* Helpers *)

SetBit0(b)   == b + 1 - (b % 2)          \* b | 1
ClearBit0(b) == b - (b % 2)              \* b & ~1

\* bit_to_tail: the payload's last byte, put together again.
PayloadTail(s) == IF bit0[s] THEN entries[s] ELSE ClearBit0(entries[s])

\* LAZYFREE_LOCK_CHECK on a lock whose head is page s.
LockCheck(s) == entries[s] > 0

\* Callers do not lock a key that another of their locks is for (README,
\* "locking the same page twice is not allowed").
Held(k) == \E h \in Handle : locks[h].mode # "idle" /\ locks[h].key = k

\* Mutant: dropped keys stay in the hash map.
HmapRemoveNothing(S) == map

\* hmap_remove of every key in S.  hashmap_remove refuses the null key, and
\* key0 is not looked at.
HmapRemove(S) == [k \in Key |-> IF k \in S \ {ZeroKey} THEN EMPTY_DESC ELSE map[k]]

Exit(message) == /\ exited' = message
                 /\ UNCHANGED <<memVars, cacheVars, locks>>

\* Mutant: the dropped page is not counted as free.
CacheDropUncounted(s) ==
    /\ free_pages' = [free_pages EXCEPT ![s[1]] = Append(@, s[2])]
    /\ map' = HmapRemove({keys[s]})
    /\ keys' = [keys EXCEPT ![s] = ZeroKey]
    /\ UNCHANGED <<bit0, len, current_chunk_idx, total_free_pages>>

\* cache_drop.
CacheDrop(s) ==
    /\ free_pages' = [free_pages EXCEPT ![s[1]] = Append(@, s[2])]
    /\ total_free_pages' = total_free_pages + 1
    /\ map' = HmapRemove({keys[s]})
    /\ keys' = [keys EXCEPT ![s] = ZeroKey]
    /\ UNCHANGED <<bit0, len, current_chunk_idx>>

\* free_pages_count > len after the push: statistics, then exit(1).
CacheDropOverruns(s) == Len(free_pages[s[1]]) + 1 > len[s[1]]

----------------------------------------------------------------------------
(* Read locks *)

\* lazyfree_read_lock.
ReadLock(h, k) ==
    /\ wlock = EMPTY_DESC
    /\ locks[h] = Idle
    /\ ~Held(k)
    /\ LET desc == map[k]
           hit  == desc # EMPTY_DESC /\ keys[desc] = k /\ entries[desc] # 0
       IN  locks' = [locks EXCEPT ![h] =
               [mode |-> "read", key |-> k,
                head |-> IF hit THEN desc ELSE EMPTY_PAGE,
                tail |-> IF hit THEN PayloadTail(desc) ELSE 0]]
    /\ UNCHANGED <<memVars, cacheVars, exited>>

\* lazyfree_read_unlock returns false: there was no page, or it has another
\* owner by now.
ReadUnlockInvalid(h) ==
    /\ wlock = EMPTY_DESC
    /\ locks[h].mode = "read"
    /\ locks[h].head # EMPTY_PAGE =>
           LockCheck(locks[h].head) /\ keys[locks[h].head] # locks[h].key
    /\ locks' = [locks EXCEPT ![h] = Idle]
    /\ UNCHANGED <<memVars, cacheVars, exited>>

\* lazyfree_read_unlock exits: the page reads as zeros.
ReadUnlockExits(h) ==
    /\ wlock = EMPTY_DESC
    /\ locks[h].mode = "read"
    /\ locks[h].head # EMPTY_PAGE
    /\ ~LockCheck(locks[h].head)
    /\ Exit("LOCK CHECK FAILED")

\* Mutant: rlock_check_key is left out.
LockValidAnyKey(h) ==
    /\ locks[h].mode = "read"
    /\ locks[h].head # EMPTY_PAGE
    /\ LockCheck(locks[h].head)

\* The lock still covers a page of its key.
LockValid(h) ==
    /\ locks[h].mode = "read"
    /\ locks[h].head # EMPTY_PAGE
    /\ LockCheck(locks[h].head)
    /\ keys[locks[h].head] = locks[h].key

\* lazyfree_read_unlock(drop = false) returns true.
ReadUnlockKeep(h) ==
    /\ wlock = EMPTY_DESC
    /\ LockValid(h)
    /\ locks' = [locks EXCEPT ![h] = Idle]
    /\ UNCHANGED <<memVars, cacheVars, exited>>

\* lazyfree_read_unlock(drop = true) of a valid lock.
ReadUnlockDrop(h) ==
    /\ wlock = EMPTY_DESC
    /\ LockValid(h)
    /\ LET s == locks[h].head
       IN  \/ /\ CacheDropOverruns(s)
              /\ Exit("free list overrun")
           \/ /\ ~CacheDropOverruns(s)
              /\ CacheDrop(s)
              /\ locks' = [locks EXCEPT ![h] = Idle]
              /\ UNCHANGED <<memVars, wlock, exited>>

----------------------------------------------------------------------------
(* Page allocation *)

\* Mutant: one blank page too many.
AvailableOffByOne(c) == free_pages[c] # << >> \/ len[c] <= PagesPerChunk

Available(c) == free_pages[c] # << >> \/ len[c] < PagesPerChunk

\* Mutant: the search stays at the current chunk.
AheadNot(n) == current_chunk_idx

\* The chunk n places after the current one.
Ahead(n) == (current_chunk_idx + n) % NumChunks

\* The end of lazyfree_write_alloc: page s is locked and belongs to k.
TakePage(s, k, m, ks) ==
    /\ wlock' = s
    /\ map' = [m EXCEPT ![k] = s]
    /\ keys' = [ks EXCEPT ![s] = k]

\* alloc_new_page finds a page: in the current chunk or, after advance_chunk
\* over those with none left, in the first one that has; from its free list
\* before its blank pages.
AllocNext(k) ==
    /\ total_free_pages # 0
    /\ \E n \in 0 .. NumChunks - 1 :
        LET c == Ahead(n)
        IN  /\ Available(c)
            /\ \A m \in 0 .. n - 1 : ~Available(Ahead(m))
            /\ MadvImpl({Ahead(m) : m \in 0 .. n - 1})
            /\ current_chunk_idx' = c
            /\ \/ LET last == Len(free_pages[c])
                  IN  /\ last > 0
                      /\ free_pages' = [free_pages EXCEPT
                                            ![c] = SubSeq(@, 1, last - 1)]
                      /\ TakePage(<<c, free_pages[c][last]>>, k, map, keys)
                      /\ UNCHANGED len
               \/ /\ free_pages[c] = << >>
                  /\ len' = [len EXCEPT ![c] = @ + 1]
                  /\ TakePage(<<c, len[c]>>, k, map, keys)
                  /\ UNCHANGED free_pages
    /\ total_free_pages' = total_free_pages - 1
    /\ UNCHANGED <<entries, bit0, exited>>

\* alloc_new_page has been at every chunk: statistics, then exit(1).
AllocFails ==
    /\ total_free_pages # 0
    /\ \A n \in 0 .. NumChunks - 1 : ~Available(Ahead(n))
    /\ Exit("Failed to find free page")

\* Mutant: the evicted pages keep their owners.
AllocEvictingKeepsKeys(k) ==
    /\ total_free_pages = 0
    /\ \E c \in Chunk :
        LET dropped == {s \in Slot : s[1] = c /\ s[2] < len[c]}
        IN  /\ MadvDontneed(c)
            /\ TakePage(<<c, 0>>, k, HmapRemove({keys[s] : s \in dropped}),
                        keys)
            /\ total_free_pages' =
                   total_free_pages + (len[c] - Len(free_pages[c])) - 1
            /\ len' = [len EXCEPT ![c] = 1]
            /\ free_pages' = [free_pages EXCEPT ![c] = << >>]
            /\ current_chunk_idx' = c
    /\ UNCHANGED <<bit0, exited>>

\* alloc_new_page evicts a random chunk (drop_next_chunk) and takes its
\* first page.
AllocEvicting(k) ==
    /\ total_free_pages = 0
    /\ \E c \in Chunk :
        LET dropped == {s \in Slot : s[1] = c /\ s[2] < len[c]}
        IN  /\ MadvDontneed(c)
            /\ TakePage(<<c, 0>>, k, HmapRemove({keys[s] : s \in dropped}),
                        [s \in Slot |-> IF s \in dropped THEN ZeroKey ELSE keys[s]])
            /\ total_free_pages' =
                   total_free_pages + (len[c] - Len(free_pages[c])) - 1
            /\ len' = [len EXCEPT ![c] = 1]
            /\ free_pages' = [free_pages EXCEPT ![c] = << >>]
            /\ current_chunk_idx' = c
    /\ UNCHANGED <<bit0, exited>>

----------------------------------------------------------------------------
(* The write lock *)

\* lazyfree_write_alloc, called with handle h; its head is left as given.
WriteAlloc(h, k, head) ==
    \/ AllocFails
    \/ /\ AllocNext(k) \/ AllocEvicting(k)
       /\ locks' = [locks EXCEPT ![h] = [mode |-> "write", key |-> k,
                                         head |-> head, tail |-> @.tail]]

\* lazyfree_write_lock with a lock that was never read-locked.
WriteLockNew(h, k) ==
    /\ wlock = EMPTY_DESC
    /\ locks[h] = Idle
    /\ ~Held(k)
    /\ WriteAlloc(h, k, NULL)

\* lazyfree_write_lock after a miss.
WriteLockMiss(h) ==
    /\ wlock = EMPTY_DESC
    /\ locks[h].mode = "read"
    /\ locks[h].head = EMPTY_PAGE
    /\ WriteAlloc(h, locks[h].key, EMPTY_PAGE)

\* lazyfree_write_lock with a lock whose page has another owner or reads as
\* zeros: the head is reset, and a new page allocated.
WriteLockLost(h) ==
    /\ wlock = EMPTY_DESC
    /\ locks[h].mode = "read"
    /\ locks[h].head # EMPTY_PAGE
    /\ ~LockValid(h)
    /\ WriteAlloc(h, locks[h].key, NULL)

\* Mutant: the upgrade does not check the page's key.
WriteLockUpgradeAnyKey(h) ==
    /\ wlock = EMPTY_DESC
    /\ LockValidAnyKey(h)
    /\ wlock' = locks[h].head
    /\ entries' = [entries EXCEPT ![wlock'] = PayloadTail(wlock')]
    /\ lazy' = [lazy EXCEPT ![wlock'] = FALSE]
    /\ locks' = [locks EXCEPT ![h].mode = "write"]
    /\ UNCHANGED <<keys, bit0, free_pages, len, current_chunk_idx, map,
                   total_free_pages, exited>>

\* lazyfree_write_lock upgrades a valid read lock.  The first byte is stored
\* to, which takes the page out of MADV_FREE; the page it then locks is the
\* one with the index as kept in the 16 bits of _index.
WriteLockUpgrade(h) ==
    /\ wlock = EMPTY_DESC
    /\ LockValid(h)
    /\ LET page == locks[h].head
           w    == <<page[1], page[2] % IndexRange>>
       IN  /\ wlock' = w
           /\ entries' = [entries EXCEPT ![w] = PayloadTail(w)]
           /\ lazy' = [s \in Slot |-> /\ lazy[s]
                                      /\ s # page
                                      /\ s = w => bit0[w]]
    /\ locks' = [locks EXCEPT ![h].mode = "write"]
    /\ UNCHANGED <<keys, bit0, free_pages, len, current_chunk_idx, map,
                   total_free_pages, exited>>

\* The caller stores to the page it got, the last byte included.
WritePage(v) ==
    /\ wlock # EMPTY_DESC
    /\ StoreTail(wlock, v)
    /\ UNCHANGED <<cacheVars, locks, exited>>

\* The write lock's handle is done with.
ReleaseWriter ==
    locks' = [h \in Handle |-> IF locks[h].mode = "write" THEN Idle ELSE locks[h]]

\* Mutant: the payload's lowest bit is not kept.
WriteUnlockKeepNoBit0 ==
    /\ wlock # EMPTY_DESC
    /\ wlock' = EMPTY_DESC
    /\ StoreTail(wlock, SetBit0(entries[wlock]))
    /\ ReleaseWriter
    /\ UNCHANGED <<keys, bit0, free_pages, len, current_chunk_idx, map,
                   total_free_pages, exited>>

\* lazyfree_write_unlock(drop = false): bit_from_tail.
WriteUnlockKeep ==
    /\ wlock # EMPTY_DESC
    /\ wlock' = EMPTY_DESC
    /\ bit0' = [bit0 EXCEPT ![wlock] = entries[wlock] % 2 = 1]
    /\ StoreTail(wlock, SetBit0(entries[wlock]))
    /\ ReleaseWriter
    /\ UNCHANGED <<keys, free_pages, len, current_chunk_idx, map,
                   total_free_pages, exited>>

\* lazyfree_write_unlock(drop = true).
WriteUnlockDrop ==
    /\ wlock # EMPTY_DESC
    /\ \/ /\ CacheDropOverruns(wlock)
          /\ Exit("free list overrun")
       \/ /\ ~CacheDropOverruns(wlock)
          /\ CacheDrop(wlock)
          /\ wlock' = EMPTY_DESC
          /\ ReleaseWriter
          /\ UNCHANGED <<memVars, exited>>

----------------------------------------------------------------------------
\* The kernel takes a page.
KernelReclaim(s) ==
    /\ Reclaim(s)
    /\ UNCHANGED <<cacheVars, locks, exited>>

Call(h) ==
    \/ \E k \in Key : ReadLock(h, k) \/ WriteLockNew(h, k)
    \/ ReadUnlockInvalid(h) \/ ReadUnlockExits(h)
    \/ ReadUnlockKeep(h) \/ ReadUnlockDrop(h)
    \/ WriteLockMiss(h) \/ WriteLockLost(h) \/ WriteLockUpgrade(h)

\* Nothing happens after exit(1).
Next ==
    /\ exited = "no"
    /\ \/ \E h \in Handle : Call(h)
       \/ \E v \in TailValue : WritePage(v)
       \/ WriteUnlockKeep \/ WriteUnlockDrop
       \/ \E s \in Slot : KernelReclaim(s)

Spec == Init /\ [][Next]_vars

----------------------------------------------------------------------------
(* Invariants *)

\* A page is in use when it was handed out and is not on its chunk's free list.
Free(c)  == Range(free_pages[c])
InUse(s) == s[2] < len[s[1]] /\ s[2] \notin Free(s[1])

\* cache_drop, alloc_current_chunk, drop_next_chunk: no page is twice on a
\* free list, and what is on one was handed out before.
FreeListsSound ==
    \A c \in Chunk :
        /\ Free(c) \subseteq 0 .. len[c] - 1
        /\ IsInjective(free_pages[c])

\* A page has an owner exactly while it is in use, through every drop,
\* eviction and reuse.
OwnersSound == \A s \in Slot : keys[s] # ZeroKey <=> InUse(s)

\* The hash map never leads to a page of another key or to a free page.
MapSound == \A k \in Key : map[k] # EMPTY_DESC => keys[map[k]] = k

\* total_free_pages counts the pages without an owner, through every
\* allocation, drop and eviction.
FreePagesCounted ==
    total_free_pages = Cardinality({s \in Slot : keys[s] = ZeroKey})

\* alloc_new_page evicts a chunk when, and only when, no chunk has a page
\* left: cached pages are not thrown away while there is room, and the search
\* over the chunks never fails ("This means total_free_pages is not updated
\* correctly", lazyfree_cache.c:454).
EvictsExactlyWhenFull ==
    total_free_pages = 0 <=> \A c \in Chunk : ~Available(c)

\* No page is dropped twice: cache_drop's check of its free list never fails.
NoDoubleDrop == exited # "free list overrun"

\* While lazyfree_read_unlock would accept a lock, its tail is the byte the
\* page holds: no page is handed to a new owner and back, or rewritten,
\* behind a lock that still passes both checks (README, "ABA is not possible").
ValidLockIsCurrent ==
    \A h \in Handle :
        LockValid(h) => /\ locks[h].tail = PayloadTail(locks[h].head)
                        /\ map[locks[h].key] \in {locks[h].head, EMPTY_DESC}

\* There is one writer, the write-locked page is its own, and no read lock
\* that is still valid covers that page.
WriteLockExclusive ==
    wlock # EMPTY_DESC =>
        /\ \E h \in Handle :
               /\ keys[wlock] = locks[h].key
               /\ \A g \in Handle : locks[g].mode = "write" <=> g = h
        /\ \A h \in Handle : LockValid(h) => locks[h].head # wlock

=============================================================================
