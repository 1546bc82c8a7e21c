# A TLA+ development of LazyFree cache

LazyFree cache keeps 4 KB pages in memory the kernel may take back
(`MADV_FREE`). A page that was taken reads as zeros, and the cache finds out
afterwards: readers lock a page *optimistically*, read it in place, and check
at the end that it was still theirs. This directory models the program in
TLA+, model-checks it with TLC on small instances, and proves its central
invariants with TLAPS for every size of the cache.

Paths are relative to the root of the repository (`src/cache/lazyfree_cache.c`
is the file of that name in it).

## 1. Inventory

| component | files | state | operations |
|---|---|---|---|
| cache core | `src/cache/lazyfree_cache.c`, `include/lazyfree_cache.h`, `include/cache.h` | 32 chunks (mapping, `bit0`, free list, `keys`, `len`), hash map and `key0`, current chunk, count of free pages, write lock | `read_lock`, `read_unlock`, `write_lock`, `write_alloc`, `write_unlock`, `new_ex`, `free`, statistics |
| discardable memory | `src/cache/util.c`, the kernel | the bytes of the pages, which of them are under `MADV_FREE` | `mmap` of anonymous memory or a file, `MADV_FREE`, `MADV_DONTNEED`, reclaim |
| page protocol | `lazyfree_read` in `include/cache.h`, `lazyfree_cache.c:238-248`, `:324-334`, `:504-526` | the bytes of one page, `bit0` | reading in place with the check before and after, the upgrade's first-byte dance, moving the lowest bit of the tail |
| fall-through cache | `src/cache/fallthrough_cache.c`, `src/util/refill.c` | none of its own: a cache, a refill callback | `init`, `get`, `drop`, `destroy` |
| generic interface | `src/cache/cache.c`, `include/cache.h` | which chunks are of which kind | the cache under three names: lazyfree, anon, disk |
| stub | `src/cache/stub_cache.c` | one page | the cache's interface, storing nothing |
| lookup | `hmap_get`, `hmap_put` in `src/cache/lazyfree_cache.c` | the global union `hmap_access` | reinterprets a pointer of the hash map as a descriptor |
| hash map | `src/include/hashmap.h` (vendored, used as a library) | table of slots with linear probing | `get`, `put`, `remove`, growth |
| bit set | `src/include/bitset.h` | the bytes of `bit0` | `new`, `put`, `get` |
| random numbers | `src/include/random.h` | a seed per translation unit | `next`, `rotate` |
| tests and benchmark | `src/test.c`, `src/benchmark.c`, `src/include/testlib.h` | key sets, each a permutation and a position in it; the count of refills | the smoke test, hit rates, warm-up and measurement of hot and cold keys |

**How they interact.** A caller asks for a key's page. The hash map gives a
descriptor, chunk and index; the chunk's `keys` says whether the page is still
that key's; the last byte of the page says whether the kernel left it in
place. The payload's lowest bit of that byte is moved to `bit0`, so that a
live page never ends in zero. A write locks one page; there is only one
write lock. A page comes from the current chunk; when that has none left, the
chunk is given to the kernel (`MADV_FREE`) and the next one becomes current;
when no chunk has one left, a random chunk is evicted. The fall-through cache
wraps this in `get` with a callback for misses. The tests and the benchmark run
over the fall-through cache, over any of the implementations.

**What makes it hard.** All calls run in one critical section, but a *lock* is
held over many calls of others and over anything the kernel does: its page may
be reclaimed, evicted, handed to another key, dropped and handed back. A page
the kernel took keeps its owner in `keys`, so a key written again has two pages
that name it as the owner. The count of free pages decides whether the cache
evicts. 0 is a key and also the mark of a page without an owner. `_index` has
16 bits, an index 32. The tests assert hit rates while the kernel may take any
page of an old chunk.

**What makes each component correct.**

* cache core: free lists, owners, hash map and the count agree; no page is free
  twice or owned twice; a lock that passes its checks covers what it was taken
  on; the writer is alone on its page; eviction happens exactly when the cache
  is full; over all, a key never yields a value but the last one written to it.
* page protocol: no torn or zeroed read is accepted; the tail survives the round
  trip through `bit0`; an upgrade that succeeds has a page the kernel no longer
  takes.
* fall-through cache: `get` yields what the refill callback gives for the key,
  returns, and hits while the kernel took nothing and no chunk had to be evicted.
* stub: never a hit. Bit set: an array of booleans.
* tests and benchmark: what they assert of the cache fails only for the reasons the cache
  has to lose a key; a suite leaves nothing behind; a pass asks for the keys it should.
* lookup: whatever runs at the same time, no page of another key is taken.
* hash map: a map, under collisions, removal and growth.

## 2. Plan

The order is that of importance: first the index and the locks of the cache,
then what is below it (a page), above it (the fall-through cache) and beside it
(the hash map, the lookup).

| | module | composed of | state |
|---|---|---|---|
| 1 | `DiscardableMemory`, `LazyfreeCache` | | checked, invariants proved |
| 2 | `LazyfreeClaims`: what the documentation says and the code does not keep | `LazyfreeCache` | checked |
| 3 | `DiscardableMap`, `LazyfreeImplementsMap`: abstract specification and refinement | `LazyfreeCache` | checked, proved |
| 4 | `LazyfreeProofs`: the invariants, the refinement, and two claims under their hypotheses | `LazyfreeImplementsMap`, `LazyfreeClaims` | proved |
| 5 | `PageProtocol`, `PageProtocolProofs` | | checked, invariants proved |
| 6 | `FallthroughCache`, `FallthroughProofs` | `LazyfreeCache` | checked, safety proved |
| 7 | `HmapAccess`, `HmapAccessProofs` | | checked, proved |
| 8 | `Hashmap`, `HashmapProofs` | | checked, proved |
| 9 | `Keyset`, `CacheTests`, `TestProofs` | `FallthroughCache` | checked, safety proved |
| 10 | `Bitset`, `StubCache` | | proved |

Open: an invariant of the cache that also covers the key 0 as it is.

## 3. The modules and the code

**`DiscardableMemory`** is the memory below the cache. A page is a pair of chunk
and index. Of its bytes only the last is kept (`entries`), because it alone
decides whether the page is live. `lazy` says that the page is under `MADV_FREE`
and was not written to since. `MadvImpl`, `MadvDontneed`, `StoreTail` and
`Reclaim` are what `util.c` and the kernel do: the kernel may zero a lazy page at
any time; `MADV_DONTNEED` zeroes anonymous pages at once and leaves a shared
file mapping as it is; files may hold what another run left (`LeftoverBytes`),
as they are opened without `O_TRUNC`.

**`LazyfreeCache`** is `struct lazyfree_cache` and its operations. Its variables
have the names of the fields. A step is one call: the header asks callers to
make all calls in one critical section. Between the calls anything else
happens: other calls, stores to the write-locked page, reclaims. A handle is a
caller's `lazyfree_rlock_t`.

| action | code |
|---|---|
| `ReadLock` | `lazyfree_read_lock`, hit and miss |
| `ReadUnlockInvalid`, `ReadUnlockExits`, `ReadUnlockKeep`, `ReadUnlockDrop` | `lazyfree_read_unlock`: returns false, exits, returns true, drops |
| `WriteLockNew`, `WriteLockMiss`, `WriteLockLost`, `WriteLockUpgrade` | `lazyfree_write_lock`: lock never taken, miss, page lost or another key's, page kept |
| `AllocNext`, `AllocEvicting`, `AllocFails` (in `WriteAlloc`) | `lazyfree_write_alloc`: a page from the first chunk that has one, or after the eviction of a random chunk; the exit when no chunk has one |
| `WritePage` | the caller's stores |
| `WriteUnlockKeep`, `WriteUnlockDrop` | `lazyfree_write_unlock` |
| `KernelReclaim` | the kernel |

`exited` records an `exit(1)`; nothing happens after it. There are three: a page that
reads as lost in `read_unlock`, an overrun of a free list in `cache_drop`, and a search
for a page that finds none in `alloc_new_page`. The last two are never reached
(`NoDoubleDrop`, and the lemma `NeverFails` with `EvictsExactlyWhenFull`).

**`DiscardableMap`** is the promise: a map that may lose any value at any time,
never makes one up, and changes a key's value only through the write lock.
`LazyfreeImplementsMap` maps the cache to it: `store[k]` is what a read lock of
`k` would find, `writing` the owner of the write-locked page, `pending` its
contents while they are the writer's.

**`PageProtocol`** is one page, one load or store at a step: `lazyfree_read` byte
by byte, the two loads of `read_lock`, the upgrade (load byte 0, store 1, check,
put it back, clear the lowest bit), and `write_unlock`. While the caller is not
inside a function, other callers may advance or evict the chunk, take the page
and write to it. `LazyfreeCache` takes these calls as single steps; this module
shows what holds inside of them.

**`FallthroughCache`** extends `LazyfreeCache`: `ft_cache_get` and `ft_cache_drop`
as sequences of its actions, with reclaims between all of them, and a ground
truth that changes. One caller at a time is inside, as the write lock waits
for nobody. `Renew` is `ft_cache_destroy` and `ft_cache_init`: memory from the
system is zeros, files have what the last cache left. Three variables are no
code's: `stale` (the truth changed since the key was stored), `resident` (the key
was returned and neither dropped nor evicted since), `reclaimed` (the kernel took a
page).

**`Keyset`** and **`CacheTests`** are `testlib.h` and the suites of `test.c` and
`benchmark.c` over `FallthroughCache`. A suite is a sequence of commands (`Script`),
a command a loop of calls; `LoopEnds` is what follows the loop, `CallStep` the steps
inside a call. `HitrateFails` is the end of the program after a hit rate that is too low
(`TooFewHits`; `failed` records it). The nearest float to 0.7 is less than 0.7, so
that exactly 70 percent are too few, and the one to 0.15 is more, so that 15 percent are
enough. The exit after a wrong value (`testlib.h:59`) is not a step of its own, as
`FreshAnswer` rules it out. `sets` has a permutation and a position for each key set. A shuffle
may give any order, which is what its swaps can give (`SwapOrders`;
`ShuffleAssumption` compares the two for up to four keys), and is done when the next
key is asked for, as nobody looks at the order before. Reclaims come at any time, not only when
`testlib_reclaim` uses up the memory, except in the suite `anon`, whose
implementation has no chunk under `MADV_FREE`. `suite_disk` does what `suite_anon`
does.

**`HmapAccess`** is `hmap_get` under a readers-writer lock, which the README of the
program says is enough: the global `hmap_access` is stored, tested and loaded
by several threads.

**`Hashmap`** is `hashmap.h`: the window of slots a key may be in, the search for a
slot, and growth. The hash function is arbitrary; a slot's home is its highest bits. `get`
and `remove` are single steps. A put is a sequence of them: `Put` is the call, `Store` its
end; `Grow`, `Move` and `Grown` are `hashmap_rehash_helper` and its iterator, `GrowFails` is
the return of 1 through all calls that are running. `tables` is the stack of tables of
the growths that go on, because a put into a new table may grow that one in turn.
The iterator erases what it moves, so the slot it has come to is the first in use.

**`Bitset`** is `bitset.h`: a byte is the set of its bits, an index a byte and a
bit in it. It is why `LazyfreeCache` may have `bit0` as a function.

**`StubCache`** is `stub_cache.c`, with `ft_cache_get` and `ft_cache_drop` over it. All
locks and all writers share one page.

## 4. The runs

Each passing run:

| run | module | instance | shows |
|---|---|---|---|
| `cache` | `MCLazyfreeCache` | 2 callers, 2 keys, a chunk under `MADV_FREE` and one in a file, 2 pages each, 2 values | the index (`FreeListsSound`, `OwnersSound`, `MapSound`, `FreePagesCounted`, `NoDoubleDrop`, `EvictsExactlyWhenFull`), the locks (`ValidLockIsCurrent`, `WriteLockExclusive`), the refinement (`ImplementsMap`) |
| `page` | `MCPageProtocol` | a page of 3 bytes, of each kind; 3 values in the last byte; reads up to one byte beyond the page | `LivePageIntact`, `AcceptedReadIsPayload`, `WriterKeepsPage`, `NoLockFailures`, `LossIsReclaim` |
| `fallthrough` | `MCFallthroughCache` | 3 keys on 2 pages, one under `MADV_FREE` and one in a file, 2 values | `FreshAnswer`, `ExitsOnlyOnLoss`, `ResidentHits`, `CallsReturn` |
| `regression` | `MCCacheTests` | the suites on 2 chunks of 2 pages under `MADV_FREE`, up to 14 keys | `SmokeTestPasses`, `HitratesAsDemanded`, `SuiteLeavesNothing`, `FreshAnswer`, `DemandsMet`, `PassesInOrder`, `SuiteEnds` |
| `hmap_readers` | `MCHmapAccess` | 2 readers, 3 keys, 3 pages | `OwnPageOnly` |
| `hashmap` | `MCHashmap` | 4 keys, 2 values, all hash functions of 3 bits, windows of 2 slots, capacities 2, 4 and 8 | `MapExact`, `SizeExact`, `GrowthFits` |

*Why the bounds are enough.* Two keys fill the four pages of `cache`: a key
whose page the kernel took, or that is written again without a read lock, gets
another page, so that the cache fills up, evicts, and the old pages are around.
Two handles are enough for a reader and a writer, or for two readers of whom
one is overtaken. Two pages in a chunk make a free list of two, two chunks an
advance and an eviction of the current or the other one. The values 0 and 1 are
those that differ in the bit that is moved. In `page` the three bytes are the
first, the last, and one between; 0 and 2 in the last byte lose their lowest
bit, 1 does not. In `hashmap` four keys overflow a window of two and the table
of capacity 2; three of them in a table of capacity 4 and a fourth to add are what a
growth needs to move elements past each other; capacity 8 is the largest, so that growth
also fails (`failed` has the keys whose last put did). `IndexRange` is 2^16 except where a run
says otherwise. In `regression` (`SmokeTestCnt`, `WarmUpGets`, `HotCnt`, `ColdCnt`,
`JunkCnt`) the smoke test has as many keys as a chunk has pages, one set has as many
keys as the cache has pages and one twice as many, as in the program; the hot set
has three keys and the cold one one, so that four gets of warm-up can leave the
position at every place and pass the end of a permutation; together with the junk
they are one key more than there are pages. Nothing else is bounded: no guard is added
to the code's.

*Symmetry.* Handles, keys but 0, threads, and values of the hash map are
interchangeable; the runs with liveness use none, `regression` because its keys are numbers.

*Deadlock* is not checked where the program may exit (all runs of
`LazyfreeCache`, `FallthroughCache` and `PageProtocol`) or has run its suite
(`CacheTests`): that is the end of it.

*Fairness.* `CallsReturn` and `SuiteEnds` need it: `FtSpec` has weak fairness on the
steps of the running call, `TestSpec` on the steps of the suite. Both are code of one
thread that waits for nobody, so a thread that is scheduled goes on. Nothing is
assumed of the kernel, or of calls not made yet.

*What the tests show of themselves.* The smoke test demands that nothing is lost
between its passes (`test.c:43`), which the cache does not promise; it holds because
its keys fit into the current chunk, the only one that is never under `MADV_FREE`
(`SmokeTestPasses` fails when that chunk is given to the kernel as well). `suite_anon`
and `suite_disk`, where nothing is under `MADV_FREE`, get every hit rate they ask for.
`suite_lazyfree` may fail, in two ways, and `DemandsMet` says that there is no third:

* The kernel takes pages. 70 percent of a set that fits into the cache must hit
  (`test.c:137`; its message says 0.8). A lost page costs more than its one miss: the
  cache is full, so writing the key again evicts a chunk, whose keys miss in
  turn and may evict the next.
* Nothing is lost, but the chunks drawn are bad ones. 15 percent of a set of twice as many
  keys as pages must hit (`test.c:144`), which the cache leaves to the chunks it
  draws ("2x hitrate should be >15%", `test.c:142`): when they come out in the order they
  were filled none hits. `DemandsMet` excepts this set.

So `SuiteEnds` is that a suite comes to its end, to a failed hit rate, or to a lost page,
the last two only where they can be. The measurements of the benchmark
are not on a permutation of the keys, as the position in it outlives the warm-up and when
a pass reaches the end `testlib_get_one` shuffles and goes on (`testlib.h:64`): the
run `measured_order`. The passes of `check_hitrate`, which are what hit rates are demanded
of, do ask for every key once and in order (`PassesInOrder`).

Each run that finds a disagreement of the code with what is said about it:

| run | said | done |
|---|---|---|
| `drop_of_key_zero` | a drop drops the page (`include/lazyfree_cache.h:26`) | the key 0 is kept in `key0`, which no removal resets; its page is on the free list, marked with owner 0, and found again |
| `unlock_of_lost_page` | `read_unlock` returns false if the key was evicted (`include/lazyfree_cache.h:25`) | it exits when the page reads as zeros |
| `upgrade_of_unmapped_page` | "Already in hashmap and keys" (`lazyfree_cache.c:519`) | the eviction of a chunk with an older page of the key unmapped it, and the write is lost |
| `upgrade_of_large_index` | the same | `_index` has 16 bits; in a chunk of more than 65536 pages the upgrade locks another key's page. The run has one value for `_index` and two pages |
| `rwlock_stale_page` | "Already can be used under RWLock" (`README.md:255`) | between the test of `hmap_access.entry.set` and the load of `hmap_access.desc` another reader's miss stores a null pointer, that is chunk 0, index 0; the owner's check accepts it when that page was the key's |
| `measured_order` | hit rates "are measured on a random permutation of keys" (`README.md:154`) | a measurement after the warm-up starts in the middle of the permutation, and another one follows at its end |

Others need no run, being plain in one action: after `write_lock` with a lock whose page was
lost its head is `NULL` (`WriteLockLost`), and `LAZYFREE_LOCK_CHECK`, which `README.md:77`
recommends to tell a fresh page, would dereference it. The same causes have other
effects, too. With the key 0, a free page passes for one of its own, so its lock survives a page's way to another key and back, against
`README.md:143`. `ft_cache_get` and `ft_cache_drop` exit as `read_unlock` does
(`fallthrough_cache.c:45`, `:65`). The eviction of an abandoned page takes its
key out of the cache although its page is in another chunk. An evicted page of
a file mapping still passes `LAZYFREE_LOCK_CHECK`, against `README.md:138`; only
`read_unlock` tells. A reader may also miss a key that is there under a
readers-writer lock.

## 5. The proofs

They hold for every number of chunks, pages, keys, handles and values, under the
assumptions stated in the modules (`ChunksAssumption`: fewer than 128 chunks, of
three kinds; `PagesAssumption`: a chunk has a page; bytes are bytes).

* `LazyfreeProofs`, types: a lock's head must be known to be a page before its owner
  can be looked at, so the inductive invariant `TypeInv` adds `LocksWellFormed` to
  `TypeOK`.
* `LazyfreeProofs`, safety: `SafetyInv` is inductive. It joins the free lists, the owners
  and the hash map (`IndexInv`), that two locks are for different keys, that
  there is a writer exactly while a page is locked, and `ValidLockIsCurrent`.
  They need each other: a drop through a read lock keeps the free lists sound
  because a valid lock covers a page in use; a valid lock stays current because
  nobody else may write to the page of its key, and a page that changes its
  owner invalidates the lock. Two hypotheses are real: `NonzeroKeys` (0 is not a
  key) and `SmallIndices` (an index fits into `_index`); `drop_of_key_zero` and
  `upgrade_of_large_index` show what happens without them. Under them the two
  claims those runs refute are theorems (`DropsRemove`, `UpgradesOwned`): the
  key 0 and an index too large are the only ways to break them.
  `CountInv` adds that `total_free_pages` is the number of pages
  without an owner. From it a drop always fits the free list (`DropsFit`), and
  eviction happens exactly when the cache is full (`EvictionExact`), which is why
  the exits in `cache_drop` and `alloc_new_page` are never taken (`NeverFails`).
* `LazyfreeProofs`, refinement: the cache implements `DiscardableMap`. Beyond `SafetyInv` the
  mapping needs `WlockMapped`: the hash map leads from the key of the write-locked
  page to that page, or the key was evicted meanwhile; it then has nothing to commit, and the
  unlock that keeps the page shows as `Abort`. Each action has a lemma that gives its
  step of the map: an allocation is `LockNew`, which loses what an evicted chunk
  held; an upgrade is `LockUpgrade`, with the value the key had; the caller's store is `Put`;
  `WriteUnlockKeep` is `Commit` or `Abort`; a drop is `Lose` or `Abort`; a reclaim is `Lose`,
  or `Settle` on the locked page; all others stutter. The
  hypotheses are those of `SafetyInv`, and that the mark for "no key" is no key.
* `FallthroughProofs` is about the steps of `ft_cache_get` and `ft_cache_drop` with the
  kernel between them. `FtInv` adds five things to the types and
  to `CountInv`. `CallInv`: the lock is the running
  call's, and its page is the one the hash map has (a lock that found
  nothing knows that there is still nothing to find). `LossInv`: a page that was found and fails a
  later check was under `MADV_FREE`. `PagesFresh`: whatever live page the hash map leads
  to holds the ground truth of its key, unless that has changed since. `ValueInv`:
  the entry in the caller's hands equals that page's, or the refilled truth.
  `ResidentInv`: until the kernel takes a page, pages with an owner and keys that
  were returned correspond one to one. `FreshAnswer` alone is not inductive: the
  value a get returns was read some steps before, from a page of which only the
  second check says that it had not been lost.
* `TestProofs` is about the suites, for every geometry and every size of their sets,
  whichever chunks are evicted, orders drawn and pages taken by the kernel. What a suite
  demands rests on the commands before it, so the invariant first says what these have
  left: `Seen`, the sets that were asked for, and `Gone`, those that were dropped, are read off the
  script at the current command (`SeenAt`, `GoneAt`). `TestInv` adds to `FtInv`:
  `PlaceInv`, which key the running call is for;
  `SetsInv`, that an untouched keyset is as it was made, and that a pass of
  `check_hitrate` is at the place its position says; `PassesInOrder`, that such a pass
  has asked for the keys up to there;
  `SeenInv`, that only keys that were asked for have pages; `MissInv`, that a
  new set only misses, and ends the program nowhere; `GoneInv` and `KeptInv`, which hold until the
  kernel takes a page: dropped keys have none, and of a set that fits into the cache every key
  asked for has one; `SmokeInv`, that the smoke test fills
  the first chunk page by page, so that nothing of it is ever under `MADV_FREE`; `LuckInv`,
  that the count of a set that fits is still 0 while it is dropped, when the suite looks at the
  hit rate, from which `DemandsMet` follows.
  `KeptInv` needs all others: an eviction would take a key of the set, but there is
  none while the keys with pages are fewer than the pages (`NoEvict`), which holds
  because every page has a key of this set (`SeenInv`), all other sets being dropped
  (`GoneInv`), and the running call's key is not among them (`MissInv`). What the proofs use of the
  scripts is stated once for all three (`Shape`, `Order`, `Joint`). The assumptions are
  those of `CacheTests`: a whole number of pages in each chunk, a smoke test that fits into a chunk,
  sets that are not empty, and keys of different sets that differ. `TestsUseCache` is the link to
  `FallthroughCache`: a run of the suites is one of `FtSpec`'s steps, so that
  `FreshAnswer` and the other properties hold in it.
* `PageProtocolProofs` is about one page of any size. `Intact` says, for each place
  the caller can be at, what is known of the page there: a page that does not
  read as lost gives the writers' bytes back; from its store to the first byte on,
  an upgrade knows the page out of the kernel's reach, and all but the byte it
  overwrote to be the payload's; a write lock on a page still under `MADV_FREE` has
  nothing stored on it. The properties are not inductive without that: the loss
  may come between the load of a byte and the check that trusts it. `ReadInv` adds
  the bytes copied so far and the byte saved in the lock. A read whose size would
  take it beyond the page is covered: it stops at the end of the page, but has the
  last byte from the page and not from the lock, so that its lowest bit is not the
  writers'.
* `HmapAccessProofs`: a thread's descriptor is a page or none whichever thread stored
  to the global last, and what the check of the owner found stays true while the
  thread is inside.
* `HashmapProofs`: `HashmapInv` says of each table that every element is in the window
  of its key, alone with that key, and counted (`TableInv`), and of all together that they
  hold what was put (`Holds`). The hard part is `GrowthFits`, without which a put of one
  key could lose another. While elements are moved (`Growing`), no element of the
  new table lies behind a hole (`NoHoles`), and for every `a`, of the elements whose old home was slot `a` or
  later, at most `s - a` are there before slot `s` is moved, as they came from the
  slots from `a` to `s - 1` (`Behind`). Were the window of an element full, the block of
  used slots it ends in would have to have more elements than that (`WindowNotFull`).
  The argument needs the order: `hashmap_iterate_pairs` goes up, and a table
  moved downwards would not always fit.
* `Bitset`: an index is its byte and its bit, so a put changes one index's bit.
* `StubCache`: the page reads as lost from a call's read lock to its check, although
  it reads as valid after every get.

| theorem | property |
|---|---|
| `TypeOKHolds` | `TypeOK` |
| `IndexConsistent` | `FreeListsSound`, `OwnersSound`, `MapSound` |
| `ReadersUndisturbed` | `ValidLockIsCurrent` |
| `WriterExclusive` | `WriteLockExclusive` |
| `FreePagesExact` | `FreePagesCounted` |
| `DropsFit` | `NoDoubleDrop` |
| `EvictionExact` | `EvictsExactlyWhenFull` |
| `Refinement` | `ImplementsMap` |
| `DropsRemove` | `DropRemoves`, for keys other than 0 |
| `UpgradesOwned` | `UpgradedPageOwned`, for indices that fit into `_index` |
| `FtTypes` | `FtTypeOK` |
| `AnswersFresh` | `FreshAnswer` |
| `ExitsExplained` | `ExitsOnlyOnLoss` |
| `HitsStay` | `ResidentHits` |
| `TestTypes` | `TestTypeOK` |
| `SmokePasses` | `SmokeTestPasses` |
| `HitratesHold` | `HitratesAsDemanded` |
| `NothingLeft` | `SuiteLeavesNothing` |
| `PassesOrdered` | `PassesInOrder` |
| `DemandsHold` | `DemandsMet` |
| `TestAnswersFresh` | `FreshAnswer`, while the suites run |
| `TestsUseCache` | the steps of `FtSpec` |
| `PageTypeCorrect` | `TypeOK` of `PageProtocol` |
| `LivePageStaysIntact` | `LivePageIntact` |
| `WritersKeepTheirPage` | `WriterKeepsPage` |
| `AcceptedReadsAreThePayload` | `AcceptedReadIsPayload` |
| `NoFailuresWithoutMadvFree` | `NoLockFailures` |
| `OnlyTheKernelLoses` | `LossIsReclaim` |
| `LookupTypeCorrect` | `TypeOK` of `HmapAccess` |
| `LookupsStayApart` | `OwnPageOnly` |
| `BitsetHasRoom`, `BitsetIsArray` | |
| `StubNeverHits` | `NeverHits` and `AlwaysFresh` of `StubCache` |
| `HashmapTypes` | `TypeOK` of `Hashmap` |
| `TableIsMap` | `MapExact` |
| `SizesExact` | `SizeExact` |
| `GrowthAlwaysFits` | `GrowthFits` |

*Only model-checked:* `CallsReturn` and `SuiteEnds`, since the prover has no rules for
fairness and `ENABLED`; and that the swaps of a shuffle give every order and no other
(`ShuffleAssumption`), whose proof would be an induction over data. *Only proved:* `Bitset` and `StubCache`, which have no more to show in a
small instance.

## 6. Not modelled

* The tables of function pointers in `cache.c`; the numbers of chunks in them are
  `Impls` of `CacheTests`.
* `lazyfree_cache_tests`, which calls `write_lock` with a lock it never set
  (`lazyfree_cache.c:588`), and all code that is commented out.
* Reads of size 0 that end at the end of the page, for which `lazyfree_read` stores to
  `dest[-1]`: a store outside of what the model has memory for.
* Two processes in one directory. The names of the files of disk chunks come from
  the seed of `util.c`, which nothing rotates (`random_rotate` sets the one of its
  caller's translation unit), so they would map the same files.
* Failing system calls, which end the program. `malloc` and `calloc` are assumed to
  succeed, as the code assumes.
* The arithmetic of the random numbers (any chunk may be evicted, any order
  drawn), statistics, times and logging.
* Of `hashmap.h`, what the cache does not call: iteration for its own sake,
  `hashmap_remove_and_return_key`, the CRC hasher.
* Weak memory: the `Makefile` compiles with `-O0`, the calls are in a critical
  section, and the kernel unmaps a page before it takes it.
