--------------------------- MODULE LazyfreeClaims ---------------------------
(***************************************************************************)
(* What the headers, the README and comments say of the cache, and what    *)
(* LazyfreeCache, that is the code, does not keep.  Each is the property   *)
(* of a run that exhibits the behaviour; the README discusses them.        *)
(***************************************************************************)
EXTENDS LazyfreeCache

\* A read lock of k would find a page now.
InCache(k) == map[k] # EMPTY_DESC /\ keys[map[k]] = k /\ entries[map[k]] # 0

\* A dropped key is no longer in the cache (lazyfree_cache.h:26, "If drop is
\* true, drops the page").  hmap_remove leaves key0 as it is, and the page of a
\* dropped key is marked with 0.
DropRemoves ==
    [][\A h \in Handle, k \in Key :
        ReadUnlockDrop(h) /\ locks[h].key = k /\ exited' = "no" => ~InCache(k)']_vars

\* lazyfree_read_unlock reports a lost page to its caller (lazyfree_cache.h:25,
\* "Returns false if the key was evicted and all reads must be discarded").
\* It checks the page before the key, and exits.
ReadUnlockReports == exited # "LOCK CHECK FAILED"

\* An upgraded lock's page is the one the hash map has for its key
\* (lazyfree_cache.c:519, "Already in hashmap and keys").  Evicting a chunk
\* with an older page of the key unmapped it.
UpgradedPageMapped ==
    \A h \in Handle :
        locks[h].mode = "write" /\ locks[h].head \in Slot
            => map[locks[h].key] = wlock

\* An upgraded lock's page is its key's (lazyfree_cache.c:519, the same
\* comment).  _index has 16 bits, the index of a page more.
UpgradedPageOwned ==
    \A h \in Handle :
        locks[h].mode = "write" => keys[wlock] = locks[h].key

=============================================================================
