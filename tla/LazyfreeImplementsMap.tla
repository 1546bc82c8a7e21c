----------------------- MODULE LazyfreeImplementsMap -----------------------
(***************************************************************************)
(* LazyfreeCache implements DiscardableMap.                                *)
(***************************************************************************)
EXTENDS LazyfreeCache

CONSTANTS Absent, NoKey, Garbage

\* A read lock of k taken now, outside a write, would succeed.
Cached(k) ==
    /\ map[k] # EMPTY_DESC
    /\ map[k] # wlock
    /\ keys[map[k]] = k
    /\ LockCheck(map[k])

storeBar == [k \in Key |-> IF Cached(k) THEN PayloadTail(map[k]) ELSE Absent]

writingBar == IF wlock = EMPTY_DESC THEN NoKey ELSE keys[wlock]

pendingBar ==
    IF wlock = EMPTY_DESC \/ lazy[wlock] THEN Garbage ELSE entries[wlock]

Abstract == INSTANCE DiscardableMap
    WITH Value <- Byte, store <- storeBar, writing <- writingBar,
         pending <- pendingBar

\* The cache never returns a value for a key but the one last written under
\* that key's write lock, however calls, evictions and reclaims interleave.
ImplementsMap == Abstract!MapSpec

=============================================================================
