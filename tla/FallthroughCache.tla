-------------------------- MODULE FallthroughCache --------------------------
(***************************************************************************)
(* ft_cache_get and ft_cache_drop (fallthrough_cache.c) over               *)
(* LazyfreeCache: a page that is not found is refilled from the ground     *)
(* truth.  The calls into the cache and the checks between them are steps  *)
(* of their own, and the kernel may take pages between any two of them.    *)
(* One caller at a time is inside: the write lock, taken and released by   *)
(* ft_cache_get, does not wait for anyone.                                 *)
(***************************************************************************)
EXTENDS LazyfreeCache

CONSTANT lock      \* the local variable of ft_cache_get and ft_cache_drop

ASSUME LockAssumption == Handle = {lock}

VARIABLES
    pc,         \* where the running call is
    key,        \* its arguments, or those of the last call
    value,      \* the last byte of the entry
    truth,      \* what refill_cb gives for a key
    stale,      \* keys whose truth changed, not refilled or dropped since
    resident,   \* while the kernel took no page: keys a get has returned, not
                \* dropped and not on an evicted chunk since
    reclaimed   \* the kernel took a page of this cache

history == <<stale, resident, reclaimed>>
ftVars == <<pc, key, value, truth, history>>
allVars == <<vars, ftVars>>

FtTypeOK ==
    /\ TypeOK
    /\ pc \in {"init", "got", "dropped", "absent",
               "get_locked", "get_found", "get_copied", "get_checked",
               "get_missed", "get_refilled", "get_wlocked", "get_stored",
               "drop_locked", "drop_found", "exited"}
    /\ key \in Key \cup {ZeroKey} /\ value \in Byte
    /\ truth \in [Key -> TailValue]
    /\ stale \subseteq Key /\ resident \subseteq Key /\ reclaimed \in BOOLEAN

\* ft_cache_init, over a new cache.
FtInit ==
    /\ Init
    /\ pc = "init" /\ key = ZeroKey /\ value = 0
    /\ truth \in [Key -> TailValue]
    /\ stale = {} /\ resident = {} /\ reclaimed = FALSE

\* No call is running: none was made yet, a get has returned, a drop has
\* returned true or false.
Idling == pc \in {"init", "got", "dropped", "absent"}

Goto(label) == pc' = label

\* LAZYFREE_LOCK_CHECK(lock); EMPTY_PAGE is all zeros.
Checks == LET head == locks[lock].head
          IN  head # EMPTY_PAGE /\ LockCheck(head)

----------------------------------------------------------------------------
(* ft_cache_get *)

GetStart(k) ==
    /\ Idling
    /\ ReadLock(lock, k)
    /\ key' = k
    /\ Goto("get_locked")
    /\ UNCHANGED <<value, truth, history>>

GetLookup ==
    /\ pc = "get_locked"
    /\ Goto(IF Checks THEN "get_found" ELSE "get_missed")
    /\ UNCHANGED <<vars, key, value, truth, history>>

\* lazyfree_read; its result is not looked at.
GetCopy ==
    /\ pc = "get_found"
    /\ value' = IF Checks THEN locks[lock].tail ELSE value
    /\ Goto("get_copied")
    /\ UNCHANGED <<vars, key, truth, history>>

\* The second check: exit(1) when it fails.
GetCheck ==
    /\ pc = "get_copied"
    /\ Goto(IF Checks THEN "get_checked" ELSE "exited")
    /\ UNCHANGED <<vars, key, value, truth, history>>

GetReturn ==
    /\ Goto("got")
    /\ resident' = IF reclaimed THEN {} ELSE resident \cup {key}
    /\ UNCHANGED <<key, value, truth, reclaimed>>

GetUnlock ==
    /\ pc = "get_checked"
    /\ \/ ReadUnlockKeep(lock) /\ GetReturn /\ UNCHANGED stale
       \/ ReadUnlockExits(lock) /\ UNCHANGED ftVars

\* The refill callback.
GetRefill ==
    /\ pc = "get_missed"
    /\ value' = truth[key]
    /\ Goto("get_refilled")
    /\ UNCHANGED <<vars, key, truth, history>>

\* The next allocation evicts a chunk.
Evicts == total_free_pages = 0

\* The lock is one on EMPTY_PAGE, or its page was lost before the lookup's
\* check and stays lost: there is no upgrade here.
GetWriteLock ==
    /\ pc = "get_refilled"
    /\ WriteLockMiss(lock) \/ WriteLockLost(lock)
    /\ \/ /\ exited' = "no"
          /\ resident' = {k \in resident : Evicts => map[k][1] # current_chunk_idx'}
          /\ Goto("get_wlocked")
          /\ UNCHANGED <<key, value, truth, stale, reclaimed>>
       \/ exited' # "no" /\ UNCHANGED ftVars

GetStore ==
    /\ pc = "get_wlocked"
    /\ WritePage(value)
    /\ Goto("get_stored")
    /\ UNCHANGED <<key, value, truth, history>>

GetWriteUnlock ==
    /\ pc = "get_stored"
    /\ WriteUnlockKeep
    /\ GetReturn
    /\ stale' = stale \ {key}

Get == \/ GetLookup \/ GetCopy \/ GetCheck \/ GetUnlock
       \/ GetRefill \/ GetWriteLock \/ GetStore \/ GetWriteUnlock

----------------------------------------------------------------------------
(* ft_cache_drop *)

DropStart(k) ==
    /\ Idling
    /\ ReadLock(lock, k)
    /\ key' = k /\ value' = 0
    /\ Goto("drop_locked")
    /\ UNCHANGED <<truth, history>>

DropReturn(result) ==
    /\ Goto(result)
    /\ stale' = stale \ {key}
    /\ resident' = resident \ {key}
    /\ UNCHANGED <<key, value, truth, reclaimed>>

\* ft_cache_drop returns false, and leaves the lock, a local variable, as it
\* is, when there is no page.
DropLookup ==
    /\ pc = "drop_locked"
    /\ \/ /\ Checks
          /\ Goto("drop_found")
          /\ UNCHANGED <<vars, key, value, truth, history>>
       \/ /\ ~Checks
          /\ DropReturn("absent")
          /\ locks' = [locks EXCEPT ![lock] = Idle]
          /\ UNCHANGED <<memVars, cacheVars, exited>>

\* Mutant: the page is unlocked, and not dropped.
DropUnlockKeep ==
    /\ pc = "drop_found"
    /\ \/ ReadUnlockKeep(lock) /\ DropReturn("dropped")
       \/ ReadUnlockExits(lock) /\ UNCHANGED ftVars

DropUnlock ==
    /\ pc = "drop_found"
    /\ \/ ReadUnlockDrop(lock) /\ DropReturn("dropped")
       \/ ReadUnlockExits(lock) /\ UNCHANGED ftVars

Drop == DropLookup \/ DropUnlock

----------------------------------------------------------------------------
\* ft_cache_destroy, and ft_cache_init for the same callback.
Renew ==
    /\ Idling
    /\ MemRenew
    /\ keys' = [s \in Slot |-> ZeroKey]
    /\ bit0' = [s \in Slot |-> FALSE]
    /\ free_pages' = [c \in Chunk |-> << >>]
    /\ len' = [c \in Chunk |-> 0]
    /\ current_chunk_idx' = 0
    /\ map' = [k \in Key |-> EMPTY_DESC]
    /\ total_free_pages' = NumChunks * PagesPerChunk
    /\ Goto("init")
    /\ key' = ZeroKey /\ value' = 0
    /\ stale' = {} /\ resident' = {} /\ reclaimed' = FALSE
    /\ UNCHANGED <<wlock, locks, exited, truth>>

\* The callback will give another value for k from now on.
ChangeTruth(k, v) ==
    /\ Idling
    /\ truth' = [truth EXCEPT ![k] = v]
    /\ stale' = stale \cup {k}
    /\ UNCHANGED <<vars, pc, key, value, resident, reclaimed>>

Reclaiming ==
    /\ \E s \in Slot : KernelReclaim(s)
    /\ reclaimed' = TRUE /\ resident' = {}
    /\ UNCHANGED <<pc, key, value, truth, stale>>

\* Neither function has ended the program.
Running == exited = "no" /\ pc # "exited"

FtNext ==
    /\ Running
    /\ \/ \E k \in Key : GetStart(k) \/ DropStart(k)
       \/ Get \/ Drop
       \/ \E k \in Key, v \in TailValue : ChangeTruth(k, v)
       \/ Reclaiming
       \/ Renew

\* The thread that runs a call keeps running.
FtSpec ==
    FtInit /\ [][FtNext]_allVars /\ WF_allVars(Running /\ (Get \/ Drop))

----------------------------------------------------------------------------
(* Properties *)

\* A get returns what the refill callback gives for its key, from whichever
\* page it was kept on; after a change of it, as soon as the key was dropped or
\* refilled (README, "On miss, this cache will refill entry from the ground
\* truth").
FreshAnswer == pc = "got" /\ key \notin stale => value = truth[key]

\* Until the kernel takes a page, what a get has returned is a hit until it is
\* dropped or its chunk is evicted, and a chunk is evicted only when there are
\* as many such keys as pages (test.c:161, the hit rate suite_anon and
\* suite_disk demand).
ResidentHits ==
    [][~reclaimed =>
         /\ GetRefill => key \notin resident
         /\ GetWriteLock /\ Evicts => Cardinality(resident) = Cardinality(Slot)
      ]_allVars

\* A call ends the program only when its page was under MADV_FREE and is
\* gone, never by a failed drop or a search for a page that finds none: a page
\* of another chunk is never lost in the middle of a call (cache.c:38, "no
\* MADV_FREE, no lock failures").
ExitsOnlyOnLoss ==
    ~Running => /\ locks[lock].head \in Slot /\ Kind(locks[lock].head[1]) = "lazyfree"
                /\ exited \in {"no", "LOCK CHECK FAILED"}

\* Every call returns, unless the loss of its page ends the program: a page is
\* found for every key, however the pages are spread over chunks, free lists
\* and abandoned pages.
CallsReturn ==
    ~Idling ~> Idling \/ pc = "exited" \/ exited = "LOCK CHECK FAILED"

=============================================================================
