------------------------- MODULE FallthroughProofs -------------------------
(***************************************************************************)
(* ft_cache_get and ft_cache_drop, for every size of the cache below them: *)
(* answers are fresh, a call ends the program only over a page that was    *)
(* under MADV_FREE, and what was returned stays a hit until it is dropped, *)
(* evicted from a full cache, or taken by the kernel.                      *)
(***************************************************************************)
EXTENDS FallthroughCache, LazyfreeProofs

L == locks[lock]

\* Where the caller holds a read lock, where it knows its page, where it has
\* the write lock, and where it has the value to write.
Reading == {"get_locked", "get_found", "get_copied", "get_checked",
            "get_missed", "get_refilled", "drop_locked", "drop_found", "exited"}
Found   == {"get_found", "get_copied", "get_checked", "drop_found", "exited"}
Missed  == {"get_missed", "get_refilled"}
Writing == {"get_wlocked", "get_stored"}

\* The lock is the running call's, and its page the one the hash map has.
CallInv ==
    /\ Idling => L.mode = "idle" /\ wlock = EMPTY_DESC
    /\ pc \in Reading =>
          /\ L.mode = "read" /\ L.key = key /\ wlock = EMPTY_DESC
          /\ L.head # EMPTY_PAGE => L.head = map[key]
          /\ L.head = EMPTY_PAGE => map[key] = EMPTY_DESC \/ ~LockCheck(map[key])
    /\ pc \in Writing =>
          L.mode = "write" /\ wlock # EMPTY_DESC /\ keys[wlock] = key /\ map[key] = wlock
    /\ ~Idling => key \in Key
    /\ pc \in Missed => ~Checks

\* The kernel takes pages of some chunks only, and a page the call has found is
\* lost to nobody else.
LazyKind == \A s \in Slot : lazy[s] => Kind(s[1]) = "lazyfree"

LossInv ==
    /\ LazyKind
    /\ pc \in Found => L.head # EMPTY_PAGE /\ (Checks \/ Kind(L.head[1]) = "lazyfree")
    /\ pc = "exited" \/ exited # "no" => pc \in Found /\ ~Checks
    /\ exited \in {"no", "LOCK CHECK FAILED"}

\* What the hash map leads to is what the callback gives, unless that changed.
PagesFresh ==
    \A k \in Key \ stale :
        map[k] \notin {EMPTY_DESC, wlock} /\ LockCheck(map[k])
            => PayloadTail(map[k]) = truth[k]

\* The entry the caller of ft_cache_get gets.
ValueInv ==
    /\ pc = "get_copied" /\ Checks => value = L.tail
    /\ pc = "get_checked" => value = L.tail
    /\ pc \in {"get_refilled"} \cup Writing => value = truth[key]
    /\ pc = "get_stored" => entries[wlock] = value /\ ~lazy[wlock]
    /\ pc = "got" => key \in Key
    /\ FreshAnswer

\* Until the kernel takes a page, there is one page for each key that was
\* returned and not dropped, and none for another.
ResidentInv ==
    ~reclaimed =>
        /\ \A s \in Slot : keys[s] # ZeroKey => map[keys[s]] = s
        /\ \A s \in Slot : keys[s] # ZeroKey /\ s # wlock => entries[s] # 0
        /\ resident = {k \in Key : map[k] \notin {EMPTY_DESC, wlock}}

FtInv ==
    /\ FtTypeOK /\ CountInv
    /\ CallInv /\ LossInv /\ PagesFresh /\ ValueInv /\ ResidentInv

----------------------------------------------------------------------------
(* What the invariant says of the running call *)

\* The cache below has its own invariant, and the one lock its type.
LEMMA Basics ==
    ASSUME FtInv
    PROVE  /\ lock \in Handle /\ TypeInv /\ TypeOK /\ IndexInv /\ SafetyInv
           /\ L \in Lock /\ locks \in [Handle -> Lock]
  BY LockAssumption DEF FtInv, CountInv, SafetyInv, TypeInv, TypeOK, L

\* The page the call has found, or not found.
LEMMA CallPage ==
    ASSUME FtInv, pc \in Reading
    PROVE  /\ key \in Key /\ L.mode = "read" /\ L.key = key /\ wlock = EMPTY_DESC
           /\ locks[lock].mode = "read" /\ locks[lock].key = key
           /\ map[key] # EMPTY_DESC => map[key] \in Slot /\ keys[map[key]] = key
           /\ L.head # EMPTY_PAGE => L.head \in Slot /\ L.head = map[key]
           /\ Checks <=> map[key] # EMPTY_DESC /\ L.head = map[key] /\ LockCheck(map[key])
           /\ Checks => LockValid(lock)
  <1>1. key \in Key /\ L.mode = "read" /\ L.key = key /\ wlock = EMPTY_DESC
    BY DEF FtInv, CallInv, Reading, Idling
  <1>2. map[key] # EMPTY_DESC => map[key] \in Slot /\ keys[map[key]] = key
    BY <1>1, Basics DEF TypeOK, IndexInv, MapSound
  <1>3. L.head # EMPTY_PAGE => L.head = map[key] /\ L.head # NULL
    BY <1>1, Basics DEF FtInv, CallInv, TypeInv, LocksWellFormed, L
  <1>4. Checks <=> map[key] # EMPTY_DESC /\ L.head = map[key] /\ LockCheck(map[key])
    BY <1>2, <1>3, SlotFacts DEF Checks, L
  <1> QED
    BY <1>1, <1>2, <1>3, <1>4, SlotFacts DEF L, LockValid

\* A step of the cache keeps the cache's own invariant.
LEMMA CacheStep ==
    ASSUME NonzeroKeys, SmallIndices, FtInv, exited = "no",
           \/ \E k \in Key : ReadLock(lock, k)
           \/ ReadUnlockKeep(lock) \/ ReadUnlockExits(lock) \/ ReadUnlockDrop(lock)
           \/ WriteLockMiss(lock) \/ WriteLockLost(lock)
           \/ \E v \in TailValue : WritePage(v)
           \/ WriteUnlockKeep
           \/ \E s \in Slot : KernelReclaim(s)
           \/ UNCHANGED vars
    PROVE  CountInv' /\ TypeOK'
  <1>1. [Next]_vars
    BY Basics DEF Next, Call
  <1> QED
    BY <1>1, NextCount DEF FtInv, CountInv, SafetyInv, TypeInv

\* Steps that leave the pages and the index of the cache alone.
LEMMA SamePages ==
    ASSUME FtInv, UNCHANGED <<memVars, cacheVars>>
    PROVE  /\ LazyKind'
           /\ (\A k \in Key \ stale' : k \notin stale /\ truth'[k] = truth[k]) => PagesFresh'
           /\ UNCHANGED <<resident, reclaimed>> => ResidentInv'
  <1>1. UNCHANGED <<entries, lazy, keys, bit0, map, wlock>>
    BY DEF memVars, cacheVars
  <1>2. LazyKind'
    BY <1>1 DEF FtInv, LossInv, LazyKind
  <1>3. ASSUME \A k \in Key \ stale' : k \notin stale /\ truth'[k] = truth[k]
        PROVE  PagesFresh'
    BY <1>1, <1>3 DEF FtInv, PagesFresh, LockCheck, PayloadTail, ClearBit0
  <1>4. ASSUME UNCHANGED <<resident, reclaimed>> PROVE ResidentInv'
    BY <1>1, <1>4 DEF FtInv, ResidentInv
  <1> QED
    BY <1>2, <1>3, <1>4

----------------------------------------------------------------------------
(* ft_cache_get and ft_cache_drop take the read lock *)

\* A call begins with lazyfree_read_lock.
LEMMA StartStep ==
    ASSUME NonzeroKeys, SmallIndices, FtInv, Running, NEW k \in Key,
           GetStart(k) \/ DropStart(k)
    PROVE  FtInv'
  <1>1. /\ ReadLock(lock, k) /\ key' = k /\ pc' \in {"get_locked", "drop_locked"}
        /\ value' \in {value, 0} /\ UNCHANGED <<truth, stale, resident, reclaimed>>
    BY DEF GetStart, DropStart, Goto, history
  <1>2. CountInv' /\ TypeOK'
    BY <1>1, CacheStep DEF Running
  <1>3. FtTypeOK'
    BY <1>1, <1>2, ByteFacts DEF FtInv, FtTypeOK
  <1>4. UNCHANGED <<memVars, cacheVars, exited>> /\ wlock = EMPTY_DESC
    BY <1>1 DEF ReadLock
  <1>5. UNCHANGED <<entries, lazy, keys, bit0, map, wlock, exited>>
    BY <1>4 DEF memVars, cacheVars
  <1>6. CallInv'
    <2> DEFINE hit == map[k] # EMPTY_DESC /\ keys[map[k]] = k /\ entries[map[k]] # 0
    <2>1. /\ L'.mode = "read" /\ L'.key = k
          /\ L'.head = IF hit THEN map[k] ELSE EMPTY_PAGE
      BY <1>1, Basics DEF ReadLock, L
    <2>2. map[k] # EMPTY_DESC => map[k] \in Slot /\ keys[map[k]] = k /\ entries[map[k]] \in Byte
      BY Basics DEF TypeOK, MemTypeOK, IndexInv, MapSound
    <2>3. ~hit => map[k] = EMPTY_DESC \/ ~LockCheck(map[k])
      BY <2>2 DEF LockCheck, Byte
    <2>4. L'.head # EMPTY_PAGE => L'.head = map[k]
      BY <2>1
    <2>5. L'.head = EMPTY_PAGE => map[k] = EMPTY_DESC \/ ~LockCheck(map[k])
      BY <2>1, <2>2, <2>3, SlotFacts
    <2> HIDE DEF hit
    <2> QED
      BY <1>1, <1>4, <1>5, <2>1, <2>4, <2>5
         DEF CallInv, Idling, Reading, Writing, Missed, LockCheck
  <1>7. LossInv'
    BY <1>1, <1>4, <1>5, SamePages DEF LossInv, Found, Running
  <1>8. PagesFresh' /\ ResidentInv'
    BY <1>1, <1>4, SamePages
  <1>9. ValueInv'
    BY <1>1 DEF ValueInv, FreshAnswer, Writing
  <1> QED
    BY <1>2, <1>3, <1>6, <1>7, <1>8, <1>9 DEF FtInv

----------------------------------------------------------------------------
(* Steps between the calls into the cache *)

\* What such a step leaves to show.
LEMMA InnerFrame ==
    ASSUME NonzeroKeys, SmallIndices, FtInv, Running, UNCHANGED vars,
           UNCHANGED <<truth, stale, resident, reclaimed>>
    PROVE  /\ CountInv' /\ TypeOK' /\ LazyKind' /\ PagesFresh' /\ ResidentInv'
           /\ UNCHANGED <<entries, lazy, keys, bit0, map, wlock, locks, exited, L>>
           /\ Checks' = Checks
  <1>1. UNCHANGED <<memVars, cacheVars, entries, lazy, keys, bit0, map, wlock, locks, exited, L>>
    BY DEF vars, memVars, cacheVars, L
  <1>2. CountInv' /\ TypeOK'
    BY CacheStep DEF Running
  <1>3. Checks' = Checks
    BY <1>1 DEF Checks, LockCheck
  <1> QED
    BY <1>1, <1>2, <1>3, SamePages

\* The first LAZYFREE_LOCK_CHECK of ft_cache_get.
LEMMA GetLookupStep ==
    ASSUME NonzeroKeys, SmallIndices, FtInv, Running,
           GetLookup \/ (DropLookup /\ UNCHANGED vars /\ pc' = "drop_found")
    PROVE  FtInv'
  <1>1. /\ UNCHANGED <<vars, key, value, truth, stale, resident, reclaimed>>
        /\ \/ pc = "get_locked" /\ pc' = "get_found" /\ Checks
           \/ pc = "get_locked" /\ pc' = "get_missed" /\ ~Checks
           \/ pc = "drop_locked" /\ pc' = "drop_found" /\ Checks
    BY DEF GetLookup, DropLookup, DropReturn, Goto, history
  <1>2. /\ CountInv' /\ TypeOK' /\ LazyKind' /\ PagesFresh' /\ ResidentInv'
        /\ UNCHANGED <<entries, lazy, keys, bit0, map, wlock, locks, exited, L>>
        /\ Checks' = Checks
    BY <1>1, InnerFrame
  <1>3. FtTypeOK'
    BY <1>1, <1>2 DEF FtInv, FtTypeOK
  <1>4. CallInv'
    BY <1>1, <1>2 DEF FtInv, CallInv, Idling, Reading, Writing, Missed, LockCheck
  <1>5. LossInv'
    BY <1>1, <1>2 DEF LossInv, Running, Found, Checks, L
  <1>6. ValueInv'
    BY <1>1 DEF ValueInv, FreshAnswer, Writing
  <1> QED
    BY <1>2, <1>3, <1>4, <1>5, <1>6 DEF FtInv

\* lazyfree_read copies the entry of a page that may be lost meanwhile.
LEMMA GetCopyStep ==
    ASSUME NonzeroKeys, SmallIndices, FtInv, Running, GetCopy \/ GetCheck
    PROVE  FtInv'
  <1>1. /\ UNCHANGED <<vars, key, truth, stale, resident, reclaimed>>
        /\ \/ /\ pc = "get_found" /\ pc' = "get_copied"
              /\ value' = IF Checks THEN L.tail ELSE value
           \/ pc = "get_copied" /\ pc' = "get_checked" /\ Checks /\ value' = value
           \/ pc = "get_copied" /\ pc' = "exited" /\ ~Checks /\ value' = value
    BY DEF GetCopy, GetCheck, Goto, history, L
  <1>2. /\ CountInv' /\ TypeOK' /\ LazyKind' /\ PagesFresh' /\ ResidentInv'
        /\ UNCHANGED <<entries, lazy, keys, bit0, map, wlock, locks, exited, L>>
        /\ UNCHANGED <<memVars, cacheVars>>
    BY <1>1, InnerFrame DEF vars
  <1>3. Checks' = Checks
    BY <1>2 DEF Checks, LockCheck
  <1>4. FtTypeOK'
    <2>1. L.tail \in Byte
      BY Basics DEF Lock
    <2> QED
      BY <1>1, <1>2, <2>1 DEF FtInv, FtTypeOK
  <1>5. CallInv'
    BY <1>1, <1>2 DEF FtInv, CallInv, Idling, Reading, Writing, Missed, LockCheck
  <1>6. LossInv'
    BY <1>1, <1>2, <1>3 DEF FtInv, LossInv, Running, Found
  <1>7. ValueInv'
    BY <1>1, <1>2, <1>3 DEF FtInv, ValueInv, FreshAnswer, Writing
  <1> QED
    BY <1>2, <1>4, <1>5, <1>6, <1>7 DEF FtInv

\* The callback gives the value of the key.
LEMMA GetRefillStep ==
    ASSUME NonzeroKeys, SmallIndices, FtInv, Running, GetRefill
    PROVE  FtInv'
  <1>1. /\ UNCHANGED <<vars, key, truth, stale, resident, reclaimed>>
        /\ pc = "get_missed" /\ pc' = "get_refilled" /\ value' = truth[key]
    BY DEF GetRefill, Goto, history
  <1>2. /\ CountInv' /\ TypeOK' /\ LazyKind' /\ PagesFresh' /\ ResidentInv'
        /\ UNCHANGED <<entries, lazy, keys, bit0, map, wlock, locks, exited, L>>
        /\ Checks' = Checks
    BY <1>1, InnerFrame
  <1>3. key \in Key
    BY <1>1, CallPage DEF Reading
  <1>4. FtTypeOK'
    BY <1>1, <1>2, <1>3, TailAssumption DEF FtInv, FtTypeOK
  <1>5. CallInv'
    BY <1>1, <1>2 DEF FtInv, CallInv, Idling, Reading, Writing, Missed, LockCheck
  <1>6. LossInv'
    BY <1>1, <1>2 DEF LossInv, Running, Found
  <1>7. ValueInv'
    BY <1>1 DEF ValueInv, FreshAnswer, Writing
  <1> QED
    BY <1>2, <1>4, <1>5, <1>6, <1>7 DEF FtInv

\* A key whose truth changes is stale from then on.
LEMMA ChangeTruthStep ==
    ASSUME NonzeroKeys, SmallIndices, FtInv, Running,
           NEW k \in Key, NEW v \in TailValue, ChangeTruth(k, v)
    PROVE  FtInv'
  <1>1. /\ Idling /\ UNCHANGED <<vars, pc, key, value, resident, reclaimed>>
        /\ truth' = [truth EXCEPT ![k] = v] /\ stale' = stale \cup {k}
    BY DEF ChangeTruth
  <1>2. CountInv' /\ TypeOK'
    BY <1>1, CacheStep DEF Running
  <1>3. UNCHANGED <<memVars, cacheVars, entries, lazy, keys, bit0, map, wlock, locks, exited, L>>
    BY <1>1 DEF vars, memVars, cacheVars, L
  <1>4. FtTypeOK'
    BY <1>1, <1>2 DEF FtInv, FtTypeOK
  <1>5. \A j \in Key \ stale' : j \notin stale /\ truth'[j] = truth[j]
    BY <1>1 DEF FtInv, FtTypeOK
  <1>6. LazyKind' /\ PagesFresh' /\ ResidentInv'
    BY <1>1, <1>3, <1>5, SamePages
  <1>7. CallInv'
    BY <1>1, <1>3 DEF FtInv, CallInv, Idling, Reading, Writing, Missed
  <1>8. LossInv'
    BY <1>1, <1>3, <1>6 DEF LossInv, Running, Found, Idling
  <1>9. ValueInv'
    BY <1>1, <1>3, <1>5 DEF FtInv, ValueInv, FreshAnswer, Writing, Idling
  <1> QED
    BY <1>2, <1>4, <1>6, <1>7, <1>8, <1>9 DEF FtInv

----------------------------------------------------------------------------
(* The read lock is given back *)

\* A call without a page: the hash map has none, or one that reads as zeros.
LEMMA MissedKey ==
    ASSUME NonzeroKeys, FtInv, pc \in Reading, ~Checks
    PROVE  /\ map[key] = EMPTY_DESC \/ ~LockCheck(map[key])
           /\ ~reclaimed => map[key] = EMPTY_DESC /\ key \notin resident
  <1>1. map[key] = EMPTY_DESC \/ ~LockCheck(map[key])
    BY CallPage DEF FtInv, CallInv
  <1>2. ASSUME ~reclaimed, map[key] # EMPTY_DESC PROVE FALSE
    <2>1. map[key] \in Slot /\ keys[map[key]] # ZeroKey /\ map[key] # wlock
      BY <1>2, CallPage, SlotFacts DEF NonzeroKeys
    <2>2. entries[map[key]] # 0 /\ entries[map[key]] \in Byte
      BY <1>2, <2>1, Basics DEF FtInv, ResidentInv, TypeOK, MemTypeOK
    <2> QED
      BY <1>1, <1>2, <2>2 DEF LockCheck, Byte
  <1> QED
    BY <1>1, <1>2 DEF FtInv, ResidentInv

\* lazyfree_read_unlock exits.
LEMMA ExitsStep ==
    ASSUME NonzeroKeys, SmallIndices, FtInv, Running, pc \in Found,
           ReadUnlockExits(lock), UNCHANGED ftVars
    PROVE  FtInv'
  <1>1. /\ UNCHANGED <<pc, key, value, truth, stale, resident, reclaimed>>
        /\ UNCHANGED <<memVars, cacheVars, locks, L>>
        /\ ~LockCheck(locks[lock].head)
    BY DEF ReadUnlockExits, Exit, ftVars, history, L
  <1>2. UNCHANGED <<entries, lazy, keys, bit0, map, wlock>>
    BY <1>1 DEF memVars, cacheVars
  <1>3. Checks' = Checks /\ ~Checks
    BY <1>1, <1>2 DEF Checks, LockCheck
  <1>4. CountInv' /\ TypeOK'
    BY CacheStep DEF Running
  <1>5. LazyKind' /\ PagesFresh' /\ ResidentInv'
    BY <1>1, SamePages
  <1>6. FtTypeOK'
    BY <1>1, <1>4 DEF FtInv, FtTypeOK
  <1>7. CallInv'
    BY <1>1, <1>2, <1>3 DEF FtInv, CallInv, Idling, Reading, Writing, Missed, LockCheck
  <1>8. LossInv'
    <2>1. exited' = "LOCK CHECK FAILED"
      BY DEF ReadUnlockExits, Exit
    <2> QED
      BY <1>1, <1>3, <1>5, <2>1 DEF FtInv, LossInv
  <1>9. ValueInv'
    BY <1>1, <1>2, <1>3 DEF FtInv, ValueInv, FreshAnswer, Writing
  <1> QED
    BY <1>4, <1>5, <1>6, <1>7, <1>8, <1>9 DEF FtInv

\* lazyfree_read_unlock keeps the page, or ends the program.
LEMMA GetUnlockStep ==
    ASSUME NonzeroKeys, SmallIndices, FtInv, Running, GetUnlock
    PROVE  FtInv'
  <1>1. CASE ReadUnlockExits(lock) /\ UNCHANGED ftVars
    BY <1>1, ExitsStep DEF GetUnlock, Found
  <1>2. CASE ReadUnlockKeep(lock) /\ GetReturn /\ UNCHANGED stale
    <2>1. /\ pc = "get_checked" /\ pc' = "got"
          /\ UNCHANGED <<key, value, truth, stale, reclaimed, memVars, cacheVars, exited>>
          /\ resident' = IF reclaimed THEN {} ELSE resident \cup {key}
          /\ LockValid(lock) /\ locks' = [locks EXCEPT ![lock] = Idle]
      BY <1>2 DEF GetUnlock, GetReturn, ReadUnlockKeep, Goto
    <2>2. UNCHANGED <<entries, lazy, keys, bit0, map, wlock>>
      BY <2>1 DEF memVars, cacheVars
    <2>3. /\ key \in Key /\ wlock = EMPTY_DESC
          /\ L.head = map[key] /\ map[key] \in Slot /\ LockCheck(map[key])
          /\ map[key] # EMPTY_DESC
      BY <2>1, CallPage, SlotFacts DEF Reading, LockValid, L
    <2>4. CountInv' /\ TypeOK'
      BY <1>2, CacheStep DEF Running
    <2>5. LazyKind' /\ PagesFresh'
      BY <2>1, SamePages
    <2>6. FtTypeOK'
      BY <2>1, <2>3, <2>4 DEF FtInv, FtTypeOK
    <2>7. ResidentInv'
      BY <2>1, <2>2, <2>3 DEF FtInv, ResidentInv
    <2>8. CallInv'
      <3>1. L'.mode = "idle"
        BY <2>1, Basics DEF L, Idle
      <3> QED
        BY <2>1, <2>2, <2>3, <3>1 DEF CallInv, Idling, Reading, Writing, Missed
    <2>9. LossInv'
      BY <2>1, <2>5 DEF LossInv, Running, Found
    <2>10. key \notin stale => value = truth[key]
      <3>1. L.tail = PayloadTail(map[key])
        BY <2>1, <2>3, Basics DEF SafetyInv, ValidLockIsCurrent, L
      <3>2. value = L.tail
        BY <2>1 DEF FtInv, ValueInv
      <3> QED
        BY <2>3, <3>1, <3>2 DEF FtInv, PagesFresh
    <2>11. ValueInv'
      BY <2>1, <2>3, <2>10 DEF ValueInv, FreshAnswer, Writing
    <2> QED
      BY <2>4, <2>5, <2>6, <2>7, <2>8, <2>9, <2>11 DEF FtInv
  <1> QED
    BY <1>1, <1>2 DEF GetUnlock

\* ft_cache_drop finds nothing to drop.
LEMMA DropAbsentStep ==
    ASSUME NonzeroKeys, SmallIndices, FtInv, Running, pc = "drop_locked", ~Checks,
           DropReturn("absent"), locks' = [locks EXCEPT ![lock] = Idle],
           UNCHANGED <<memVars, cacheVars, exited>>
    PROVE  FtInv'
  <1>1. /\ pc' = "absent" /\ stale' = stale \ {key} /\ resident' = resident \ {key}
        /\ UNCHANGED <<key, value, truth, reclaimed>>
    BY DEF DropReturn, Goto
  <1>2. UNCHANGED <<entries, lazy, keys, bit0, map, wlock, total_free_pages>>
    BY DEF memVars, cacheVars
  <1>3. pc \in Reading
    BY DEF Reading
  <1>4. CountInv' /\ TypeOK'
    <2>1. SafetyInv'
      BY <1>3, Basics, CallPage, IdleSafety
    <2> QED
      BY <1>2, <2>1 DEF FtInv, CountInv, NoDoubleDrop, FreePagesCounted, SafetyInv, TypeInv
  <1>5. LazyKind'
    BY SamePages
  <1>6. PagesFresh'
    BY <1>1, <1>2, <1>3, MissedKey
       DEF FtInv, PagesFresh, LockCheck, PayloadTail, ClearBit0
  <1>7. ResidentInv'
    BY <1>1, <1>2, <1>3, MissedKey DEF FtInv, ResidentInv
  <1>8. FtTypeOK'
    BY <1>1, <1>4 DEF FtInv, FtTypeOK
  <1>9. CallInv'
    <2>1. L'.mode = "idle" /\ wlock' = EMPTY_DESC
      BY <1>2, <1>3, Basics, CallPage DEF L, Idle
    <2> QED
      BY <1>1, <2>1 DEF CallInv, Idling, Reading, Writing, Missed
  <1>10. LossInv'
    BY <1>1, <1>5 DEF LossInv, Running, Found
  <1>11. ValueInv'
    BY <1>1 DEF ValueInv, FreshAnswer, Writing
  <1> QED
    BY <1>4, <1>5, <1>6, <1>7, <1>8, <1>9, <1>10, <1>11 DEF FtInv

\* ft_cache_drop drops the page it found.
LEMMA DropUnlockStep ==
    ASSUME NonzeroKeys, SmallIndices, FtInv, Running, DropUnlock
    PROVE  FtInv'
  <1>1. CASE ReadUnlockExits(lock) /\ UNCHANGED ftVars
    BY <1>1, ExitsStep DEF DropUnlock, Found
  <1>2. CASE ReadUnlockDrop(lock) /\ DropReturn("dropped")
    <2>1. pc = "drop_found" /\ pc \in Reading
      BY DEF DropUnlock, Reading
    <2>2. /\ pc' = "dropped" /\ stale' = stale \ {key} /\ resident' = resident \ {key}
          /\ UNCHANGED <<key, value, truth, reclaimed>>
      BY <1>2 DEF DropReturn, Goto
    <2>3. LockValid(lock) /\ wlock = EMPTY_DESC
      BY <1>2 DEF ReadUnlockDrop
    <2>4. PICK s \in Slot : s = locks[lock].head /\ s = map[key] /\ keys[s] = key
      BY <2>1, <2>3, CallPage DEF L, LockValid
    <2>5. key \in Key /\ keys[s] # ZeroKey
      BY <2>1, <2>4, CallPage DEF NonzeroKeys
    <2>6. /\ CacheDrop(s) /\ locks' = [locks EXCEPT ![lock] = Idle]
          /\ UNCHANGED <<memVars, wlock, exited>>
      <3>1. ~CacheDropOverruns(s)
        BY <2>5, Basics, DropFits
      <3> QED
        BY <1>2, <2>4, <3>1 DEF ReadUnlockDrop
    <2>7. /\ map' = [j \in Key |-> IF j = key THEN EMPTY_DESC ELSE map[j]]
          /\ keys' = [keys EXCEPT ![s] = ZeroKey]
          /\ UNCHANGED <<entries, lazy, bit0, wlock, exited>>
      BY <2>4, <2>5, <2>6 DEF CacheDrop, HmapRemove, NonzeroKeys, memVars
    <2>8. CountInv' /\ TypeOK'
      BY <1>2, CacheStep DEF Running
    <2>9. LazyKind'
      BY <2>7 DEF FtInv, LossInv, LazyKind
    <2>10. PagesFresh'
      BY <2>2, <2>7 DEF FtInv, PagesFresh, LockCheck, PayloadTail, ClearBit0
    <2>11. ResidentInv'
      <3> SUFFICES ASSUME ~reclaimed PROVE ResidentInv'
        BY <2>2 DEF ResidentInv
      <3>1. \A t \in Slot : keys'[t] # ZeroKey => t # s /\ keys'[t] = keys[t]
        BY <2>7, Basics DEF TypeOK
      <3>2. \A t \in Slot : keys'[t] # ZeroKey => map[keys[t]] = t /\ keys[t] # key /\ keys[t] \in Key
        <4> SUFFICES ASSUME NEW t \in Slot, keys'[t] # ZeroKey
                     PROVE  map[keys[t]] = t /\ keys[t] # key /\ keys[t] \in Key
          OBVIOUS
        <4>1. keys[t] # ZeroKey /\ t # s
          BY <3>1
        <4>2. map[keys[t]] = t /\ keys[t] \in Key
          BY <4>1, Basics DEF FtInv, ResidentInv, TypeOK
        <4> QED
          BY <2>4, <4>1, <4>2
      <3>3. \A t \in Slot : keys'[t] # ZeroKey => map'[keys'[t]] = t
        BY <2>7, <3>1, <3>2
      <3>4. \A t \in Slot : keys'[t] # ZeroKey /\ t # wlock' => entries'[t] # 0
        BY <2>7, <3>1 DEF FtInv, ResidentInv
      <3>5. resident' = {k \in Key : map'[k] \notin {EMPTY_DESC, wlock'}}
        BY <2>2, <2>7 DEF FtInv, ResidentInv
      <3> QED
        BY <3>3, <3>4, <3>5 DEF ResidentInv
    <2>12. FtTypeOK'
      BY <2>2, <2>8 DEF FtInv, FtTypeOK
    <2>13. CallInv'
      <3>1. L'.mode = "idle" /\ wlock' = EMPTY_DESC
        BY <2>3, <2>6, Basics DEF L, Idle
      <3> QED
        BY <2>2, <3>1 DEF CallInv, Idling, Reading, Writing, Missed
    <2>14. LossInv'
      BY <2>2, <2>7, <2>9 DEF LossInv, Running, Found
    <2>15. ValueInv'
      BY <2>2 DEF ValueInv, FreshAnswer, Writing
    <2> QED
      BY <2>8, <2>9, <2>10, <2>11, <2>12, <2>13, <2>14, <2>15 DEF FtInv
  <1> QED
    BY <1>1, <1>2 DEF DropUnlock

----------------------------------------------------------------------------
(* ft_cache_get writes *)

\* The owners and the hash map after an eviction.
LEMMA AllocEvictingExact ==
    ASSUME NonzeroKeys, TypeOK, IndexInv, NEW k \in Key, AllocEvicting(k)
    PROVE  /\ current_chunk_idx' \in Chunk /\ wlock' = <<current_chunk_idx', 0>>
           /\ \A t \in Slot : keys'[t] = IF t = wlock' THEN k
                                         ELSE IF t[1] = current_chunk_idx' THEN ZeroKey
                                         ELSE keys[t]
           /\ \A j \in Key : map'[j] = IF j = k THEN wlock'
                                       ELSE IF \E s \in Slot : s[1] = current_chunk_idx' /\ keys[s] = j
                                            THEN EMPTY_DESC ELSE map[j]
           /\ \A t \in Slot : t[1] # current_chunk_idx' => entries'[t] = entries[t]
           /\ \A t \in Slot : lazy'[t] => lazy[t]
  <1>1. PICK c \in Chunk :
          LET dropped == {s \in Slot : s[1] = c /\ s[2] < len[c]}
          IN  /\ MadvDontneed(c)
              /\ TakePage(<<c, 0>>, k, HmapRemove({keys[s] : s \in dropped}),
                          [s \in Slot |-> IF s \in dropped THEN ZeroKey ELSE keys[s]])
              /\ current_chunk_idx' = c
    BY DEF AllocEvicting
  <1> DEFINE dropped == {s \in Slot : s[1] = c /\ s[2] < len[c]}
  <1>2. \A t \in Slot : t[1] = c /\ keys[t] # ZeroKey => t \in dropped
    BY DEF IndexInv, OwnersSound, InUse
  <1>3. <<c, 0>> \in Slot /\ wlock' = <<c, 0>>
    BY <1>1, PagesAssumption, SlotFacts DEF Page, TakePage
  <1>4. \A t \in Slot : keys'[t] = IF t = <<c, 0>> THEN k
                                   ELSE IF t[1] = c THEN ZeroKey ELSE keys[t]
    BY <1>1, <1>2, <1>3 DEF TakePage
  <1>5. \A j \in Key : j \in {keys[s] : s \in dropped} <=> \E s \in Slot : s[1] = c /\ keys[s] = j
    BY <1>2 DEF NonzeroKeys
  <1>6. \A j \in Key : map'[j] = IF j = k THEN <<c, 0>>
                                 ELSE IF j \in {keys[s] : s \in dropped}
                                      THEN EMPTY_DESC ELSE map[j]
    BY <1>1 DEF TakePage, HmapRemove, NonzeroKeys
  <1>7. /\ \A t \in Slot : t[1] # c => entries'[t] = entries[t]
        /\ \A t \in Slot : lazy'[t] => lazy[t]
    BY <1>1 DEF MadvDontneed
  <1> HIDE DEF dropped
  <1> QED
    BY <1>1, <1>3, <1>4, <1>5, <1>6, <1>7

\* The pages of a chunk that was advanced over are lazy only if its kind is.
LEMMA AllocLazy ==
    ASSUME NonzeroKeys, TypeOK, IndexInv, LazyKind,
           NEW k \in Key, AllocNext(k) \/ AllocEvicting(k)
    PROVE  LazyKind'
  <1>1. CASE AllocNext(k)
    <2>1. PICK n \in 0 .. NumChunks - 1 : MadvImpl({Ahead(m) : m \in 0 .. n - 1})
      BY <1>1 DEF AllocNext
    <2> QED
      BY <2>1 DEF MadvImpl, LazyKind
  <1>2. CASE AllocEvicting(k)
    BY <1>2, AllocEvictingExact DEF LazyKind
  <1> QED
    BY <1>1, <1>2

\* While no page was lost a new page is taken for a key that has none, and
\* an eviction makes the evicted keys, and no others, misses.
LEMMA AllocResident ==
    ASSUME NonzeroKeys, FtInv, IndexInv', NEW k \in Key, wlock = EMPTY_DESC, map[k] = EMPTY_DESC,
           AllocNext(k) \/ AllocEvicting(k), ~reclaimed,
           resident' = {j \in resident : Evicts => map[j][1] # current_chunk_idx'}
    PROVE  /\ \A s \in Slot : keys'[s] # ZeroKey => map'[keys'[s]] = s
           /\ \A s \in Slot : keys'[s] # ZeroKey /\ s # wlock' => entries'[s] # 0
           /\ resident' = {j \in Key : map'[j] \notin {EMPTY_DESC, wlock'}}
  <1>0. TypeOK /\ IndexInv /\ k # ZeroKey
    BY Basics DEF NonzeroKeys
  <1>1. /\ \A s \in Slot : keys[s] # ZeroKey => keys[s] \in Key \ {k} /\ map[keys[s]] = s
        /\ \A s \in Slot : keys[s] # ZeroKey => entries[s] # 0
        /\ resident = {j \in Key : map[j] # EMPTY_DESC}
    BY <1>0, SlotFacts DEF FtInv, ResidentInv, TypeOK
  <1>2. \A j \in Key : map[j] # EMPTY_DESC => map[j] \in Slot /\ keys[map[j]] = j /\ j # ZeroKey
    BY <1>0 DEF TypeOK, IndexInv, MapSound, NonzeroKeys
  <1>3. CASE AllocNext(k)
    <2>1. /\ wlock' \in Slot /\ keys[wlock'] = ZeroKey
          /\ keys' = [keys EXCEPT ![wlock'] = k] /\ map' = [map EXCEPT ![k] = wlock']
      BY <1>0, <1>3, AllocNextIndex
    <2>2. entries' = entries /\ ~Evicts
      BY <1>3 DEF AllocNext, Evicts
    <2>3. /\ \A s \in Slot : keys'[s] = IF s = wlock' THEN k ELSE keys[s]
          /\ \A j \in Key : map'[j] = IF j = k THEN wlock' ELSE map[j]
      BY <1>0, <2>1 DEF TypeOK
    <2>4. \A s \in Slot : keys'[s] # ZeroKey => map'[keys'[s]] = s
      BY <1>1, <2>3
    <2>5. \A j \in Key \ {k} : map[j] # wlock'
      BY <1>2, <2>1, SlotFacts
    <2>6. resident' = resident
      BY <1>1, <2>2
    <2>7. resident' = {j \in Key : map'[j] \notin {EMPTY_DESC, wlock'}}
      BY <1>1, <2>3, <2>5, <2>6
    <2>8. \A s \in Slot : keys'[s] # ZeroKey /\ s # wlock' => entries'[s] # 0
      BY <1>1, <2>2, <2>3
    <2> QED
      BY <2>4, <2>7, <2>8
  <1>4. CASE AllocEvicting(k)
    <2>1. PICK c \in Chunk : c = current_chunk_idx'
      BY <1>0, <1>4, AllocEvictingExact
    <2>2. PICK w \in Slot : w = wlock' /\ w = <<c, 0>>
      BY <1>0, <1>4, <2>1, AllocEvictingExact, PagesAssumption, SlotFacts DEF Page
    <2>3. \A t \in Slot : keys'[t] = IF t = w THEN k ELSE IF t[1] = c THEN ZeroKey ELSE keys[t]
      BY <1>0, <1>4, <2>1, <2>2, AllocEvictingExact
    <2>4. \A j \in Key : map'[j] = IF j = k THEN w
                                   ELSE IF \E s \in Slot : s[1] = c /\ keys[s] = j
                                        THEN EMPTY_DESC ELSE map[j]
      BY <1>0, <1>4, <2>1, <2>2, AllocEvictingExact
    <2>5. \A t \in Slot : t[1] # c => entries'[t] = entries[t]
      BY <1>0, <1>4, <2>1, AllocEvictingExact
    <2>6. \A j \in Key : (\E s \in Slot : s[1] = c /\ keys[s] = j)
                            <=> map[j] # EMPTY_DESC /\ map[j][1] = c
      BY <1>1, <1>2, SlotFacts DEF NonzeroKeys
    <2>7. \A j \in Key \ {k} : map'[j] = IF map[j] # EMPTY_DESC /\ map[j][1] = c
                                         THEN EMPTY_DESC ELSE map[j]
      BY <2>4, <2>6
    <2>8. ASSUME NEW s \in Slot, keys'[s] # ZeroKey
          PROVE  map'[keys'[s]] = s /\ (s # w => entries'[s] # 0)
      <3>1. CASE s = w
        BY <2>3, <2>4, <3>1
      <3>2. CASE s # w
        <4>1. s[1] # c /\ keys'[s] = keys[s]
          BY <2>3, <2>8, <3>2
        <4>2. keys[s] \in Key \ {k} /\ map[keys[s]] = s /\ entries[s] # 0
          BY <1>1, <2>8, <4>1
        <4>3. map'[keys[s]] = s
          BY <2>7, <4>1, <4>2
        <4> QED
          BY <2>5, <4>1, <4>2, <4>3
      <3> QED
        BY <3>1, <3>2
    <2>9. Evicts
      BY <1>4 DEF AllocEvicting, Evicts
    <2>10. w[1] = c
      BY <2>2
    <2>11. resident' = {j \in Key : map'[j] \notin {EMPTY_DESC, w}}
      <3>1. \A j \in Key : j \in resident' <=> map[j] # EMPTY_DESC /\ map[j][1] # c
        BY <1>1, <2>1, <2>9
      <3>2. \A j \in Key \ {k} : map'[j] \notin {EMPTY_DESC, w} <=> map[j] # EMPTY_DESC /\ map[j][1] # c
        BY <2>7, <2>10
      <3>3. map'[k] = w
        BY <2>4
      <3>4. resident' \subseteq Key
        BY <1>1
      <3> QED
        BY <3>1, <3>2, <3>3, <3>4
    <2> QED
      BY <2>2, <2>8, <2>11
  <1> QED
    BY <1>3, <1>4

\* The write lock takes a page for the key, from an evicted chunk if need be.
LEMMA GetWriteLockStep ==
    ASSUME NonzeroKeys, SmallIndices, FtInv, Running, GetWriteLock
    PROVE  FtInv'
  <1>0. ~AllocFails /\ exited = "no"
    BY NeverFails DEF FtInv, Running
  <1>2. /\ pc = "get_refilled" /\ pc \in Reading
        /\ WriteLockMiss(lock) \/ WriteLockLost(lock)
        /\ key \in Key /\ wlock = EMPTY_DESC /\ ~Checks
    BY CallPage DEF GetWriteLock, Reading, FtInv, CallInv, Missed
  <1>3. /\ AllocNext(key) \/ AllocEvicting(key)
        /\ L'.mode = "write"
    BY <1>0, <1>2, Basics, CallPage DEF WriteLockMiss, WriteLockLost, WriteAlloc, L
  <1>1. /\ pc = "get_refilled" /\ pc' = "get_wlocked" /\ pc \in Reading
        /\ UNCHANGED <<key, value, truth, stale, reclaimed>>
        /\ resident' = {k \in resident : Evicts => map[k][1] # current_chunk_idx'}
        /\ WriteLockMiss(lock) \/ WriteLockLost(lock)
    <2>1. exited' = "no"
      BY <1>0, <1>3 DEF AllocNext, AllocEvicting
    <2> QED
      BY <1>2, <2>1 DEF GetWriteLock, Goto
  <1>4. CountInv' /\ TypeOK'
    BY <1>1, CacheStep DEF Running
  <1>5. AllocEffect(key)
    BY <1>2, <1>3, Basics, AllocIndex
  <1>6. /\ wlock' \in Slot /\ wlock' # EMPTY_DESC /\ keys'[wlock'] = key /\ map'[key] = wlock'
        /\ IndexInv' /\ bit0' = bit0
    BY <1>5, SlotFacts DEF AllocEffect
  <1>7. LazyKind'
    BY <1>2, <1>3, Basics, AllocLazy DEF FtInv, LossInv
  <1>8. PagesFresh'
    <2> SUFFICES ASSUME NEW k \in Key \ stale, map'[k] \notin {EMPTY_DESC, wlock'},
                        entries'[map'[k]] > 0
                 PROVE  PayloadTail(map[k])' = truth[k]
      BY <1>1, <1>5, <1>6 DEF PagesFresh, LockCheck, AllocEffect
    <2>1. map'[k] = map[k] /\ map[k] # EMPTY_DESC /\ map[k] \in Slot \ {wlock'}
      BY <1>5, <1>6, Basics DEF AllocEffect, TypeOK
    <2>2. keys'[map[k]] # ZeroKey
      BY <1>6, <2>1 DEF IndexInv, MapSound, NonzeroKeys
    <2>3. entries'[map[k]] = entries[map[k]]
      BY <1>5, <2>1, <2>2 DEF AllocEffect
    <2>4. PayloadTail(map[k]) = truth[k]
      BY <1>2, <2>1, <2>3 DEF FtInv, PagesFresh, LockCheck
    <2> QED
      BY <1>6, <2>1, <2>3, <2>4 DEF PayloadTail, ClearBit0
  <1>9. ResidentInv'
    <2>1. ASSUME ~reclaimed
          PROVE  /\ \A s \in Slot : keys'[s] # ZeroKey => map'[keys'[s]] = s
                 /\ \A s \in Slot : keys'[s] # ZeroKey /\ s # wlock' => entries'[s] # 0
                 /\ resident' = {j \in Key : map'[j] \notin {EMPTY_DESC, wlock'}}
      BY <1>1, <1>2, <1>3, <1>6, <2>1, MissedKey, AllocResident
    <2> QED
      BY <1>1, <2>1 DEF ResidentInv
  <1>10. FtTypeOK'
    BY <1>1, <1>4 DEF FtInv, FtTypeOK
  <1>11. CallInv'
    BY <1>1, <1>2, <1>3, <1>6 DEF CallInv, Idling, Reading, Writing, Missed
  <1>12. LossInv'
    <2>1. exited' = "no"
      BY <1>3 DEF AllocNext, AllocEvicting, Running
    <2> QED
      BY <1>1, <1>7, <2>1 DEF LossInv, Found
  <1>13. ValueInv'
    BY <1>1 DEF FtInv, ValueInv, FreshAnswer, Writing
  <1> QED
    BY <1>4, <1>7, <1>8, <1>9, <1>10, <1>11, <1>12, <1>13 DEF FtInv

\* The page the running call writes to.
LEMMA WritePages ==
    ASSUME NonzeroKeys, FtInv, pc \in Writing
    PROVE  /\ key \in Key /\ wlock \in Slot /\ wlock # EMPTY_DESC
           /\ keys[wlock] = key /\ map[key] = wlock /\ L.mode = "write"
           /\ value = truth[key] /\ value \in TailValue
           /\ \A k \in Key \ {key} : map[k] # wlock
  <1>1. /\ key \in Key /\ wlock # EMPTY_DESC /\ keys[wlock] = key
        /\ map[key] = wlock /\ L.mode = "write"
    BY DEF FtInv, CallInv, Idling, Writing
  <1>2. wlock \in Slot
    BY <1>1, Basics DEF TypeOK
  <1>3. value = truth[key] /\ value \in TailValue
    BY <1>1 DEF FtInv, ValueInv, FtTypeOK
  <1>4. \A k \in Key : map[k] = wlock => k = key
    BY <1>1, Basics DEF IndexInv, MapSound
  <1> QED
    BY <1>1, <1>2, <1>3, <1>4

\* The entry is written to the new page.
LEMMA GetStoreStep ==
    ASSUME NonzeroKeys, SmallIndices, FtInv, Running, GetStore
    PROVE  FtInv'
  <1>1. /\ pc = "get_wlocked" /\ pc' = "get_stored" /\ pc \in Writing
        /\ UNCHANGED <<key, value, truth, stale, resident, reclaimed>>
        /\ WritePage(value)
    BY DEF GetStore, Goto, history, Writing
  <1>2. /\ entries' = [entries EXCEPT ![wlock] = value]
        /\ lazy' = [lazy EXCEPT ![wlock] = FALSE]
        /\ UNCHANGED <<keys, bit0, map, wlock, locks, exited, L>>
    BY <1>1 DEF WritePage, StoreTail, cacheVars, L
  <1>3. CountInv' /\ TypeOK'
    BY <1>1, WritePages, CacheStep DEF Running
  <1>4. /\ entries'[wlock] = value /\ lazy'[wlock] = FALSE
        /\ \A s \in Slot \ {wlock} : entries'[s] = entries[s] /\ lazy'[s] = lazy[s]
    BY <1>1, <1>2, WritePages, Basics DEF TypeOK, MemTypeOK
  <1>5. LazyKind'
    BY <1>4 DEF FtInv, LossInv, LazyKind
  <1>6. PagesFresh'
    <2> SUFFICES ASSUME NEW k \in Key \ stale, map[k] \notin {EMPTY_DESC, wlock},
                        entries'[map[k]] > 0
                 PROVE  PayloadTail(map[k])' = truth[k]
      BY <1>1, <1>2 DEF PagesFresh, LockCheck
    <2>1. entries'[map[k]] = entries[map[k]]
      BY <1>4, Basics DEF TypeOK
    <2> QED
      BY <1>2, <2>1 DEF FtInv, PagesFresh, LockCheck, PayloadTail, ClearBit0
  <1>7. ResidentInv'
    BY <1>1, <1>2, <1>4 DEF FtInv, ResidentInv
  <1>8. FtTypeOK'
    BY <1>1, <1>3 DEF FtInv, FtTypeOK
  <1>9. CallInv'
    BY <1>1, <1>2 DEF FtInv, CallInv, Idling, Reading, Writing, Missed
  <1>10. LossInv'
    BY <1>1, <1>2, <1>5 DEF LossInv, Running, Found
  <1>11. ValueInv'
    BY <1>1, <1>2, <1>4 DEF FtInv, ValueInv, FreshAnswer, Writing
  <1> QED
    BY <1>3, <1>5, <1>6, <1>7, <1>8, <1>9, <1>10, <1>11 DEF FtInv

\* The new page becomes the key's, with the value the callback gave.
LEMMA GetWriteUnlockStep ==
    ASSUME NonzeroKeys, SmallIndices, FtInv, Running, GetWriteUnlock
    PROVE  FtInv'
  <1>1. /\ pc = "get_stored" /\ pc' = "got" /\ pc \in Writing
        /\ UNCHANGED <<key, value, truth, reclaimed>>
        /\ stale' = stale \ {key}
        /\ resident' = IF reclaimed THEN {} ELSE resident \cup {key}
        /\ WriteUnlockKeep
    BY DEF GetWriteUnlock, GetReturn, Goto, Writing
  <1>2. PICK s \in Slot : s = wlock
    BY <1>1, WritePages
  <1>3. /\ wlock' = EMPTY_DESC
        /\ bit0' = [bit0 EXCEPT ![s] = entries[s] % 2 = 1]
        /\ entries' = [entries EXCEPT ![s] = SetBit0(entries[s])]
        /\ lazy' = [lazy EXCEPT ![s] = FALSE]
        /\ ReleaseWriter
        /\ UNCHANGED <<keys, map, exited>>
    BY <1>1, <1>2 DEF WriteUnlockKeep, StoreTail
  <1>4. CountInv' /\ TypeOK'
    BY <1>1, CacheStep DEF Running
  <1>5. entries[s] \in Byte /\ entries[s] = truth[key]
    BY <1>1, <1>2, WritePages, Basics DEF FtInv, ValueInv, TypeOK, MemTypeOK
  <1>6. /\ entries'[s] = SetBit0(entries[s]) /\ bit0'[s] = (entries[s] % 2 = 1)
        /\ lazy'[s] = FALSE
        /\ \A t \in Slot \ {s} : entries'[t] = entries[t] /\ bit0'[t] = bit0[t] /\ lazy'[t] = lazy[t]
    BY <1>3, Basics DEF TypeOK, MemTypeOK
  <1>7. LazyKind'
    BY <1>6 DEF FtInv, LossInv, LazyKind
  <1>8. PagesFresh'
    <2> SUFFICES ASSUME NEW k \in Key \ stale', map[k] # EMPTY_DESC, entries'[map[k]] > 0
                 PROVE  (IF bit0'[map[k]] THEN entries'[map[k]]
                         ELSE ClearBit0(entries'[map[k]])) = truth[k]
      BY <1>1, <1>3 DEF PagesFresh, LockCheck, PayloadTail, ClearBit0
    <2>1. CASE k = key
      <3>1. map[k] = s
        BY <1>1, <1>2, <2>1, WritePages
      <3> QED
        BY <1>5, <1>6, <2>1, <3>1, Bit0RoundTrip
    <2>2. CASE k # key
      <3>1. k \notin stale /\ map[k] \in Slot \ {s} /\ map[k] # wlock
        BY <1>1, <1>2, <2>2, WritePages, Basics DEF TypeOK
      <3> QED
        BY <1>6, <3>1 DEF FtInv, PagesFresh, LockCheck, PayloadTail
    <2> QED
      BY <2>1, <2>2
  <1>9. ResidentInv'
    <2> SUFFICES ASSUME ~reclaimed PROVE ResidentInv'
      BY <1>1 DEF ResidentInv
    <2>1. \A t \in Slot : keys'[t] # ZeroKey => map'[keys'[t]] = t
      BY <1>3 DEF FtInv, ResidentInv
    <2>2. \A t \in Slot : keys'[t] # ZeroKey => entries'[t] # 0
      <3>1. entries'[s] # 0
        BY <1>5, <1>6, Bit0RoundTrip
      <3> QED
        BY <1>2, <1>3, <1>6, <3>1 DEF FtInv, ResidentInv
    <2>3. resident' = {k \in Key : map'[k] \notin {EMPTY_DESC, wlock'}}
      BY <1>1, <1>3, WritePages DEF FtInv, ResidentInv
    <2> QED
      BY <2>1, <2>2, <2>3 DEF ResidentInv
  <1>10. FtTypeOK'
    BY <1>1, <1>4, WritePages DEF FtInv, FtTypeOK
  <1>11. CallInv'
    <2>1. L'.mode = "idle"
      BY <1>1, <1>3, Basics, WritePages DEF ReleaseWriter, L, Idle
    <2> QED
      BY <1>1, <1>3, <2>1 DEF CallInv, Idling, Reading, Writing, Missed
  <1>12. LossInv'
    BY <1>1, <1>3, <1>7 DEF LossInv, Running, Found
  <1>13. ValueInv'
    BY <1>1, WritePages DEF ValueInv, FreshAnswer, Writing
  <1> QED
    BY <1>4, <1>7, <1>8, <1>9, <1>10, <1>11, <1>12, <1>13 DEF FtInv

----------------------------------------------------------------------------
(* The kernel, and a cache that is given back *)

\* The kernel takes a page, whichever step the call is at.
LEMMA ReclaimingStep ==
    ASSUME NonzeroKeys, SmallIndices, FtInv, Running, Reclaiming
    PROVE  FtInv'
  <1>1. /\ UNCHANGED <<pc, key, value, truth, stale>>
        /\ reclaimed' = TRUE /\ resident' = {}
    BY DEF Reclaiming
  <1>2. PICK s \in Slot : KernelReclaim(s)
    BY DEF Reclaiming
  <1>3. /\ lazy[s]
        /\ entries' = [entries EXCEPT ![s] = 0]
        /\ lazy' = [lazy EXCEPT ![s] = FALSE]
        /\ UNCHANGED <<keys, bit0, map, wlock, locks, exited, L>>
    BY <1>2 DEF KernelReclaim, Reclaim, cacheVars, L
  <1>4. CountInv' /\ TypeOK'
    BY <1>2, CacheStep DEF Running
  <1>5. /\ entries'[s] = 0 /\ lazy'[s] = FALSE
        /\ \A t \in Slot \ {s} : entries'[t] = entries[t] /\ lazy'[t] = lazy[t]
    BY <1>3, Basics DEF TypeOK, MemTypeOK
  <1>6. \A t \in Slot : LockCheck(t)' <=> LockCheck(t) /\ t # s
    BY <1>5 DEF LockCheck
  <1>7. LazyKind' /\ Kind(s[1]) = "lazyfree"
    BY <1>3, <1>5 DEF FtInv, LossInv, LazyKind
  <1>8. PagesFresh'
    <2> SUFFICES ASSUME NEW k \in Key \ stale, map[k] \notin {EMPTY_DESC, wlock},
                        LockCheck(map[k])'
                 PROVE  PayloadTail(map[k])' = truth[k]
      BY <1>1, <1>3 DEF PagesFresh
    <2>1. map[k] \in Slot
      BY Basics DEF TypeOK
    <2>2. map'[k] = map[k]
      BY <1>3
    <2>3. LockCheck(map[k]) /\ map[k] # s
      BY <1>6, <2>1, <2>2 DEF LockCheck
    <2>4. entries'[map[k]] = entries[map[k]]
      BY <1>5, <2>1, <2>3
    <2> QED
      BY <1>3, <2>3, <2>4 DEF FtInv, PagesFresh, PayloadTail, ClearBit0
  <1>9. ResidentInv'
    BY <1>1 DEF ResidentInv
  <1>10. FtTypeOK'
    BY <1>1, <1>4 DEF FtInv, FtTypeOK
  <1>11. ASSUME pc \in Reading, Checks' PROVE Checks
    <2>1. L.head # EMPTY_PAGE
      BY <1>3, <1>11 DEF Checks, L
    <2>2. L.head \in Slot
      BY <1>11, <2>1, CallPage
    <2> QED
      BY <1>3, <1>5, <1>11, <2>1, <2>2 DEF Checks, LockCheck, L
  <1>12. CallInv'
    <2>1. ASSUME pc \in Reading, L.head = EMPTY_PAGE
          PROVE  map'[key] = EMPTY_DESC \/ ~(entries'[map'[key]] > 0)
      <3>1. map[key] = EMPTY_DESC \/ ~LockCheck(map[key])
        BY <2>1 DEF FtInv, CallInv
      <3>2. map[key] # EMPTY_DESC => map[key] \in Slot
        BY <2>1, CallPage
      <3> QED
        BY <1>3, <1>5, <3>1, <3>2 DEF LockCheck
    <2> QED
      BY <1>1, <1>3, <1>11, <2>1 DEF FtInv, CallInv, Idling, Reading, Writing, Missed, LockCheck
  <1>13. LossInv'
    <2>1. ASSUME pc \in Found PROVE Checks' \/ Kind(L.head[1]) = "lazyfree"
      <3>1. pc \in Reading /\ L.head # EMPTY_PAGE
        BY <2>1 DEF FtInv, LossInv, Found, Reading
      <3>2. L.head \in Slot
        BY <3>1, CallPage
      <3>3. CASE L.head = s
        BY <1>7, <3>3
      <3>4. CASE L.head # s
        <4>1. Checks' = Checks
          BY <1>3, <1>5, <3>2, <3>4 DEF Checks, LockCheck, L
        <4> QED
          BY <2>1, <4>1 DEF FtInv, LossInv
      <3> QED
        BY <3>3, <3>4
    <2> QED
      BY <1>1, <1>3, <1>7, <2>1 DEF FtInv, LossInv, Running
  <1>14. ValueInv'
    <2>1. pc = "get_stored" => wlock # s /\ wlock \in Slot
      BY <1>3, WritePages DEF FtInv, ValueInv, Writing
    <2>2. pc = "get_copied" /\ Checks' => Checks
      BY <1>11 DEF Reading
    <2> QED
      BY <1>1, <1>3, <1>5, <2>1, <2>2 DEF FtInv, ValueInv, FreshAnswer, Writing
  <1> QED
    BY <1>4, <1>7, <1>8, <1>9, <1>10, <1>12, <1>13, <1>14 DEF FtInv

\* An empty cache is a sound one.
Empty ==
    /\ MemTypeOK /\ locks \in [Handle -> Lock] /\ exited = "no"
    /\ \A h \in Handle : locks[h].mode = "idle"
    /\ keys = [s \in Slot |-> ZeroKey] /\ bit0 = [s \in Slot |-> FALSE]
    /\ free_pages = [c \in Chunk |-> << >>] /\ len = [c \in Chunk |-> 0]
    /\ current_chunk_idx = 0 /\ map = [k \in Key |-> EMPTY_DESC]
    /\ total_free_pages = NumChunks * PagesPerChunk /\ wlock = EMPTY_DESC

\* A new cache has the invariant of the cache.
LEMMA EmptySound == Empty => CountInv /\ TypeOK
  <1> SUFFICES ASSUME Empty PROVE CountInv /\ TypeOK
    OBVIOUS
  <1> USE DEF Empty
  <1>1. /\ NumChunks \in Nat \ {0} /\ PagesPerChunk \in Nat \ {0} /\ 0 \in Chunk
        /\ NumChunks * PagesPerChunk \in Int
    BY ChunksAssumption, PagesAssumption DEF Chunk
  <1>2. free_pages \in [Chunk -> Seq(Page)] /\ len \in [Chunk -> 0 .. PagesPerChunk]
    BY <1>1
  <1>3. TypeOK /\ TypeInv
    BY <1>1, <1>2 DEF TypeOK, TypeInv, LocksWellFormed
  <1>4. \A c \in Chunk : Free(c) = {}
    BY DEF Free, Range
  <1>5. FreeListsSound
    BY <1>4 DEF FreeListsSound, IsInjective
  <1>6. OwnersSound /\ MapSound
    BY PagesAssumption, SlotFacts DEF OwnersSound, InUse, Page, MapSound
  <1>7. SafetyInv
    BY <1>3, <1>5, <1>6
       DEF SafetyInv, IndexInv, OneLockPerKey, WriterInv, ValidLockIsCurrent, LockValid
  <1>8. Unowned = Slot
    BY DEF Unowned
  <1> QED
    BY <1>3, <1>7, <1>8, SlotsFinite DEF CountInv, NoDoubleDrop, FreePagesCounted, Unowned

\* The same after a step.
LEMMA EmptySoundNext == Empty' => CountInv' /\ TypeOK'
  BY EmptySound, PTL

\* ft_cache_destroy and ft_cache_init make it anew.
LEMMA RenewStep ==
    ASSUME NonzeroKeys, SmallIndices, FtInv, Running, Renew
    PROVE  FtInv'
  <1>1. /\ Idling /\ exited = "no"
        /\ keys' = [s \in Slot |-> ZeroKey]
        /\ map' = [k \in Key |-> EMPTY_DESC]
        /\ pc' = "init" /\ key' = ZeroKey /\ value' = 0
        /\ stale' = {} /\ resident' = {} /\ reclaimed' = FALSE
        /\ UNCHANGED <<wlock, locks, exited, truth, L>>
    BY DEF Renew, Goto, Running, L
  <1>2. L.mode = "idle" /\ wlock = EMPTY_DESC
    BY <1>1 DEF FtInv, CallInv
  <1>3. MemTypeOK' /\ LazyKind'
    <2>1. \A f \in [Slot -> {0} \cup LeftoverBytes], s \in Slot : f[s] \in Byte
      <3>1. {0} \cup LeftoverBytes \subseteq Byte
        BY LeftoverAssumption DEF Byte
      <3> QED
        BY <3>1
    <2>2. PICK files \in [Slot -> {0} \cup LeftoverBytes] :
            entries' = [s \in Slot |-> IF Kind(s[1]) = "disk" THEN files[s] ELSE 0]
      BY DEF Renew, MemRenew
    <2>3. entries' \in [Slot -> Byte]
      BY <2>1, <2>2, ByteFacts
    <2>4. lazy' = [s \in Slot |-> FALSE]
      BY DEF Renew, MemRenew
    <2> QED
      BY <2>3, <2>4 DEF MemTypeOK, LazyKind
  <1>4. CountInv' /\ TypeOK'
    <2>1. locks' \in [Handle -> Lock] /\ \A h \in Handle : locks'[h].mode = "idle"
      BY <1>1, <1>2, Basics, LockAssumption DEF L
    <2> QED
      BY <1>1, <1>2, <1>3, <2>1, EmptySoundNext DEF Renew, Empty
  <1>5. FtTypeOK'
    BY <1>1, <1>4, ByteFacts DEF FtInv, FtTypeOK
  <1>6. PagesFresh' /\ ResidentInv'
    BY <1>1 DEF PagesFresh, ResidentInv
  <1>7. CallInv'
    BY <1>1, <1>2 DEF CallInv, Idling, Reading, Writing, Missed
  <1>8. LossInv' /\ ValueInv'
    BY <1>1, <1>3 DEF LossInv, Found, ValueInv, FreshAnswer, Writing
  <1> QED
    BY <1>4, <1>5, <1>6, <1>7, <1>8 DEF FtInv

----------------------------------------------------------------------------
(* The theorems *)

\* The invariant holds of a new cache.
LEMMA InitFtInv == FtInit => FtInv
  <1> SUFFICES ASSUME FtInit PROVE FtInv
    OBVIOUS
  <1>1. CountInv /\ TypeOK
    BY InitCount DEF FtInit, CountInv, SafetyInv, TypeInv
  <1>2. /\ pc = "init" /\ wlock = EMPTY_DESC /\ exited = "no" /\ L.mode = "idle"
        /\ lazy = [s \in Slot |-> FALSE] /\ keys = [s \in Slot |-> ZeroKey]
        /\ map = [k \in Key |-> EMPTY_DESC] /\ resident = {}
    BY LockAssumption DEF FtInit, Init, MemInit, L, Idle
  <1>3. FtTypeOK
    BY <1>1, ByteFacts DEF FtInit, FtTypeOK
  <1> QED
    BY <1>1, <1>2, <1>3 DEF FtInv, CallInv, Idling, Reading, Writing, Missed, Found,
       LossInv, LazyKind, PagesFresh, ValueInv, FreshAnswer, ResidentInv

\* Every step keeps the invariant.
LEMMA NextFtInv ==
    NonzeroKeys /\ SmallIndices /\ FtInv /\ [FtNext]_allVars => FtInv'
  <1> SUFFICES ASSUME NonzeroKeys, SmallIndices, FtInv, [FtNext]_allVars
               PROVE  FtInv'
    OBVIOUS
  <1>1. CASE UNCHANGED allVars
    <2>1. /\ UNCHANGED <<pc, key, value, truth, stale, resident, reclaimed>>
          /\ UNCHANGED <<vars, memVars, cacheVars, locks, exited, L>>
      BY <1>1 DEF allVars, vars, ftVars, history, L
    <2>2. UNCHANGED <<entries, lazy, keys, bit0, map, wlock>>
      BY <2>1 DEF memVars, cacheVars
    <2>3. CountInv' /\ TypeOK'
      BY <2>1, NextCount DEF FtInv, CountInv, SafetyInv, TypeInv
    <2>4. LazyKind' /\ PagesFresh' /\ ResidentInv'
      BY <2>1, SamePages
    <2>5. Checks' = Checks
      BY <2>1, <2>2 DEF Checks, LockCheck
    <2>6. FtTypeOK' /\ LossInv'
      BY <2>1, <2>3, <2>4, <2>5 DEF FtInv, FtTypeOK, LossInv
    <2>7. CallInv'
      BY <2>1, <2>2, <2>5 DEF FtInv, CallInv, Idling, LockCheck
    <2>8. ValueInv'
      BY <2>1, <2>2, <2>5 DEF FtInv, ValueInv, FreshAnswer
    <2> QED
      BY <2>3, <2>4, <2>6, <2>7, <2>8 DEF FtInv
  <1>2. CASE FtNext
    <2>1. Running
      BY <1>2 DEF FtNext
    <2>2. ASSUME NEW k \in Key, GetStart(k) \/ DropStart(k) PROVE FtInv'
      BY <2>1, <2>2, StartStep
    <2>3. CASE Get
      BY <2>1, <2>3, GetLookupStep, GetCopyStep, GetUnlockStep, GetRefillStep,
         GetWriteLockStep, GetStoreStep, GetWriteUnlockStep DEF Get
    <2>4. CASE Drop
      <3>1. CASE DropLookup /\ UNCHANGED vars /\ pc' = "drop_found"
        BY <2>1, <3>1, GetLookupStep
      <3>2. CASE /\ pc = "drop_locked" /\ ~Checks /\ DropReturn("absent")
                 /\ locks' = [locks EXCEPT ![lock] = Idle]
                 /\ UNCHANGED <<memVars, cacheVars, exited>>
        BY <2>1, <3>2, DropAbsentStep
      <3>3. CASE DropUnlock
        BY <2>1, <3>3, DropUnlockStep
      <3> QED
        BY <2>4, <3>1, <3>2, <3>3 DEF Drop, DropLookup, Goto
    <2>5. ASSUME NEW k \in Key, NEW v \in TailValue, ChangeTruth(k, v) PROVE FtInv'
      BY <2>1, <2>5, ChangeTruthStep
    <2>6. CASE Reclaiming \/ Renew
      BY <2>1, <2>6, ReclaimingStep, RenewStep
    <2> QED
      BY <1>2, <2>2, <2>3, <2>4, <2>5, <2>6 DEF FtNext
  <1> QED
    BY <1>1, <1>2

\* The invariant of ft_cache_get and ft_cache_drop over the cache.
THEOREM FtInvHolds ==
    ASSUME NonzeroKeys, SmallIndices
    PROVE  FtSpec => []FtInv
  <1>1. FtInit => FtInv
    BY InitFtInv
  <1>2. FtInv /\ [FtNext]_allVars => FtInv'
    BY NextFtInv
  <1> QED
    BY <1>1, <1>2, PTL DEF FtSpec

\* The types of the cache and of the call that runs over it.
THEOREM FtTypes ==
    ASSUME NonzeroKeys, SmallIndices
    PROVE  FtSpec => []FtTypeOK
  <1>1. FtInv => FtTypeOK
    BY DEF FtInv
  <1> QED
    BY <1>1, FtInvHolds, PTL

\* ft_cache_get returns what the refill callback gives for its key, through
\* every drop, eviction, reclaim and reuse of the pages below.
THEOREM AnswersFresh ==
    ASSUME NonzeroKeys, SmallIndices
    PROVE  FtSpec => []FreshAnswer
  <1>1. FtInv => FreshAnswer
    BY DEF FtInv, ValueInv
  <1> QED
    BY <1>1, FtInvHolds, PTL

\* The program ends in a call only over a page that was under MADV_FREE, and
\* never as a failed drop.
THEOREM ExitsExplained ==
    ASSUME NonzeroKeys, SmallIndices
    PROVE  FtSpec => []ExitsOnlyOnLoss
  <1>1. ASSUME FtInv, ~Running
        PROVE  /\ locks[lock].head \in Slot /\ Kind(locks[lock].head[1]) = "lazyfree"
               /\ exited \in {"no", "LOCK CHECK FAILED"}
    <2>1. pc \in Found /\ pc \in Reading /\ ~Checks
      BY <1>1 DEF FtInv, LossInv, Running, Found, Reading
    <2>2. L.head \in Slot /\ Kind(L.head[1]) = "lazyfree"
      BY <1>1, <2>1, CallPage DEF FtInv, LossInv
    <2> QED
      BY <1>1, <2>2 DEF FtInv, LossInv, Running, L
  <1>2. FtInv => ExitsOnlyOnLoss
    BY <1>1 DEF ExitsOnlyOnLoss
  <1> QED
    BY <1>2, FtInvHolds, PTL

\* When all pages have owners and none was lost, the keys that were returned
\* and not dropped are as many as the pages.
LEMMA FullOfResidents ==
    ASSUME FtInv, ~reclaimed, wlock = EMPTY_DESC, Evicts
    PROVE  Cardinality(resident) = Cardinality(Slot)
  <1>1. \A s \in Slot : keys[s] # ZeroKey
    BY CountZero DEF Evicts, FtInv, CountInv
  <1>2. \A s \in Slot : keys[s] \in Key /\ map[keys[s]] = s
    BY <1>1, Basics DEF FtInv, ResidentInv, TypeOK
  <1>3. \A k \in resident : k \in Key /\ map[k] \in Slot /\ keys[map[k]] = k
    BY Basics DEF FtInv, ResidentInv, TypeOK, IndexInv, MapSound
  <1>4. \A s \in Slot : keys[s] \in resident
    BY <1>2, SlotFacts DEF FtInv, ResidentInv
  <1> DEFINE f == [s \in Slot |-> keys[s]]
  <1>5. f \in Bijection(Slot, resident)
    <2>1. f \in [Slot -> resident]
      BY <1>4
    <2>2. \A s, t \in Slot : f[s] = f[t] => s = t
      BY <1>2
    <2>3. \A k \in resident : \E s \in Slot : f[s] = k
      BY <1>3
    <2> HIDE DEF f
    <2> QED
      BY <2>1, <2>2, <2>3, Fun_IsBij
  <1>6. ExistsBijection(Slot, resident)
    BY <1>5 DEF ExistsBijection
  <1> QED
    BY <1>6, SlotsFinite, FS_Bijection

\* Until the kernel takes a page, what a get has returned is a hit until it is
\* dropped or evicted, and only a cache full of such keys evicts.
THEOREM HitsStay ==
    ASSUME NonzeroKeys, SmallIndices
    PROVE  FtSpec => ResidentHits
  <1>1. ASSUME FtInv, ~reclaimed, GetRefill
        PROVE  key \notin resident
    BY <1>1, MissedKey DEF GetRefill, FtInv, CallInv, Missed, Reading
  <1>2. ASSUME FtInv, ~reclaimed, GetWriteLock, Evicts
        PROVE  Cardinality(resident) = Cardinality(Slot)
    BY <1>2, CallPage, FullOfResidents DEF GetWriteLock, Reading
  <1>3. FtInv => [~reclaimed =>
                    /\ GetRefill => key \notin resident
                    /\ GetWriteLock /\ Evicts => Cardinality(resident) = Cardinality(Slot)
                 ]_allVars
    BY <1>1, <1>2
  <1> QED
    BY <1>3, FtInvHolds, PTL DEF ResidentHits

=============================================================================
