----------------------------- MODULE StubCache -----------------------------
(***************************************************************************)
(* stub_cache.c, and ft_cache_get and ft_cache_drop over it, as the        *)
(* benchmark runs them.  The stub has one page, EMPTY_PAGE, for all read   *)
(* locks and all writers; taking a read lock makes the page read as lost,  *)
(* and a writer makes it read as valid again.                              *)
(***************************************************************************)
EXTENDS Integers, TLAPS

CONSTANTS
    Key,        \* the keys callers ask for
    ZeroKey     \* the key before the first call

VARIABLES
    last,       \* EMPTY_PAGE[PAGE_SIZE-1]
    pc,         \* where the running call is
    key,        \* its argument, or that of the last call
    value,      \* the last byte of the entry
    truth       \* what refill_cb gives for a key

vars == <<last, pc, key, value, truth>>

Byte == 0 .. 255

TypeOK ==
    /\ last \in Byte /\ value \in Byte
    /\ pc \in {"init", "got", "dropped", "absent", "exited",
               "get_locked", "get_found", "get_copied", "get_missed",
               "get_refilled", "drop_locked"}
    /\ key \in Key \cup {ZeroKey}
    /\ truth \in [Key -> Byte]

Init ==
    /\ last = 0
    /\ pc = "init" /\ key = ZeroKey /\ value = 0
    /\ truth \in [Key -> Byte]

Idling == pc \in {"init", "got", "dropped", "absent"}

Goto(label) == pc' = label

\* LAZYFREE_LOCK_CHECK; the head of every lock is EMPTY_PAGE.
LockCheck == last > 0

\* stub_cache_read_lock
ReadLock == last' = 0

GetStart(k) ==
    /\ Idling
    /\ ReadLock
    /\ key' = k
    /\ Goto("get_locked")
    /\ UNCHANGED <<value, truth>>

GetLookup ==
    /\ pc = "get_locked"
    /\ Goto(IF LockCheck THEN "get_found" ELSE "get_missed")
    /\ UNCHANGED <<last, key, value, truth>>

\* lazyfree_read: the tail of every lock is 0.
GetCopy ==
    /\ pc = "get_found"
    /\ value' = IF LockCheck THEN 0 ELSE value
    /\ Goto("get_copied")
    /\ UNCHANGED <<last, key, truth>>

\* The second check; stub_cache_read_unlock does nothing.
GetCheck ==
    /\ pc = "get_copied"
    /\ Goto(IF LockCheck THEN "got" ELSE "exited")
    /\ UNCHANGED <<last, key, value, truth>>

\* The refill callback.
GetRefill ==
    /\ pc = "get_missed"
    /\ value' = truth[key]
    /\ Goto("get_refilled")
    /\ UNCHANGED <<last, key, truth>>

\* stub_cache_write_lock and stub_cache_write_unlock do nothing; the copy
\* between them goes to EMPTY_PAGE.
GetStore ==
    /\ pc = "get_refilled"
    /\ last' = value
    /\ Goto("got")
    /\ UNCHANGED <<key, value, truth>>

DropStart(k) ==
    /\ Idling
    /\ ReadLock
    /\ key' = k
    /\ Goto("drop_locked")
    /\ UNCHANGED <<value, truth>>

DropLookup ==
    /\ pc = "drop_locked"
    /\ Goto(IF LockCheck THEN "dropped" ELSE "absent")
    /\ UNCHANGED <<last, key, value, truth>>

\* The callback will give another value for k from now on.
ChangeTruth(k, v) ==
    /\ Idling
    /\ truth' = [truth EXCEPT ![k] = v]
    /\ UNCHANGED <<last, pc, key, value>>

Next ==
    \/ \E k \in Key : GetStart(k) \/ DropStart(k)
    \/ GetLookup \/ GetCopy \/ GetCheck \/ GetRefill \/ GetStore
    \/ DropLookup
    \/ \E k \in Key, v \in Byte : ChangeTruth(k, v)

Spec == Init /\ [][Next]_vars

----------------------------------------------------------------------------
(* Properties *)

\* No get and no drop finds a page, however often its key was stored and
\* whatever the bytes: the lock that was just taken is not valid (cache.h:71,
\* "Stores no data, returns only invalid read locks").
NeverHits == pc \notin {"get_found", "get_copied", "dropped", "exited"}

\* A get returns what the refill callback gives for its key.
AlwaysFresh == [][~Idling /\ pc' = "got" => value' = truth'[key']]_vars

----------------------------------------------------------------------------
(* Proofs *)

\* The page reads as valid after a get, and never between the read lock of a
\* call and its check.
StubInv ==
    /\ TypeOK /\ NeverHits
    /\ pc \in {"get_locked", "drop_locked"} => last = 0
    /\ pc # "init" => key \in Key
    /\ pc = "get_refilled" => value = truth[key]

\* Every step keeps the invariant.
LEMMA NextInv == StubInv /\ [Next]_vars => StubInv'
  <1> SUFFICES ASSUME StubInv, [Next]_vars PROVE StubInv'
    OBVIOUS
  <1> USE DEF StubInv, TypeOK, NeverHits, Goto, LockCheck, Idling,
          ReadLock, Byte
  <1>1. CASE UNCHANGED vars
    BY <1>1 DEF vars
  <1>2. ASSUME NEW k \in Key, GetStart(k) PROVE StubInv'
    BY <1>2 DEF GetStart
  <1>3. ASSUME NEW k \in Key, DropStart(k) PROVE StubInv'
    BY <1>3 DEF DropStart
  <1>4. CASE GetLookup
    BY <1>4 DEF GetLookup
  <1>5. CASE GetCopy \/ GetCheck
    BY <1>5 DEF GetCopy, GetCheck
  <1>6. CASE GetRefill
    BY <1>6 DEF GetRefill
  <1>7. CASE GetStore
    BY <1>7 DEF GetStore
  <1>8. CASE DropLookup
    BY <1>8 DEF DropLookup
  <1>9. ASSUME NEW k \in Key, NEW v \in Byte, ChangeTruth(k, v) PROVE StubInv'
    BY <1>9 DEF ChangeTruth
  <1> HIDE DEF StubInv, TypeOK, NeverHits, Goto, LockCheck, Idling,
          ReadLock, Byte
  <1>10. CASE \E k \in Key : GetStart(k) \/ DropStart(k)
    BY <1>2, <1>3, <1>10, Zenon
  <1>11. CASE \E k \in Key, v \in Byte : ChangeTruth(k, v)
    BY <1>9, <1>11, Zenon
  <1> QED
    BY <1>1, <1>4, <1>5, <1>6, <1>7, <1>8, <1>10, <1>11, Zenon DEF Next

\* A get over the stub refills, a drop returns false, and neither ends the
\* program, though a get leaves a page behind that reads as valid
\* (stub_cache_read_lock).
THEOREM StubNeverHits == Spec => []NeverHits /\ AlwaysFresh
  <1>1. Init => StubInv
    BY DEF Init, StubInv, TypeOK, NeverHits, Byte
  <1>2. StubInv => NeverHits
    BY DEF StubInv
  <1>3. StubInv /\ [Next]_vars
            => [~Idling /\ pc' = "got" => value' = truth'[key']]_vars
    <2> SUFFICES ASSUME StubInv, Next, ~Idling, pc' = "got"
                 PROVE  value' = truth'[key']
      OBVIOUS
    <2>1. GetStore \/ GetCheck
      BY DEF Next, GetStart, DropStart, GetLookup, GetCopy, GetRefill,
             DropLookup, ChangeTruth, Goto, Idling
    <2> QED
      BY <2>1 DEF GetStore, GetCheck, StubInv, NeverHits
  <1> QED
    BY <1>1, <1>2, <1>3, NextInv, PTL DEF Spec, AlwaysFresh

=============================================================================
