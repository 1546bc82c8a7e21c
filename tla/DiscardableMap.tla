--------------------------- MODULE DiscardableMap ---------------------------
(***************************************************************************)
(* What the cache promises its callers: a map from keys to values that may *)
(* lose any value at any time, never makes one up, and gives a new value   *)
(* to a key only through the single write lock.                            *)
(***************************************************************************)
CONSTANTS
    Key, Value,
    Absent,     \* no value is cached
    NoKey,      \* nobody holds the write lock
    Garbage     \* the locked page holds nothing a caller has put there

VARIABLES
    store,      \* store[k]: the value a read lock of k would get, or Absent
    writing,    \* the write-locked key
    pending     \* what the write-locked page holds

mapVars == <<store, writing, pending>>

MapTypeOK ==
    /\ store \in [Key -> Value \cup {Absent}]
    /\ writing \in Key \cup {NoKey}
    /\ pending \in Value \cup {Garbage}

MapInit ==
    /\ store = [k \in Key |-> Absent]
    /\ writing = NoKey
    /\ pending = Garbage

Without(S) == [k \in Key |-> IF k \in S THEN Absent ELSE store[k]]

\* Values get lost: dropped by a caller, evicted, reclaimed.
Lose ==
    /\ \E S \in SUBSET Key : store' = Without(S)
    /\ UNCHANGED <<writing, pending>>

\* The write lock is taken on a new page, which may hold anything; other
\* keys may be evicted to make room.
LockNew(k) ==
    /\ writing = NoKey
    /\ writing' = k
    /\ \E S \in SUBSET Key : k \in S /\ store' = Without(S)
    /\ pending' \in Value \cup {Garbage}

\* The write lock is taken on the page the key has, with its value in it.
LockUpgrade(k) ==
    /\ writing = NoKey
    /\ writing' = k
    /\ store' = Without({k})
    /\ store[k] # Absent => pending' = store[k]
    /\ pending' \in Value

Put(v) ==
    /\ writing # NoKey
    /\ pending' = v
    /\ UNCHANGED <<store, writing>>

\* A page nobody wrote to yet is reclaimed; it holds zeros from now on.
Settle ==
    /\ pending = Garbage
    /\ pending' \in Value
    /\ UNCHANGED <<store, writing>>

\* The write lock is released, and the key has the value last put.
Commit ==
    /\ writing # NoKey
    /\ \E v \in Value :
        /\ pending # Garbage => v = pending
        /\ store' = [store EXCEPT ![writing] = v]
    /\ writing' = NoKey
    /\ pending' = Garbage

\* The write lock is released with drop.
Abort ==
    /\ writing # NoKey
    /\ writing' = NoKey
    /\ pending' = Garbage
    /\ UNCHANGED store

MapNext ==
    \/ Lose
    \/ \E k \in Key : LockNew(k) \/ LockUpgrade(k)
    \/ \E v \in Value : Put(v)
    \/ Settle \/ Commit \/ Abort

MapSpec == MapInit /\ [][MapNext]_mapVars

=============================================================================
