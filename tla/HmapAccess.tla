----------------------------- MODULE HmapAccess -----------------------------
(***************************************************************************)
(* hmap_get passes the value it found through the global variable          *)
(* hmap_access.  Here it is called by several threads that hold a          *)
(* readers-writer lock (README, "Already can be used under RWLock"):       *)
(* lookups run at the same time, one load or store at a step (the Makefile *)
(* compiles with -O0); changes of the cache run alone.                     *)
(***************************************************************************)
EXTENDS Integers

CONSTANTS
    Thread,
    Key,         \* the keys but 0, which hmap_get treats apart
    NoOwner,     \* what chunk->keys holds for a page without an owner
    NumPages     \* pages; page 0 is the one at chunk 0, index 0

ASSUME NumPagesAssumption == NumPages \in Nat \ {0}
ASSUME NoOwnerAssumption == NoOwner \notin Key

Page == 0 .. NumPages - 1
EMPTY_DESC == -1

VARIABLES
    table,          \* cache->map: what hashmap_get returns for a key
    keys,           \* chunk->keys
    hmap_access,    \* the global union: descriptor and set flag
    pc, key,        \* the threads, and the keys they look up
    desc            \* what hmap_get and then lazyfree_read_lock got

cacheVars == <<table, keys>>
vars == <<cacheVars, hmap_access, pc, key, desc>>

Value == [set : BOOLEAN, desc : Page]

\* Mutant: the null pointer reads as EMPTY_DESC.
NullValueEmpty == [set |-> FALSE, desc |-> EMPTY_DESC]

\* The null pointer, read as a descriptor: chunk 0, index 0.
NullValue == [set |-> FALSE, desc |-> 0]
ValueOf(p) == [set |-> TRUE, desc |-> p]

TypeOK ==
    /\ table \in [Key -> Page \cup {EMPTY_DESC}]
    /\ keys \in [Page -> Key \cup {NoOwner}]
    /\ hmap_access \in Value
    /\ pc \in [Thread -> {"idle", "called", "stored", "tested", "returned",
                          "done"}]
    /\ key \in [Thread -> Key]
    /\ desc \in [Thread -> Page \cup {EMPTY_DESC}]

Init ==
    /\ table = [k \in Key |-> EMPTY_DESC]
    /\ keys = [p \in Page |-> NoOwner]
    /\ hmap_access = NullValue
    /\ pc = [t \in Thread |-> "idle"]
    /\ key \in [Thread -> Key]
    /\ desc = [t \in Thread |-> EMPTY_DESC]

Goto(t, label) == pc' = [pc EXCEPT ![t] = label]

----------------------------------------------------------------------------
(* Lookups, under the shared lock *)

Call(t, k) ==
    /\ pc[t] = "idle"
    /\ key' = [key EXCEPT ![t] = k]
    /\ Goto(t, "called")
    /\ UNCHANGED <<cacheVars, hmap_access, desc>>

\* hmap_access.value = hashmap_get(...)
StoreValue(t) ==
    /\ pc[t] = "called"
    /\ hmap_access' = IF table[key[t]] = EMPTY_DESC THEN NullValue
                      ELSE ValueOf(table[key[t]])
    /\ Goto(t, "stored")
    /\ UNCHANGED <<cacheVars, key, desc>>

\* if (hmap_access.entry.set), else return EMPTY_DESC
TestSet(t) ==
    /\ pc[t] = "stored"
    /\ Goto(t, IF hmap_access.set THEN "tested" ELSE "returned")
    /\ desc' = [desc EXCEPT ![t] = EMPTY_DESC]
    /\ UNCHANGED <<cacheVars, hmap_access, key>>

\* return hmap_access.desc
LoadDesc(t) ==
    /\ pc[t] = "tested"
    /\ desc' = [desc EXCEPT ![t] = hmap_access.desc]
    /\ Goto(t, "returned")
    /\ UNCHANGED <<cacheVars, hmap_access, key>>

\* Mutant: lazyfree_read_lock takes the page as it comes.
NoCheckOwner(t) ==
    /\ pc[t] = "returned"
    /\ Goto(t, "done")
    /\ UNCHANGED <<cacheVars, hmap_access, key, desc>>

\* lazyfree_read_lock: a page of another key is a miss.
CheckOwner(t) ==
    /\ pc[t] = "returned"
    /\ desc' = [desc EXCEPT ![t] =
                    IF @ # EMPTY_DESC /\ keys[@] # key[t] THEN EMPTY_DESC ELSE @]
    /\ Goto(t, "done")
    /\ UNCHANGED <<cacheVars, hmap_access, key>>

Return(t) ==
    /\ pc[t] = "done"
    /\ Goto(t, "idle")
    /\ UNCHANGED <<cacheVars, hmap_access, key, desc>>

----------------------------------------------------------------------------
(* Changes, under the exclusive lock *)

Exclusive == \A t \in Thread : pc[t] = "idle"

\* lazyfree_write_alloc: key k gets the page p.  A page it has already stays
\* marked as its own.
WriteAlloc(k, p) ==
    /\ Exclusive
    /\ keys[p] = NoOwner
    /\ hmap_access' = ValueOf(p)
    /\ table' = [table EXCEPT ![k] = p]
    /\ keys' = [keys EXCEPT ![p] = k]
    /\ UNCHANGED <<pc, key, desc>>

\* cache_drop of a page, drop_next_chunk of several.
DropPages(P) ==
    /\ Exclusive
    /\ table' = [k \in Key |-> IF \E p \in P : keys[p] = k THEN EMPTY_DESC
                               ELSE table[k]]
    /\ keys' = [p \in Page |-> IF p \in P THEN NoOwner ELSE keys[p]]
    /\ UNCHANGED <<hmap_access, pc, key, desc>>

Next ==
    \/ \E t \in Thread : \/ \E k \in Key : Call(t, k)
                         \/ StoreValue(t) \/ TestSet(t) \/ LoadDesc(t)
                         \/ CheckOwner(t) \/ Return(t)
    \/ \E k \in Key, p \in Page : WriteAlloc(k, p)
    \/ \E P \in SUBSET Page : P # {} /\ DropPages(P)

Spec == Init /\ [][Next]_vars

----------------------------------------------------------------------------
(* Properties *)

\* Whatever other readers do to hmap_access, a lookup yields no page of
\* another key and no free page: lazyfree_read_lock compares the owner.
OwnPageOnly ==
    \A t \in Thread : pc[t] = "done" /\ desc[t] # EMPTY_DESC
                          => keys[desc[t]] = key[t]

\* Under a readers-writer lock a lookup finds no page of its key but the
\* current one (README:255, "Already can be used under RWLock").  It may take
\* page 0, if that once was the key's: another thread's miss stores the null
\* pointer between the test of the set flag and the load of the descriptor.
NoReplacedPage ==
    \A t \in Thread : pc[t] = "done" => desc[t] \in {table[key[t]], EMPTY_DESC}

=============================================================================
