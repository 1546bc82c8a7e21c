------------------------------ MODULE Hashmap ------------------------------
(***************************************************************************)
(* hashmap.h as the cache uses it: open addressing, linear probing over a  *)
(* window of HASHMAP_LINEAR_PROBE_LENGTH slots, growth when the window of  *)
(* a new key is full.  Keys are compared as pointers, so they are values   *)
(* here; the null key never gets this far (hmap_get, hmap_put).            *)
(*                                                                         *)
(* A put is a sequence of steps, because it may grow the table, growing    *)
(* puts every element to a new table, and each of these puts may grow the  *)
(* new table in turn.                                                      *)
(***************************************************************************)
EXTENDS Integers, FiniteSets, FiniteSetsExt

CONSTANTS
    Key, Value,
    Nothing,          \* what hashmap_get returns for a key that is not there
    NoElement,        \* an element with in_use = 0; no put is running
    ProbeLength,      \* HASHMAP_LINEAR_PROBE_LENGTH
    InitialCapacity,  \* the capacity the map is created with
    MaxCapacity       \* 2^31: the next one is 0 in hashmap_uint32_t

Element == [key : Key, data : Value]

ASSUME HashmapAssumption ==
    /\ ProbeLength \in Nat \ {0} /\ MaxCapacity \in Nat
    /\ InitialCapacity \in 1 .. MaxCapacity
    /\ Nothing \notin Value /\ NoElement \notin Element

VARIABLES
    hash,       \* exact_key_hasher, but for the lowest bit, which is not used
    tables,     \* the map, and the new_m of each growth that is going on
    depth,      \* how many there are
    adding,     \* the element hashmap_put is called with
    contents,   \* what the callers put and did not remove
    failed      \* the keys whose last put returned 1

vars == <<hash, tables, depth, adding, contents, failed>>

----------------------------------------------------------------------------
(* struct hashmap_s as a value *)

NumSlots(t) == t.capacity + ProbeLength

\* hashmap_create_ex
Create(capacity) ==
    [capacity |-> capacity, size |-> 0,
     data |-> [i \in 0 .. capacity + ProbeLength - 1 |-> NoElement]]

\* hashmap_hash_helper_int_helper: the highest bits of the hash, as many as an
\* index below the capacity has.
Home(t, k) == (hash[k] * t.capacity) \div MaxCapacity
Window(t, k) == Home(t, k) .. Home(t, k) + ProbeLength - 1

InUse(t, i) == t.data[i] # NoElement
Used(t) == {i \in 0 .. NumSlots(t) - 1 : InUse(t, i)}
SlotsOf(t, k) == {i \in Window(t, k) : InUse(t, i) /\ t.data[i].key = k}
FreeSlots(t, k) == {i \in Window(t, k) : ~InUse(t, i)}

HashmapGet(t, k) ==
    IF SlotsOf(t, k) = {} THEN Nothing ELSE t.data[Min(SlotsOf(t, k))].data

\* hashmap_hash_helper: whether the key has a slot, or there is room for it ...
HasSlot(t, k) ==
    t.size # t.capacity /\ SlotsOf(t, k) \cup FreeSlots(t, k) # {}

\* Mutant: a free slot comes before the one the key has.
SlotForFirstFree(t, k) == Min(SlotsOf(t, k) \cup FreeSlots(t, k))

\* ... and which.
SlotFor(t, k) ==
    Min(IF SlotsOf(t, k) # {} THEN SlotsOf(t, k) ELSE FreeSlots(t, k))

\* Mutant: an element that is overwritten is counted again.
InsertCounting(t, e) ==
    [t EXCEPT !.data[SlotFor(t, e.key)] = e, !.size = @ + 1]

Insert(t, e) ==
    [t EXCEPT !.data[SlotFor(t, e.key)] = e,
              !.size = IF InUse(t, SlotFor(t, e.key)) THEN @ ELSE @ + 1]

Erase(t, i) == [t EXCEPT !.data[i] = NoElement, !.size = @ - 1]

\* Mutant: a key that is not there is counted as removed.
HashmapRemoveCounting(t, k) ==
    IF SlotsOf(t, k) = {} THEN [t EXCEPT !.size = @ - 1]
    ELSE Erase(t, Min(SlotsOf(t, k)))

\* hashmap_remove
HashmapRemove(t, k) ==
    IF SlotsOf(t, k) = {} THEN t ELSE Erase(t, Min(SlotsOf(t, k)))

----------------------------------------------------------------------------
(* The cache's calls *)

IsTable(t) ==
    /\ t \in [capacity : {t.capacity}, size : 0 .. t.capacity,
               data : [0 .. NumSlots(t) - 1 -> Element \cup {NoElement}]]
    /\ t.capacity \in 1 .. MaxCapacity

TypeOK ==
    /\ hash \in [Key -> 0 .. MaxCapacity - 1]
    /\ depth \in Nat \ {0} /\ DOMAIN tables = 1 .. depth
    /\ \A j \in 1 .. depth : IsTable(tables[j])
    /\ adding \in Element \cup {NoElement}
    /\ contents \in [Key -> Value \cup {Nothing}]
    /\ failed \subseteq Key

Init ==
    /\ hash \in [Key -> 0 .. MaxCapacity - 1]
    /\ tables = [j \in {1} |-> Create(InitialCapacity)] /\ depth = 1
    /\ adding = NoElement
    /\ contents = [k \in Key |-> Nothing]
    /\ failed = {}

Idling == adding = NoElement

\* hmap_put
Put(k, v) ==
    /\ Idling
    /\ adding' = [key |-> k, data |-> v]
    /\ contents' = [contents EXCEPT ![k] = v]
    /\ failed' = failed \ {k}
    /\ UNCHANGED <<hash, tables, depth>>

\* hmap_remove
Remove(k) ==
    /\ Idling
    /\ tables' = [tables EXCEPT ![1] = HashmapRemove(@, k)]
    /\ contents' = [contents EXCEPT ![k] = Nothing]
    /\ failed' = failed \ {k}
    /\ UNCHANGED <<hash, depth, adding>>

\* Mutant: the elements are moved from the last to the first.
NextToMoveLast == Max(Used(tables[depth - 1]))

\* hashmap_iterate_pairs: the slot it has come to; those before are empty.
NextToMove == Min(Used(tables[depth - 1]))

\* What the innermost hashmap_put is called with.
Current == IF depth = 1 THEN adding ELSE tables[depth - 1].data[NextToMove]

Putting == ~Idling /\ (depth > 1 => Used(tables[depth - 1]) # {})

\* hashmap_put finds a slot, and is done.
Store ==
    /\ Putting /\ HasSlot(tables[depth], Current.key)
    /\ depth = 1
    /\ tables' = [tables EXCEPT ![1] = Insert(@, adding)]
    /\ adding' = NoElement
    /\ UNCHANGED <<hash, depth, contents, failed>>

\* hashmap_rehash_iterator: the element has a slot in the new table.
Move ==
    /\ Putting /\ HasSlot(tables[depth], Current.key)
    /\ depth > 1
    /\ tables' = [tables EXCEPT ![depth - 1] = Erase(@, NextToMove),
                                ![depth] = Insert(@, Current)]
    /\ UNCHANGED <<hash, depth, adding, contents, failed>>

\* hashmap_rehash_helper, from its start to its first element ...
Grow ==
    /\ Putting /\ ~HasSlot(tables[depth], Current.key)
    /\ 2 * tables[depth].capacity <= MaxCapacity
    /\ depth' = depth + 1
    /\ tables' = [j \in 1 .. depth + 1 |->
                     IF j <= depth THEN tables[j]
                     ELSE Create(2 * tables[depth].capacity)]
    /\ UNCHANGED <<hash, adding, contents, failed>>

\* ... to its end, when all are moved and the old table is destroyed.
Grown ==
    /\ depth > 1 /\ Used(tables[depth - 1]) = {}
    /\ depth' = depth - 1
    /\ tables' = [j \in 1 .. depth - 1 |->
                     IF j = depth - 1 THEN tables[depth] ELSE tables[j]]
    /\ UNCHANGED <<hash, adding, contents, failed>>

\* The largest table cannot grow: every hashmap_put that is running returns 1,
\* every new table with what was moved to it is lost, and hmap_put does not
\* look at the result.
GrowFails ==
    /\ Putting /\ ~HasSlot(tables[depth], Current.key)
    /\ 2 * tables[depth].capacity > MaxCapacity
    /\ tables' = [j \in {1} |-> tables[1]] /\ depth' = 1
    /\ adding' = NoElement
    /\ failed' = failed \cup {adding.key}
    /\ UNCHANGED <<hash, contents>>

Next ==
    \/ \E k \in Key : Remove(k) \/ \E v \in Value : Put(k, v)
    \/ Store \/ Move \/ Grow \/ Grown \/ GrowFails

Spec == Init /\ [][Next]_vars

----------------------------------------------------------------------------
(* Properties *)

\* Under any hash function the table is a map: a key yields what was last put
\* to it, whatever other keys share its window, leave holes in it, make the
\* table grow or fail to (hashmap_put, hashmap_get, hashmap_remove).
MapExact ==
    Idling => \A k \in Key \ failed : HashmapGet(tables[1], k) = contents[k]

\* size counts the elements in use; hashmap_hash_helper takes the table for
\* full by it.
SizeExact == \A j \in 1 .. depth : tables[j].size = Cardinality(Used(tables[j]))

\* The elements of a table fit into one of twice the capacity, if they are
\* moved in the order of their slots: growing never has to grow the new table,
\* and does not fail half-way, when what was moved would be lost
\* (hashmap_rehash_helper, which returns without its new_m).
GrowthFits == Putting /\ depth > 1 => HasSlot(tables[depth], Current.key)

=============================================================================
