-------------------------- MODULE HmapAccessProofs --------------------------
(***************************************************************************)
(* What a lookup gets, for any number of threads, keys and pages.          *)
(***************************************************************************)
EXTENDS HmapAccess, TLAPS

\* The steps of one thread.
Lookup(t) == \/ \E k \in Key : Call(t, k)
             \/ StoreValue(t) \/ TestSet(t) \/ LoadDesc(t)
             \/ CheckOwner(t) \/ Return(t)

\* What a thread has checked holds while it is inside: nobody changes the
\* cache then.
LookupInv == TypeOK /\ OwnPageOnly

\* EMPTY_DESC is no page.
LEMMA PageFacts == EMPTY_DESC \notin Page /\ 0 \in Page
  BY NumPagesAssumption DEF Page, EMPTY_DESC

\* The initial state.
LEMMA InitLookup == Init => LookupInv
  BY PageFacts DEF Init, LookupInv, TypeOK, OwnPageOnly, Value, NullValue

\* Another thread's store to hmap_access is a page's descriptor or the null
\* pointer, and the owner is compared after the last load of it.
LEMMA LookupKeeps ==
    ASSUME LookupInv, NEW t \in Thread, Lookup(t)
    PROVE  LookupInv'
  <1> USE DEF LookupInv, TypeOK, OwnPageOnly, Goto, cacheVars
  <1>1. ASSUME NEW k \in Key, Call(t, k) PROVE LookupInv'
    BY <1>1 DEF Call
  <1>2. CASE StoreValue(t)
    <2>1. hmap_access' \in Value
      BY <1>2, PageFacts DEF StoreValue, Value, NullValue, ValueOf
    <2> QED
      BY <1>2, <2>1 DEF StoreValue
  <1>3. CASE TestSet(t)
    BY <1>3 DEF TestSet
  <1>4. CASE LoadDesc(t)
    <2>1. hmap_access.desc \in Page
      BY DEF Value
    <2> QED
      BY <1>4, <2>1 DEF LoadDesc
  <1>5. CASE CheckOwner(t)
    BY <1>5 DEF CheckOwner
  <1>6. CASE Return(t)
    BY <1>6 DEF Return
  <1> HIDE DEF LookupInv, TypeOK, OwnPageOnly, Goto, cacheVars
  <1>7. CASE \E k \in Key : Call(t, k)
    BY <1>1, <1>7, Zenon
  <1> QED
    BY <1>2, <1>3, <1>4, <1>5, <1>6, <1>7, Zenon DEF Lookup

\* Changes of the cache find no thread inside.
LEMMA ChangeKeeps ==
    ASSUME LookupInv,
           \/ \E k \in Key, p \in Page : WriteAlloc(k, p)
           \/ \E P \in SUBSET Page : P # {} /\ DropPages(P)
    PROVE  LookupInv'
  <1> USE DEF LookupInv, TypeOK, OwnPageOnly, Exclusive
  <1>1. ASSUME NEW k \in Key, NEW p \in Page, WriteAlloc(k, p)
        PROVE  LookupInv'
    <2>1. ValueOf(p) \in Value
      BY DEF Value, ValueOf
    <2> QED
      BY <1>1, <2>1 DEF WriteAlloc
  <1>2. ASSUME NEW P \in SUBSET Page, DropPages(P)
        PROVE  LookupInv'
    BY <1>2 DEF DropPages
  <1> QED
    BY <1>1, <1>2

\* Every step keeps the invariant.
LEMMA NextLookup == LookupInv /\ [Next]_vars => LookupInv'
  <1> SUFFICES ASSUME LookupInv, [Next]_vars PROVE LookupInv'
    OBVIOUS
  <1>1. CASE UNCHANGED vars
    BY <1>1 DEF vars, cacheVars, LookupInv, TypeOK, OwnPageOnly
  <1>2. CASE \E t \in Thread : Lookup(t)
    BY <1>2, LookupKeeps
  <1> QED
    BY <1>1, <1>2, ChangeKeeps, Zenon DEF Next, Lookup

\* Every variable keeps its type: hmap_access holds a page's descriptor or the
\* null pointer, whichever thread stored it last (hmap_get, hmap_put).
THEOREM LookupTypeCorrect == Spec => []TypeOK
  <1>1. LookupInv => TypeOK
    BY DEF LookupInv
  <1> QED
    BY <1>1, InitLookup, NextLookup, PTL DEF Spec

\* However many readers pass descriptors through the one global, none of them
\* gets a page of another key or a free one: the check of the owner in
\* lazyfree_read_lock is what the README's readers-writer lock rests on.
THEOREM LookupsStayApart == Spec => []OwnPageOnly
  <1>1. LookupInv => OwnPageOnly
    BY DEF LookupInv
  <1> QED
    BY <1>1, InitLookup, NextLookup, PTL DEF Spec

=============================================================================
