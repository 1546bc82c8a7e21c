--------------------------- MODULE HashmapProofs ---------------------------
(***************************************************************************)
(* The hash map is a map, for every set of keys, every hash function, and  *)
(* every size of the table and of the window.                              *)
(***************************************************************************)
EXTENDS Hashmap, FiniteSetTheorems, WellFoundedInduction, TLAPS

----------------------------------------------------------------------------
(* Numbers *)

\* A set of numbers has a least one.
LEMMA MinFacts ==
    ASSUME NEW S, S \subseteq Nat, S # {}
    PROVE  Min(S) \in S /\ \A i \in S : Min(S) <= i
  <1>1. PICK R : /\ R = {ss \in Nat \X Nat : ss[1] < ss[2]}
                 /\ IsWellFoundedOn(R, Nat)
    BY NatLessThanWellFounded DEF OpToRel
  <1>2. PICK i \in S : \A j \in S : <<j, i>> \notin R
    BY <1>1, WFMin
  <1>3. ASSUME NEW j \in S PROVE i <= j
    <2>1. i \in Nat /\ j \in Nat /\ <<j, i>> \in Nat \X Nat
      OBVIOUS
    <2>2. ~(<<j, i>>[1] < <<j, i>>[2])
      BY <1>1, <1>2, <2>1
    <2> QED
      BY <2>1, <2>2
  <1> QED
    BY <1>3 DEF Min

\* Division, as far as it is needed.
LEMMA DivFacts ==
    ASSUME NEW n \in Nat, NEW d \in Nat \ {0}
    PROVE  /\ n \div d \in Nat
           /\ d * (n \div d) <= n /\ n < d * (n \div d) + d
  OBVIOUS

\* The smaller of two products has the smaller factor.
LEMMA ProductBelow ==
    ASSUME NEW d \in Nat, NEW a \in Nat, NEW b \in Nat, d * a < d * b
    PROVE  a < b
  OBVIOUS

\* A slot's home is an index below the capacity ...
LEMMA HomeRange ==
    ASSUME NEW t, t.capacity \in 1 .. MaxCapacity, NEW k \in Key,
           hash \in [Key -> 0 .. MaxCapacity - 1]
    PROVE  Home(t, k) \in 0 .. t.capacity - 1
  <1> DEFINE c == t.capacity
             n == hash[k] * c
  <1>1. /\ c \in Nat \ {0} /\ MaxCapacity \in Nat \ {0}
        /\ hash[k] \in Nat /\ hash[k] + 1 <= MaxCapacity
    BY HashmapAssumption
  <1>2. n \in Nat /\ n < MaxCapacity * c
    <2>1. (hash[k] + 1) * c <= MaxCapacity * c
      BY <1>1
    <2>2. (hash[k] + 1) * c = n + c
      BY <1>1
    <2>3. n \in Nat
      BY <1>1
    <2>4. MaxCapacity * c \in Nat
      BY <1>1
    <2> HIDE DEF n
    <2> QED
      BY <1>1, <2>1, <2>2, <2>3, <2>4
  <1> HIDE DEF n
  <1>3. /\ n \div MaxCapacity \in Nat
        /\ MaxCapacity * (n \div MaxCapacity) <= n
    BY <1>1, <1>2, DivFacts
  <1> DEFINE q == n \div MaxCapacity
  <1>4. q \in Nat /\ MaxCapacity * q < MaxCapacity * c
    <2>1. MaxCapacity * q \in Nat /\ MaxCapacity * c \in Nat
      BY <1>1, <1>3
    <2> QED
      BY <1>2, <1>3, <2>1
  <1> HIDE DEF q
  <1>5. q < c
    BY <1>1, <1>4, ProductBelow
  <1>6. Home(t, k) = q
    BY DEF Home, n, q
  <1> QED
    BY <1>1, <1>4, <1>5, <1>6

\* ... and in a table of twice the capacity, twice as far or one more.
LEMMA HomeDoubles ==
    ASSUME NEW t, NEW n, NEW k \in Key, hash \in [Key -> 0 .. MaxCapacity - 1],
           t.capacity \in 1 .. MaxCapacity, n.capacity = 2 * t.capacity
    PROVE  Home(n, k) \in Nat /\ Home(n, k) \in {2 * Home(t, k), 2 * Home(t, k) + 1}
  <1> DEFINE x == hash[k] * t.capacity
             p == x \div MaxCapacity
             q == (2 * x) \div MaxCapacity
  <1>1. /\ t.capacity \in Nat \ {0} /\ MaxCapacity \in Nat \ {0}
        /\ hash[k] \in Nat
    BY HashmapAssumption
  <1>2. x \in Nat /\ hash[k] * n.capacity = 2 * x
    BY <1>1
  <1> HIDE DEF x
  <1>3. /\ p \in Nat /\ MaxCapacity * p <= x /\ x < MaxCapacity * p + MaxCapacity
        /\ q \in Nat /\ MaxCapacity * q <= 2 * x /\ 2 * x < MaxCapacity * q + MaxCapacity
    <2>1. 2 * x \in Nat
      BY <1>2
    <2> QED
      BY <1>1, <1>2, <2>1, DivFacts
  <1>4. Home(t, k) = p /\ Home(n, k) = q
    BY <1>2 DEF Home, x
  <1> HIDE DEF p, q
  <1>5. /\ MaxCapacity * q < MaxCapacity * (2 * p + 2)
        /\ MaxCapacity * (2 * p) < MaxCapacity * (q + 1)
    <2>1. /\ MaxCapacity * (2 * p + 2) = 2 * (MaxCapacity * p) + 2 * MaxCapacity
          /\ MaxCapacity * (2 * p) = 2 * (MaxCapacity * p)
          /\ MaxCapacity * (q + 1) = MaxCapacity * q + MaxCapacity
      BY <1>1, <1>3
    <2>2. MaxCapacity * p \in Nat /\ MaxCapacity * q \in Nat
      BY <1>1, <1>3
    <2> QED
      BY <1>1, <1>2, <1>3, <2>1, <2>2
  <1>6. q < 2 * p + 2 /\ 2 * p < q + 1
    BY <1>1, <1>3, <1>5, ProductBelow
  <1> QED
    BY <1>3, <1>4, <1>6

----------------------------------------------------------------------------
(* Tables *)

HashOK == hash \in [Key -> 0 .. MaxCapacity - 1]

\* Every element is in the window of its key, no key has two, and size counts
\* them.
TableInv(t) ==
    /\ IsTable(t)
    /\ \A i \in Used(t) : i \in Window(t, t.data[i].key)
    /\ \A i, j \in Used(t) : t.data[i].key = t.data[j].key => i = j
    /\ t.size = Cardinality(Used(t))

Elements(t) == {t.data[i] : i \in Used(t)}

\* The slots of a table, and what is in them.
LEMMA TableFacts ==
    ASSUME HashOK, NEW t, TableInv(t)
    PROVE  /\ t.capacity \in Nat \ {0} /\ t.capacity \in 1 .. MaxCapacity
           /\ NumSlots(t) = t.capacity + ProbeLength /\ NumSlots(t) \in Nat
           /\ t.size \in Nat /\ t.size <= t.capacity
           /\ Used(t) \subseteq 0 .. NumSlots(t) - 1 /\ IsFiniteSet(Used(t))
           /\ \A i \in Used(t) : t.data[i] \in Element
           /\ \A i \in 0 .. NumSlots(t) - 1 : i \in Used(t) <=> InUse(t, i)
           /\ \A k \in Key : /\ Home(t, k) \in 0 .. t.capacity - 1
                             /\ Window(t, k) \subseteq 0 .. NumSlots(t) - 1
                             /\ SlotsOf(t, k) = {i \in Used(t) : t.data[i].key = k}
  <1>1. /\ t.capacity \in Nat \ {0} /\ t.capacity \in 1 .. MaxCapacity
        /\ NumSlots(t) = t.capacity + ProbeLength /\ NumSlots(t) \in Nat
        /\ t.size \in Nat /\ t.size <= t.capacity
        /\ t.data \in [0 .. NumSlots(t) - 1 -> Element \cup {NoElement}]
    BY HashmapAssumption DEF TableInv, IsTable, NumSlots
  <1>2. Used(t) \subseteq 0 .. NumSlots(t) - 1 /\ IsFiniteSet(Used(t))
    <2>1. Used(t) \subseteq 0 .. NumSlots(t) - 1
      BY DEF Used
    <2>2. IsFiniteSet(0 .. NumSlots(t) - 1)
      BY <1>1, FS_Interval
    <2> QED
      BY <2>1, <2>2, FS_Subset
  <1>3. \A i \in Used(t) : t.data[i] \in Element
    BY <1>1 DEF Used, InUse
  <1>4. \A i \in 0 .. NumSlots(t) - 1 : i \in Used(t) <=> InUse(t, i)
    BY DEF Used
  <1>5. ASSUME NEW k \in Key
        PROVE  /\ Home(t, k) \in 0 .. t.capacity - 1
               /\ Window(t, k) \subseteq 0 .. NumSlots(t) - 1
               /\ SlotsOf(t, k) = {i \in Used(t) : t.data[i].key = k}
    <2>1. Home(t, k) \in 0 .. t.capacity - 1
      BY <1>1, HomeRange DEF HashOK
    <2>2. Window(t, k) \subseteq 0 .. NumSlots(t) - 1
      BY <1>1, <2>1, HashmapAssumption DEF Window
    <2>3. SlotsOf(t, k) = {i \in Used(t) : t.data[i].key = k}
      BY <1>4, <2>2 DEF SlotsOf, TableInv, Used
    <2> QED
      BY <2>1, <2>2, <2>3
  <1> QED
    BY <1>1, <1>2, <1>3, <1>4, <1>5

\* hashmap_hash_helper: the slot of the key, or the first free one in its window.
LEMMA SlotForFacts ==
    ASSUME HashOK, NEW t, TableInv(t), NEW k \in Key, HasSlot(t, k),
           NEW i, i = SlotFor(t, k)
    PROVE  /\ i \in Window(t, k) /\ i \in 0 .. NumSlots(t) - 1
           /\ i \in Used(t) => t.data[i].key = k
           /\ i \notin Used(t) => SlotsOf(t, k) = {}
           /\ i \notin Used(t) => \A j \in Home(t, k) .. i - 1 : j \in Used(t)
           /\ t.size < t.capacity
  <1> DEFINE S == IF SlotsOf(t, k) # {} THEN SlotsOf(t, k) ELSE FreeSlots(t, k)
  <1>1. /\ Home(t, k) \in Nat /\ Window(t, k) \subseteq 0 .. NumSlots(t) - 1
        /\ NumSlots(t) \in Nat
        /\ \A j \in 0 .. NumSlots(t) - 1 : j \in Used(t) <=> InUse(t, j)
    BY TableFacts
  <1>2. S # {} /\ S \subseteq Window(t, k)
    BY DEF HasSlot, SlotsOf, FreeSlots
  <1>3. S \subseteq Nat
    BY <1>1, <1>2
  <1>4. i = Min(S)
    BY DEF SlotFor
  <1>5. i \in S /\ \A j \in S : i <= j
    BY <1>2, <1>3, <1>4, MinFacts
  <1>6. i \in Window(t, k) /\ i \in 0 .. NumSlots(t) - 1
    BY <1>1, <1>2, <1>5
  <1>7. CASE SlotsOf(t, k) # {}
    <2>1. InUse(t, i) /\ t.data[i].key = k
      BY <1>5, <1>7 DEF SlotsOf
    <2> QED
      BY <1>1, <1>6, <2>1, TableFacts DEF HasSlot
  <1>8. CASE SlotsOf(t, k) = {}
    <2>1. ~InUse(t, i)
      BY <1>5, <1>8 DEF FreeSlots
    <2>2. ASSUME NEW j \in Home(t, k) .. i - 1 PROVE j \in Used(t)
      <3>1. j \in Window(t, k) /\ ~(i <= j)
        BY <1>1, <1>6, HashmapAssumption DEF Window
      <3>2. j \notin FreeSlots(t, k)
        BY <1>5, <1>8, <3>1
      <3> QED
        BY <1>1, <3>1, <3>2 DEF FreeSlots
    <2> QED
      BY <1>1, <1>6, <1>8, <2>1, <2>2, TableFacts DEF HasSlot
  <1> QED
    BY <1>7, <1>8

\* hashmap_put, once it has a slot: the element is there, in place of the one
\* with its key.
LEMMA InsertFacts ==
    ASSUME HashOK, NEW t, TableInv(t), NEW e \in Element, HasSlot(t, e.key),
           NEW i, i = SlotFor(t, e.key), NEW u, u = Insert(t, e)
    PROVE  /\ TableInv(u) /\ u.capacity = t.capacity
           /\ Used(u) = Used(t) \cup {i} /\ i \in Used(u)
           /\ u.data[i] = e /\ \A j \in Used(t) \ {i} : u.data[j] = t.data[j]
           /\ Elements(u) = {d \in Elements(t) : d.key # e.key} \cup {e}
           /\ u.size \in t.size .. t.size + 1
           /\ (\A d \in Elements(t) : d.key # e.key) => i \notin Used(t) /\ u.size = t.size + 1
  <1>0. e.key \in Key
    BY DEF Element
  <1>1. /\ i \in Window(t, e.key) /\ i \in 0 .. NumSlots(t) - 1
        /\ i \in Used(t) => t.data[i].key = e.key
        /\ i \notin Used(t) => SlotsOf(t, e.key) = {}
        /\ t.size < t.capacity
    BY <1>0, SlotForFacts
  <1>2. /\ t.capacity \in Nat \ {0} /\ t.capacity \in 1 .. MaxCapacity
        /\ NumSlots(t) \in Nat /\ t.size \in Nat /\ IsFiniteSet(Used(t))
        /\ Used(t) \subseteq 0 .. NumSlots(t) - 1
        /\ \A j \in 0 .. NumSlots(t) - 1 : j \in Used(t) <=> InUse(t, j)
        /\ SlotsOf(t, e.key) = {j \in Used(t) : t.data[j].key = e.key}
    BY <1>0, TableFacts
  <1>3. /\ t.data \in [0 .. NumSlots(t) - 1 -> Element \cup {NoElement}]
        /\ t \in [capacity : {t.capacity}, size : 0 .. t.capacity,
                  data : [0 .. NumSlots(t) - 1 -> Element \cup {NoElement}]]
    BY DEF TableInv, IsTable
  <1>4. u = [t EXCEPT !.data[i] = e, !.size = IF i \in Used(t) THEN @ ELSE @ + 1]
    BY <1>1, <1>2 DEF Insert
  <1>5. /\ u.capacity = t.capacity /\ u.data = [t.data EXCEPT ![i] = e]
        /\ u.size = IF i \in Used(t) THEN t.size ELSE t.size + 1
        /\ u = [capacity |-> u.capacity, size |-> u.size, data |-> u.data]
    BY <1>3, <1>4
  <1>6. NumSlots(u) = NumSlots(t)
    BY <1>5 DEF NumSlots
  <1>7. IsTable(u)
    BY <1>1, <1>2, <1>3, <1>5, <1>6 DEF IsTable
  <1>8. /\ u.data[i] = e
        /\ \A j \in 0 .. NumSlots(t) - 1 : j # i => u.data[j] = t.data[j]
    BY <1>1, <1>3, <1>5
  <1>9. Used(u) = Used(t) \cup {i}
    <2>1. e # NoElement
      BY HashmapAssumption
    <2> QED
      BY <1>1, <1>6, <1>8, <2>1 DEF Used, InUse
  <1>10. \A j \in Used(t) \ {i} : u.data[j] = t.data[j] /\ t.data[j].key # e.key
    BY <1>1, <1>2, <1>8 DEF TableInv
  <1>11. \A j \in Used(u) : j \in Window(u, u.data[j].key)
    BY <1>1, <1>5, <1>8, <1>9, <1>10 DEF TableInv, Window, Home
  <1>12. \A j, l \in Used(u) : u.data[j].key = u.data[l].key => j = l
    BY <1>8, <1>9, <1>10 DEF TableInv
  <1>13. u.size = Cardinality(Used(u))
    <2>1. t.size = Cardinality(Used(t))
      BY DEF TableInv
    <2>2. CASE i \in Used(t)
      <3>1. Used(u) = Used(t)
        BY <1>9, <2>2
      <3> QED
        BY <1>5, <2>1, <2>2, <3>1
    <2>3. CASE i \notin Used(t)
      <3>1. Cardinality(Used(t) \cup {i}) = Cardinality(Used(t)) + 1
        BY <1>2, <2>3, FS_AddElement
      <3> QED
        BY <1>5, <1>9, <2>1, <2>3, <3>1
    <2> QED
      BY <2>2, <2>3
  <1>14. Elements(u) = {d \in Elements(t) : d.key # e.key} \cup {e}
    <2>1. ASSUME NEW d \in Elements(u)
          PROVE  d \in {c \in Elements(t) : c.key # e.key} \cup {e}
      BY <1>8, <1>9, <1>10, <2>1 DEF Elements
    <2>2. ASSUME NEW d \in {c \in Elements(t) : c.key # e.key} \cup {e}
          PROVE  d \in Elements(u)
      BY <1>1, <1>8, <1>9, <1>10, <2>2 DEF Elements
    <2> QED
      BY <2>1, <2>2
  <1>15. (\A d \in Elements(t) : d.key # e.key) => i \notin Used(t)
    BY <1>1 DEF Elements
  <1> QED
    BY <1>2, <1>5, <1>7, <1>8, <1>9, <1>10, <1>11, <1>12, <1>13, <1>14, <1>15 DEF TableInv

\* An element is removed: hashmap_remove, and what is moved in a growth.
LEMMA EraseFacts ==
    ASSUME HashOK, NEW t, TableInv(t), NEW i \in Used(t), NEW u, u = Erase(t, i)
    PROVE  /\ TableInv(u) /\ u.capacity = t.capacity
           /\ Used(u) = Used(t) \ {i} /\ u.size = t.size - 1
           /\ \A j \in Used(u) : u.data[j] = t.data[j]
           /\ Elements(u) = {d \in Elements(t) : d.key # t.data[i].key}
  <1>2. /\ t.capacity \in Nat \ {0} /\ t.capacity \in 1 .. MaxCapacity
        /\ NumSlots(t) \in Nat /\ t.size \in Nat /\ IsFiniteSet(Used(t))
        /\ Used(t) \subseteq 0 .. NumSlots(t) - 1
    BY TableFacts
  <1>3. /\ t.data \in [0 .. NumSlots(t) - 1 -> Element \cup {NoElement}]
        /\ t \in [capacity : {t.capacity}, size : 0 .. t.capacity,
                  data : [0 .. NumSlots(t) - 1 -> Element \cup {NoElement}]]
    BY DEF TableInv, IsTable
  <1>4. /\ u.capacity = t.capacity /\ u.data = [t.data EXCEPT ![i] = NoElement]
        /\ u.size = t.size - 1
        /\ u = [capacity |-> u.capacity, size |-> u.size, data |-> u.data]
    BY <1>3 DEF Erase
  <1>5. t.size # 0 /\ t.size - 1 = Cardinality(Used(t) \ {i})
    BY <1>2, FS_RemoveElement, FS_EmptySet, FS_CardinalityType DEF TableInv
  <1>6. NumSlots(u) = NumSlots(t)
    BY <1>4 DEF NumSlots
  <1>7. IsTable(u)
    BY <1>2, <1>3, <1>4, <1>5, <1>6 DEF IsTable
  <1>8. /\ u.data[i] = NoElement
        /\ \A j \in 0 .. NumSlots(t) - 1 : j # i => u.data[j] = t.data[j]
    BY <1>2, <1>3, <1>4
  <1>9. Used(u) = Used(t) \ {i}
    BY <1>2, <1>6, <1>8 DEF Used, InUse
  <1>10. \A j \in Used(u) : u.data[j] = t.data[j]
    BY <1>2, <1>8, <1>9
  <1>11. \A j \in Used(u) : j \in Window(u, u.data[j].key)
    BY <1>4, <1>9, <1>10 DEF TableInv, Window, Home
  <1>12. \A j, l \in Used(u) : u.data[j].key = u.data[l].key => j = l
    BY <1>9, <1>10 DEF TableInv
  <1>13. Elements(u) = {d \in Elements(t) : d.key # t.data[i].key}
    BY <1>9, <1>10 DEF Elements, TableInv
  <1> QED
    BY <1>4, <1>5, <1>7, <1>9, <1>10, <1>11, <1>12, <1>13 DEF TableInv

----------------------------------------------------------------------------
(* Growth *)

\* No element of the new table was put behind a free slot.
NoHoles(n) ==
    \A p \in Used(n) : \A q \in Home(n, n.data[p].key) .. p - 1 : q \in Used(n)

\* Elements of the new table whose home in the old one was a slot from a on:
\* they were in slots of the old one between a and what is moved next.
From(t, n, a) == {p \in Used(n) : Home(t, n.data[p].key) >= a}

Behind(t, n, s) == \A a \in 0 .. s : Cardinality(From(t, n, a)) <= s - a

\* The window of an element that is moved is not full: the block of elements
\* its home is in would begin at a slot A, have only elements that are at home
\* there or later, and be longer than what the old table can have had of them.
LEMMA WindowNotFull ==
    ASSUME HashOK, NEW t, TableInv(t), NEW n, TableInv(n), n.capacity = 2 * t.capacity,
           NEW s \in Used(t), NoHoles(n), Behind(t, n, s)
    PROVE  ~(Window(n, t.data[s].key) \subseteq Used(n))
  <1> DEFINE k == t.data[s].key
             h == Home(t, k)
             H == Home(n, k)
             last == H + ProbeLength - 1
             U == {a \in 0 .. H : a .. last \subseteq Used(n)}
             A == Min(U)
  <1> SUFFICES ASSUME Window(n, k) \subseteq Used(n) PROVE FALSE
    OBVIOUS
  <1>1. /\ k \in Key /\ h \in Nat /\ H \in Nat /\ H \in {2 * h, 2 * h + 1}
        /\ h <= s /\ s <= h + ProbeLength - 1 /\ s \in Nat /\ ProbeLength \in Nat \ {0}
    <2>1. k \in Key /\ s \in Nat
      BY TableFacts DEF Element
    <2>2. h \in Nat /\ s \in Window(t, k)
      BY <2>1, TableFacts DEF TableInv
    <2>3. H \in Nat /\ H \in {2 * h, 2 * h + 1}
      BY <2>1, HomeDoubles, TableFacts DEF HashOK
    <2> HIDE DEF k, h, H
    <2> QED
      BY <2>1, <2>2, <2>3, HashmapAssumption DEF Window, h
  <1>2. H \in U /\ U \subseteq Nat
    BY <1>1 DEF Window
  <1>3. A \in U /\ \A a \in U : A <= a
    BY <1>2, MinFacts
  <1> HIDE DEF k, h, H, U, A
  <1>4. A \in Nat /\ A <= H /\ A .. last \subseteq Used(n)
    BY <1>1, <1>3 DEF U
  <1>5. A = 0 \/ A - 1 \notin Used(n)
    <2>1. ASSUME A # 0, A - 1 \in Used(n) PROVE A - 1 \in U
      BY <1>1, <1>4, <2>1 DEF U
    <2> QED
      BY <1>3, <1>4, <2>1
  <1>6. ASSUME NEW p \in A .. last PROVE p \in From(t, n, A \div 2)
    <2> DEFINE j == n.data[p].key
    <2>1. p \in Used(n) /\ p \in Nat
      BY <1>1, <1>4
    <2>2. j \in Key
      BY <2>1, TableFacts DEF Element
    <2>3. /\ Home(t, j) \in Nat /\ Home(n, j) \in Nat
          /\ Home(n, j) \in {2 * Home(t, j), 2 * Home(t, j) + 1}
      BY <2>2, HomeDoubles, TableFacts DEF HashOK
    <2>4. \A q \in Home(n, j) .. p - 1 : q \in Used(n)
      BY <2>1 DEF NoHoles
    <2> HIDE DEF j
    <2>5. Home(n, j) >= A
      BY <1>4, <1>5, <2>1, <2>3, <2>4
    <2>6. Home(t, j) >= A \div 2
      BY <1>4, <2>3, <2>5
    <2> QED
      BY <2>1, <2>6 DEF From, j
  <1>7. A \div 2 \in 0 .. s /\ A \div 2 <= h
    BY <1>1, <1>4
  <1>8. Cardinality(From(t, n, A \div 2)) <= s - (A \div 2)
    BY <1>7 DEF Behind
  <1>9. last - A + 1 <= Cardinality(From(t, n, A \div 2))
    <2>1. IsFiniteSet(From(t, n, A \div 2))
      BY TableFacts, FS_Subset DEF From
    <2>2. A .. last \subseteq From(t, n, A \div 2)
      BY <1>6
    <2>3. last \in Int /\ A <= last /\ Cardinality(A .. last) = last - A + 1
      BY <1>1, <1>4, FS_Interval
    <2> QED
      BY <2>1, <2>2, <2>3, FS_Subset
  <1>10. Cardinality(From(t, n, A \div 2)) \in Nat
    BY TableFacts, FS_Subset, FS_CardinalityType DEF From
  <1> QED
    BY <1>1, <1>4, <1>7, <1>8, <1>9, <1>10

\* So an element that is moved has a slot in the new table.
LEMMA ElementFits ==
    ASSUME HashOK, NEW t, TableInv(t), NEW n, TableInv(n), n.capacity = 2 * t.capacity,
           NEW s \in Used(t), NoHoles(n), Behind(t, n, s), t.size + n.size <= t.capacity
    PROVE  HasSlot(n, t.data[s].key)
  <1> DEFINE k == t.data[s].key
  <1>1. n.size # n.capacity
    BY TableFacts
  <1>2. k \in Key
    BY TableFacts DEF Element
  <1>3. PICK i \in Window(n, k) : i \notin Used(n)
    BY WindowNotFull
  <1>4. i \in FreeSlots(n, k)
    BY <1>2, <1>3, TableFacts DEF FreeSlots
  <1> QED
    BY <1>1, <1>4 DEF HasSlot

----------------------------------------------------------------------------
(* The invariant *)

\* While the elements are moved: the new table is twice as large, has no key
\* of the old one, and room for what is left there.
Growing(t, n) ==
    /\ n.capacity = 2 * t.capacity
    /\ t.size + n.size <= t.capacity
    /\ NoHoles(n)
    /\ \A s \in Used(t) : Behind(t, n, s)
    /\ \A d \in Elements(t), e \in Elements(n) : d.key # e.key

GrowthInv == depth = 2 => Growing(tables[1], tables[2])

AllElements == UNION {Elements(tables[j]) : j \in 1 .. depth}

Adding(k) == ~Idling /\ adding.key = k

\* The tables have what was put: each key with its last value, but for keys
\* whose last put failed or has not come to its end.
Holds(E) ==
    /\ \A e \in E : /\ contents[e.key] # Nothing
                    /\ e.key \notin failed /\ ~Adding(e.key) => contents[e.key] = e.data
    /\ \A k \in Key \ failed :
          contents[k] # Nothing /\ ~Adding(k) => \E e \in E : e.key = k

HashmapInv ==
    /\ TypeOK
    /\ depth \in {1, 2} /\ (Idling => depth = 1)
    /\ \A j \in 1 .. depth : TableInv(tables[j])
    /\ GrowthInv
    /\ ~Idling => contents[adding.key] = adding.data /\ adding.key \notin failed
    /\ Holds(AllElements)

\* hashmap_create_ex gives an empty table.
LEMMA CreateFacts ==
    ASSUME HashOK, NEW c \in 1 .. MaxCapacity, NEW n, n = Create(c)
    PROVE  /\ TableInv(n) /\ n.capacity = c /\ n.size = 0
           /\ Used(n) = {} /\ Elements(n) = {}
  <1>1. /\ n.capacity = c /\ n.size = 0
        /\ n.data = [i \in 0 .. c + ProbeLength - 1 |-> NoElement]
        /\ n = [capacity |-> n.capacity, size |-> n.size, data |-> n.data]
    BY DEF Create
  <1>2. c \in Nat \ {0} /\ NumSlots(n) = c + ProbeLength
    BY <1>1, HashmapAssumption DEF NumSlots
  <1>3. n.data = [i \in 0 .. NumSlots(n) - 1 |-> NoElement]
    <2>1. NumSlots(n) - 1 = c + ProbeLength - 1
      BY <1>2, HashmapAssumption
    <2> QED
      BY <1>1, <2>1
  <1>4. Used(n) = {}
    BY <1>3 DEF Used, InUse
  <1>5. IsTable(n)
    BY <1>1, <1>2, <1>3 DEF IsTable
  <1> QED
    BY <1>1, <1>4, <1>5, FS_EmptySet DEF TableInv, Elements

\* There is one table, or there are two.
LEMMA AllElementsFacts ==
    ASSUME depth \in {1, 2}
    PROVE  /\ depth = 1 => AllElements = Elements(tables[1])
           /\ depth = 2 => AllElements = Elements(tables[1]) \cup Elements(tables[2])
  <1>1. CASE depth = 1
    <2>1. 1 .. depth = {1}
      BY <1>1
    <2> QED
      BY <1>1, <2>1 DEF AllElements
  <1>2. CASE depth = 2
    <2>1. 1 .. depth = {1, 2}
      BY <1>2
    <2> QED
      BY <1>2, <2>1 DEF AllElements
  <1> QED
    BY <1>1, <1>2

\* Initially there is one empty table.
LEMMA InitHashmapInv == Init => HashmapInv
  <1> SUFFICES ASSUME Init PROVE HashmapInv
    OBVIOUS
  <1>1. HashOK /\ depth = 1 /\ tables[1] = Create(InitialCapacity) /\ DOMAIN tables = 1 .. depth
    BY DEF Init, HashOK
  <1>2. TableInv(tables[1]) /\ Elements(tables[1]) = {} /\ IsTable(tables[1])
    BY <1>1, CreateFacts, HashmapAssumption DEF TableInv
  <1>3. \A j \in 1 .. depth : j = 1
    BY <1>1
  <1>4. AllElements = {}
    BY <1>1, <1>2, AllElementsFacts
  <1>5. TypeOK
    BY <1>1, <1>2, <1>3 DEF Init, TypeOK
  <1>6. Holds(AllElements)
    BY <1>4 DEF Init, Holds
  <1> QED
    BY <1>1, <1>2, <1>3, <1>5, <1>6 DEF Init, Idling, HashmapInv, GrowthInv

\* What is known of the tables after a step is the invariant's part about them.
LEMMA NextTables ==
    ASSUME HashmapInv, UNCHANGED hash, depth' \in {1, 2},
           TableInv(tables'[1]),
           depth' = 2 => TableInv(tables'[2]) /\ Growing(tables'[1], tables'[2])
    PROVE  /\ \A j \in 1 .. depth' : TableInv(tables[j])' /\ IsTable(tables'[j])
           /\ GrowthInv'
           /\ depth' = 1 => AllElements' = Elements(tables'[1])
           /\ depth' = 2 => AllElements' = Elements(tables'[1]) \cup Elements(tables'[2])
  <1>1. \A j \in 1 .. depth' : TableInv(tables[j])' /\ IsTable(tables'[j])
    <2> SUFFICES ASSUME NEW j \in 1 .. depth'
                 PROVE  TableInv(tables[j])' /\ IsTable(tables'[j])
      OBVIOUS
    <2>1. TableInv(tables'[j])
      <3>1. j = 1 \/ (j = 2 /\ depth' = 2)
        OBVIOUS
      <3> QED
        BY <3>1
    <2>2. Used(tables[j])' = Used(tables'[j])
      BY DEF Used, InUse, NumSlots
    <2>3. IsTable(tables[j])' /\ IsTable(tables'[j])
      BY <2>1 DEF TableInv, IsTable, NumSlots
    <2> QED
      BY <2>1, <2>2, <2>3 DEF TableInv, Window, Home
  <1>2. GrowthInv'
    BY DEF GrowthInv, Growing, NumSlots, Used, InUse, Home, Elements, NoHoles, Behind, From
  <1>3. /\ Elements(tables[1])' = Elements(tables'[1])
        /\ Elements(tables[2])' = Elements(tables'[2])
    BY DEF Elements, Used, InUse, NumSlots
  <1>4. /\ depth' = 1 => AllElements' = Elements(tables[1])'
        /\ depth' = 2 => AllElements' = (Elements(tables[1]) \cup Elements(tables[2]))'
    <2>1. CASE depth' = 1
      <3>1. 1 .. depth' = {1}
        BY <2>1
      <3> QED
        BY <2>1, <3>1 DEF AllElements
    <2>2. CASE depth' = 2
      <3>1. 1 .. depth' = {1, 2}
        BY <2>2
      <3> QED
        BY <2>2, <3>1 DEF AllElements
    <2> QED
      BY <2>1, <2>2
  <1> QED
    BY <1>1, <1>2, <1>3, <1>4

\* While the tables do not change, neither does what is known of them.
LEMMA SameTables ==
    ASSUME HashmapInv, UNCHANGED <<hash, tables, depth>>
    PROVE  /\ \A j \in 1 .. depth' : TableInv(tables[j])' /\ IsTable(tables'[j])
           /\ GrowthInv' /\ AllElements' = AllElements
  <1>1. depth \in {1, 2} /\ TableInv(tables[1]) /\ (depth = 2 => TableInv(tables[2]))
    BY DEF HashmapInv
  <1>2. depth = 2 => Growing(tables[1], tables[2])
    BY DEF HashmapInv, GrowthInv
  <1> QED
    BY <1>1, <1>2, NextTables, AllElementsFacts

\* What the invariant says of its parts.
LEMMA HashmapBasics ==
    ASSUME HashmapInv
    PROVE  /\ HashOK /\ depth \in {1, 2} /\ (Idling => depth = 1)
           /\ DOMAIN tables = 1 .. depth /\ 1 \in DOMAIN tables
           /\ TableInv(tables[1])
           /\ depth = 1 => AllElements = Elements(tables[1])
           /\ depth = 2 => /\ TableInv(tables[2]) /\ Growing(tables[1], tables[2])
                           /\ AllElements = Elements(tables[1]) \cup Elements(tables[2])
           /\ adding \in Element \cup {NoElement} /\ (~Idling => adding \in Element)
           /\ contents \in [Key -> Value \cup {Nothing}] /\ failed \subseteq Key
           /\ \A e \in AllElements : e \in Element
  <1>1. /\ depth \in {1, 2} /\ (Idling => depth = 1) /\ 1 \in 1 .. depth
        /\ TableInv(tables[1]) /\ (depth = 2 => TableInv(tables[2]))
    BY DEF HashmapInv
  <1>2. HashOK /\ DOMAIN tables = 1 .. depth
    BY DEF HashmapInv, TypeOK, HashOK
  <1>3. \A e \in AllElements : e \in Element
    BY <1>1, <1>2, AllElementsFacts, TableFacts DEF Elements
  <1> QED
    BY <1>1, <1>2, <1>3, AllElementsFacts DEF HashmapInv, TypeOK, Idling, GrowthInv

\* hmap_put begins: only the key that is added has another value.
LEMMA PutStep ==
    ASSUME HashmapInv, NEW k \in Key, NEW v \in Value, Put(k, v)
    PROVE  HashmapInv'
  <1>1. /\ Idling /\ adding' = [key |-> k, data |-> v]
        /\ contents' = [contents EXCEPT ![k] = v] /\ failed' = failed \ {k}
        /\ UNCHANGED <<hash, tables, depth>>
    BY DEF Put
  <1>2. adding' \in Element /\ ~Idling'
    BY <1>1, HashmapAssumption DEF Element, Idling
  <1>3. /\ \A j \in Key : Adding(j)' <=> j = k
        /\ \A j \in Key : ~Adding(j)
    BY <1>1, <1>2 DEF Adding, Idling
  <1>4. /\ contents' \in [Key -> Value \cup {Nothing}] /\ contents'[k] = v /\ v # Nothing
        /\ \A j \in Key : j # k => contents'[j] = contents[j]
    BY <1>1, HashmapBasics, HashmapAssumption
  <1>5. TypeOK'
    BY <1>1, <1>2, <1>4, SameTables DEF HashmapInv, TypeOK
  <1>6. Holds(AllElements)'
    <2>1. \A e \in AllElements : e.key \in Key
      BY HashmapBasics DEF Element
    <2>2. AllElements' = AllElements
      BY <1>1, SameTables
    <2> QED
      BY <1>1, <1>3, <1>4, <2>1, <2>2 DEF HashmapInv, Holds
  <1> QED
    BY <1>1, <1>2, <1>4, <1>5, <1>6, SameTables DEF HashmapInv

\* hmap_remove: the key is in no slot any more.
LEMMA RemoveStep ==
    ASSUME HashmapInv, NEW k \in Key, Remove(k)
    PROVE  HashmapInv'
  <1> DEFINE t == tables[1]
             u == HashmapRemove(t, k)
  <1>1. /\ Idling /\ depth = 1 /\ TableInv(t) /\ HashOK /\ AllElements = Elements(t)
        /\ tables' = [tables EXCEPT ![1] = u] /\ tables'[1] = u
        /\ contents' = [contents EXCEPT ![k] = Nothing] /\ failed' = failed \ {k}
        /\ UNCHANGED <<hash, depth, adding>>
    BY HashmapBasics DEF Remove
  <1>2. TableInv(u) /\ Elements(u) = {e \in Elements(t) : e.key # k}
    <2>1. SlotsOf(t, k) = {i \in Used(t) : t.data[i].key = k} /\ Used(t) \subseteq Nat
      BY <1>1, TableFacts
    <2>2. CASE SlotsOf(t, k) = {}
      BY <1>1, <2>1, <2>2 DEF HashmapRemove, Elements
    <2>3. CASE SlotsOf(t, k) # {}
      <3>1. Min(SlotsOf(t, k)) \in SlotsOf(t, k)
        BY <2>1, <2>3, MinFacts
      <3>2. u = Erase(t, Min(SlotsOf(t, k)))
        BY <2>3 DEF HashmapRemove
      <3>3. PICK i \in Used(t) : i = Min(SlotsOf(t, k)) /\ t.data[i].key = k
        BY <2>1, <3>1
      <3> QED
        BY <1>1, <3>2, <3>3, EraseFacts
    <2> QED
      BY <2>2, <2>3
  <1> HIDE DEF u
  <1>3. /\ \A j \in 1 .. depth' : TableInv(tables[j])' /\ IsTable(tables'[j])
        /\ GrowthInv' /\ AllElements' = Elements(u)
    BY <1>1, <1>2, NextTables
  <1>4. /\ contents' \in [Key -> Value \cup {Nothing}] /\ contents'[k] = Nothing
        /\ \A j \in Key : j # k => contents'[j] = contents[j]
    BY <1>1, HashmapBasics
  <1>5. DOMAIN tables' = 1 .. depth'
    BY <1>1, HashmapBasics
  <1>6. TypeOK'
    BY <1>1, <1>3, <1>4, <1>5 DEF HashmapInv, TypeOK
  <1>7. Idling' /\ \A j : Adding(j)' <=> Adding(j)
    BY <1>1 DEF Idling, Adding
  <1>8. Holds(AllElements)'
    <2>1. \A e \in AllElements : e.key \in Key
      BY HashmapBasics DEF Element
    <2> QED
      BY <1>1, <1>2, <1>3, <1>4, <1>7, <2>1 DEF HashmapInv, Holds
  <1> QED
    BY <1>1, <1>3, <1>6, <1>7, <1>8 DEF HashmapInv

\* hashmap_put finds a slot for its caller's element.
LEMMA StoreStep ==
    ASSUME HashmapInv, Store
    PROVE  HashmapInv'
  <1> DEFINE t == tables[1]
             u == Insert(t, adding)
  <1>1. /\ ~Idling /\ depth = 1 /\ adding \in Element /\ TableInv(t) /\ HashOK
        /\ HasSlot(t, adding.key) /\ AllElements = Elements(t)
        /\ tables' = [tables EXCEPT ![1] = u] /\ tables'[1] = u
        /\ adding' = NoElement
        /\ UNCHANGED <<hash, depth, contents, failed>>
    BY HashmapBasics DEF Store, Putting, Current
  <1>2. /\ TableInv(u)
        /\ Elements(u) = {e \in Elements(t) : e.key # adding.key} \cup {adding}
    BY <1>1, InsertFacts
  <1> HIDE DEF u
  <1>3. /\ \A j \in 1 .. depth' : TableInv(tables[j])' /\ IsTable(tables'[j])
        /\ GrowthInv' /\ AllElements' = Elements(u)
    BY <1>1, <1>2, NextTables
  <1>4. DOMAIN tables' = 1 .. depth'
    BY <1>1, HashmapBasics
  <1>5. TypeOK'
    BY <1>1, <1>3, <1>4 DEF HashmapInv, TypeOK
  <1>6. Idling' /\ \A j : ~Adding(j)' /\ (Adding(j) <=> adding.key = j)
    BY <1>1 DEF Idling, Adding
  <1>7. Holds(AllElements)'
    <2>1. contents[adding.key] = adding.data /\ adding.data # Nothing
      BY <1>1, HashmapAssumption DEF HashmapInv, Element
    <2>2. ASSUME NEW e \in Elements(u)
          PROVE  contents[e.key] # Nothing /\ (e.key \notin failed => contents[e.key] = e.data)
      <3>1. CASE e = adding
        BY <2>1, <3>1
      <3>2. CASE e \in Elements(t) /\ e.key # adding.key
        BY <1>1, <1>6, <3>2 DEF HashmapInv, Holds
      <3> QED
        BY <1>2, <3>1, <3>2
    <2>3. ASSUME NEW k \in Key \ failed, contents[k] # Nothing
          PROVE  \E e \in Elements(u) : e.key = k
      <3>1. CASE k = adding.key
        BY <1>2, <3>1
      <3>2. CASE k # adding.key
        <4>1. PICK e \in Elements(t) : e.key = k
          BY <1>1, <1>6, <2>3, <3>2 DEF HashmapInv, Holds
        <4> QED
          BY <1>2, <3>2, <4>1
      <3> QED
        BY <3>1, <3>2
    <2> QED
      BY <1>1, <1>3, <1>6, <2>2, <2>3 DEF Holds
  <1> QED
    BY <1>1, <1>3, <1>5, <1>6, <1>7 DEF HashmapInv

\* hashmap_rehash_helper begins: the new table is empty.
LEMMA GrowStep ==
    ASSUME HashmapInv, Grow, depth = 1
    PROVE  HashmapInv'
  <1> DEFINE t == tables[1]
             n == Create(2 * t.capacity)
  <1>1. /\ ~Idling /\ TableInv(t) /\ HashOK /\ AllElements = Elements(t)
        /\ depth' = 2 /\ 2 * t.capacity <= MaxCapacity
        /\ UNCHANGED <<hash, adding, contents, failed>>
    BY HashmapBasics DEF Grow, Putting
  <1>2. tables'[1] = t /\ tables'[2] = n /\ DOMAIN tables' = 1 .. depth'
    BY <1>1 DEF Grow
  <1>3. t.capacity \in Nat \ {0} /\ t.size \in Nat /\ t.size <= t.capacity /\ Used(t) \subseteq Nat
    BY <1>1, TableFacts
  <1>4. /\ TableInv(n) /\ n.capacity = 2 * t.capacity /\ n.size = 0
        /\ Used(n) = {} /\ Elements(n) = {}
    <2>1. 2 * t.capacity \in 1 .. MaxCapacity
      BY <1>1, <1>3, HashmapAssumption
    <2> QED
      BY <1>1, <2>1, CreateFacts
  <1> HIDE DEF n
  <1>5. Growing(t, n)
    <2>1. ASSUME NEW s \in Used(t), NEW a \in 0 .. s
          PROVE  Cardinality(From(t, n, a)) <= s - a
      <3>1. From(t, n, a) = {}
        BY <1>4 DEF From
      <3> QED
        BY <1>3, <3>1, FS_EmptySet
    <2>2. t.size + n.size <= t.capacity
      BY <1>3, <1>4
    <2> QED
      BY <1>4, <2>1, <2>2 DEF Growing, NoHoles, Behind
  <1>6. /\ \A j \in 1 .. depth' : TableInv(tables[j])' /\ IsTable(tables'[j])
        /\ GrowthInv' /\ AllElements' = AllElements
    BY <1>1, <1>2, <1>4, <1>5, NextTables
  <1>7. TypeOK'
    BY <1>1, <1>2, <1>6 DEF HashmapInv, TypeOK
  <1>8. ~Idling' /\ \A j : Adding(j)' <=> Adding(j)
    BY <1>1 DEF Idling, Adding
  <1>9. Holds(AllElements)'
    BY <1>1, <1>6, <1>8 DEF HashmapInv, Holds
  <1> QED
    BY <1>1, <1>6, <1>7, <1>8, <1>9 DEF HashmapInv

\* The growth ends: everything is in the new table.
LEMMA GrownStep ==
    ASSUME HashmapInv, Grown
    PROVE  HashmapInv'
  <1> DEFINE t == tables[1]
             n == tables[2]
  <1>1. /\ depth = 2 /\ depth' = 1 /\ Used(t) = {} /\ ~Idling /\ HashOK
        /\ TableInv(n) /\ AllElements = Elements(t) \cup Elements(n)
        /\ UNCHANGED <<hash, adding, contents, failed>>
    BY HashmapBasics DEF Grown
  <1>2. tables'[1] = n /\ DOMAIN tables' = 1 .. depth'
    BY <1>1 DEF Grown
  <1>3. AllElements = Elements(n)
    BY <1>1 DEF Elements
  <1>4. /\ \A j \in 1 .. depth' : TableInv(tables[j])' /\ IsTable(tables'[j])
        /\ GrowthInv' /\ AllElements' = AllElements
    BY <1>1, <1>2, <1>3, NextTables
  <1>5. TypeOK'
    BY <1>1, <1>2, <1>4 DEF HashmapInv, TypeOK
  <1>6. ~Idling' /\ \A j : Adding(j)' <=> Adding(j)
    BY <1>1 DEF Idling, Adding
  <1>7. Holds(AllElements)'
    BY <1>1, <1>4, <1>6 DEF HashmapInv, Holds
  <1> QED
    BY <1>1, <1>4, <1>5, <1>6, <1>7 DEF HashmapInv

\* The largest table cannot grow: the put is lost, and nothing else.
LEMMA GrowFailsStep ==
    ASSUME HashmapInv, GrowFails, depth = 1
    PROVE  HashmapInv'
  <1> DEFINE t == tables[1]
  <1>1. /\ ~Idling /\ adding \in Element /\ TableInv(t) /\ HashOK /\ AllElements = Elements(t)
        /\ depth' = 1 /\ tables'[1] = t /\ DOMAIN tables' = 1 .. depth'
        /\ adding' = NoElement /\ failed' = failed \cup {adding.key}
        /\ UNCHANGED <<hash, contents>>
    BY HashmapBasics DEF GrowFails, Putting
  <1>2. /\ \A j \in 1 .. depth' : TableInv(tables[j])' /\ IsTable(tables'[j])
        /\ GrowthInv' /\ AllElements' = AllElements
    BY <1>1, NextTables
  <1>3. TypeOK'
    BY <1>1, <1>2 DEF HashmapInv, TypeOK, Element
  <1>4. Idling' /\ \A j : ~Adding(j)' /\ (Adding(j) <=> adding.key = j)
    BY <1>1 DEF Idling, Adding
  <1>5. Holds(AllElements)'
    BY <1>1, <1>2, <1>4 DEF HashmapInv, Holds
  <1> QED
    BY <1>1, <1>2, <1>3, <1>4, <1>5 DEF HashmapInv

\* What is moved next, and that there is a slot for it.
LEMMA MovedFits ==
    ASSUME HashmapInv, Putting, depth = 2
    PROVE  /\ NextToMove \in Used(tables[1]) /\ \A s \in Used(tables[1]) : NextToMove <= s
           /\ Current = tables[1].data[NextToMove] /\ Current \in Element
           /\ HasSlot(tables[2], Current.key)
  <1>1. /\ TableInv(tables[1]) /\ TableInv(tables[2]) /\ HashOK
        /\ Growing(tables[1], tables[2])
    BY HashmapBasics
  <1>2. /\ Used(tables[1]) # {} /\ NextToMove = Min(Used(tables[1]))
        /\ Current = tables[1].data[NextToMove]
    BY DEF Putting, NextToMove, Current
  <1>3. Used(tables[1]) \subseteq Nat
    BY <1>1, TableFacts
  <1>4. NextToMove \in Used(tables[1]) /\ \A s \in Used(tables[1]) : NextToMove <= s
    BY <1>2, <1>3, MinFacts
  <1>5. Current \in Element
    BY <1>1, <1>2, <1>4, TableFacts
  <1>6. HasSlot(tables[2], tables[1].data[NextToMove].key)
    BY <1>1, <1>4, ElementFits DEF Growing
  <1> QED
    BY <1>2, <1>4, <1>5, <1>6

\* hashmap_rehash_iterator moves the first element that is left.
LEMMA MovedGrowing ==
    ASSUME HashOK, NEW t, NEW n, TableInv(t), TableInv(n), Growing(t, n),
           NEW s \in Used(t), \A r \in Used(t) : s <= r, HasSlot(n, t.data[s].key),
           NEW u, u = Erase(t, s), NEW w, w = Insert(n, t.data[s])
    PROVE  /\ TableInv(u) /\ TableInv(w) /\ Growing(u, w)
           /\ Elements(u) \cup Elements(w) = Elements(t) \cup Elements(n)
  <1> DEFINE e == t.data[s]
             h == Home(t, e.key)
             i == SlotFor(n, e.key)
  <1>1. /\ e \in Element /\ e.key \in Key /\ s \in Nat /\ Used(t) \subseteq Nat
        /\ e \in Elements(t) /\ h \in Nat /\ s \in Window(t, e.key)
    BY TableFacts DEF Element, Elements, TableInv
  <1>2. /\ TableInv(u) /\ u.capacity = t.capacity /\ u.size = t.size - 1
        /\ Used(u) = Used(t) \ {s}
        /\ Elements(u) = {d \in Elements(t) : d.key # e.key}
    BY EraseFacts
  <1>3. \A d \in Elements(n) : d.key # e.key
    BY <1>1 DEF Growing
  <1>4. /\ TableInv(w) /\ w.capacity = n.capacity /\ w.size = n.size + 1
        /\ Used(w) = Used(n) \cup {i} /\ w.data[i] = e /\ i \notin Used(n)
        /\ \A j \in Used(n) \ {i} : w.data[j] = n.data[j]
        /\ Elements(w) = {d \in Elements(n) : d.key # e.key} \cup {e}
    BY <1>1, <1>3, InsertFacts
  <1>5. /\ i \in Nat
        /\ \A j \in Home(n, e.key) .. i - 1 : j \in Used(n)
    BY <1>1, <1>4, SlotForFacts
  <1>6. \A d \in Elements(t) : d.key = e.key => d = e
    BY DEF Elements, TableInv
  <1> HIDE DEF e, h, i
  <1>7. Elements(u) \cup Elements(w) = Elements(t) \cup Elements(n)
    BY <1>1, <1>2, <1>3, <1>4, <1>6
  <1>8. \A d \in Elements(u), c \in Elements(w) : d.key # c.key
    BY <1>2, <1>4 DEF Growing
  <1>9. NoHoles(w)
    <2>1. \A k : Home(w, k) = Home(n, k)
      BY <1>4 DEF Home
    <2>2. ASSUME NEW p \in Used(w), NEW q \in Home(w, w.data[p].key) .. p - 1
          PROVE  q \in Used(w)
      <3>1. CASE p = i
        BY <1>4, <1>5, <2>1, <2>2, <3>1
      <3>2. CASE p # i
        <4>1. p \in Used(n) /\ w.data[p] = n.data[p]
          BY <1>4, <3>2
        <4> QED
          BY <1>4, <2>1, <2>2, <4>1 DEF Growing, NoHoles
      <3> QED
        BY <3>1, <3>2
    <2> QED
      BY <2>2 DEF NoHoles
  <1>10. ASSUME NEW r \in Used(u) PROVE Behind(u, w, r)
    <2>1. r \in Used(t) /\ r \in Nat /\ s < r
      BY <1>1, <1>2
    <2>2. h <= s
      BY <1>1, HashmapAssumption DEF Window, h
    <2> SUFFICES ASSUME NEW a \in 0 .. r PROVE Cardinality(From(u, w, a)) <= r - a
      BY DEF Behind
    <2>3. From(u, w, a) = From(t, n, a) \cup (IF h >= a THEN {i} ELSE {})
      <3>1. \A k : Home(u, k) = Home(t, k)
        BY <1>2 DEF Home
      <3>2. \A p \in Used(n) : w.data[p] = n.data[p]
        BY <1>4
      <3> QED
        BY <1>4, <3>1, <3>2 DEF From, h
    <2>4. IsFiniteSet(From(t, n, a)) /\ Cardinality(From(t, n, a)) \in Nat
      BY TableFacts, FS_Subset, FS_CardinalityType DEF From
    <2>5. CASE h >= a
      <3>1. a \in 0 .. s
        BY <1>1, <2>2, <2>5
      <3>2. Cardinality(From(t, n, a)) <= s - a
        BY <3>1 DEF Growing, Behind
      <3>3. Cardinality(From(u, w, a)) <= Cardinality(From(t, n, a)) + 1
        <4>1. Cardinality(From(t, n, a) \cup {i})
                 = IF i \in From(t, n, a) THEN Cardinality(From(t, n, a))
                   ELSE Cardinality(From(t, n, a)) + 1
          BY <2>4, FS_AddElement
        <4>2. From(u, w, a) = From(t, n, a) \cup {i}
          BY <2>3, <2>5
        <4> QED
          BY <2>4, <4>1, <4>2
      <3>4. IsFiniteSet(From(u, w, a)) /\ Cardinality(From(u, w, a)) \in Nat
        BY <2>3, <2>4, <2>5, FS_AddElement, FS_CardinalityType
      <3> QED
        BY <1>1, <2>1, <2>4, <3>1, <3>2, <3>3, <3>4
    <2>6. CASE ~(h >= a)
      BY <2>1, <2>3, <2>6 DEF Growing, Behind
    <2> QED
      BY <2>5, <2>6
  <1>11. u.size + w.size <= u.capacity /\ w.capacity = 2 * u.capacity
    BY <1>2, <1>4, TableFacts DEF Growing
  <1> QED
    BY <1>2, <1>4, <1>7, <1>8, <1>9, <1>10, <1>11 DEF Growing

\* A round of the loop of hashmap_rehash_iter moves one element.
LEMMA MoveStep ==
    ASSUME HashmapInv, Move
    PROVE  HashmapInv'
  <1> DEFINE t == tables[1]
             n == tables[2]
             u == Erase(t, NextToMove)
             w == Insert(n, Current)
  <1>1. /\ depth = 2 /\ Putting /\ ~Idling /\ HashOK
        /\ TableInv(t) /\ TableInv(n) /\ Growing(t, n)
        /\ AllElements = Elements(t) \cup Elements(n)
        /\ UNCHANGED <<hash, depth, adding, contents, failed>>
    BY HashmapBasics DEF Move, Putting
  <1>2. tables'[1] = u /\ tables'[2] = w /\ DOMAIN tables' = 1 .. depth'
    <2>1. tables' = [tables EXCEPT ![1] = u, ![2] = w]
      BY <1>1 DEF Move
    <2>2. DOMAIN tables = 1 .. 2
      BY <1>1, HashmapBasics
    <2> QED
      BY <1>1, <2>1, <2>2
  <1>3. /\ TableInv(u) /\ TableInv(w) /\ Growing(u, w)
        /\ Elements(u) \cup Elements(w) = AllElements
    BY <1>1, MovedFits, MovedGrowing
  <1> HIDE DEF u, w
  <1>4. /\ \A j \in 1 .. depth' : TableInv(tables[j])' /\ IsTable(tables'[j])
        /\ GrowthInv' /\ AllElements' = AllElements
    BY <1>1, <1>2, <1>3, NextTables
  <1>5. TypeOK'
    BY <1>1, <1>2, <1>4 DEF HashmapInv, TypeOK
  <1>6. ~Idling' /\ \A j : Adding(j)' <=> Adding(j)
    BY <1>1 DEF Idling, Adding
  <1>7. Holds(AllElements)'
    BY <1>1, <1>4, <1>6 DEF HashmapInv, Holds
  <1> QED
    BY <1>1, <1>4, <1>5, <1>6, <1>7 DEF HashmapInv

----------------------------------------------------------------------------
(* The theorems *)

\* No step breaks the invariant; growth and its failure begin at the map itself.
LEMMA NextHashmapInv == HashmapInv /\ [Next]_vars => HashmapInv'
  <1> SUFFICES ASSUME HashmapInv, [Next]_vars PROVE HashmapInv'
    OBVIOUS
  <1>1. ASSUME NEW k \in Key, Remove(k) PROVE HashmapInv'
    BY <1>1, RemoveStep
  <1>2. ASSUME NEW k \in Key, NEW v \in Value, Put(k, v) PROVE HashmapInv'
    BY <1>2, PutStep
  <1>3. CASE Store
    BY <1>3, StoreStep
  <1>4. CASE Move
    BY <1>4, MoveStep
  <1>5. CASE Grow
    BY <1>5, GrowStep, HashmapBasics, MovedFits DEF Grow
  <1>6. CASE Grown
    BY <1>6, GrownStep
  <1>7. CASE GrowFails
    BY <1>7, GrowFailsStep, HashmapBasics, MovedFits DEF GrowFails
  <1>8. CASE UNCHANGED vars
    <2>1. UNCHANGED <<hash, tables, depth, adding, contents, failed>>
      BY <1>8 DEF vars
    <2>2. Idling' = Idling /\ \A j : Adding(j)' <=> Adding(j)
      BY <2>1 DEF Idling, Adding
    <2>3. Holds(AllElements)'
      BY <2>1, <2>2, SameTables DEF HashmapInv, Holds
    <2> QED
      BY <2>1, <2>2, <2>3, SameTables DEF HashmapInv, TypeOK
  <1> QED
    BY <1>1, <1>2, <1>3, <1>4, <1>5, <1>6, <1>7, <1>8 DEF Next

\* The invariant of the hash map, in every state of every run.
THEOREM HashmapInvHolds == Spec => []HashmapInv
  BY InitHashmapInv, NextHashmapInv, PTL DEF Spec

\* The types of the table, of every size.
THEOREM HashmapTypes == Spec => []TypeOK
  BY HashmapInvHolds, PTL DEF HashmapInv

\* hashmap_get finds a key's element, and only that.
LEMMA GetFacts ==
    ASSUME HashOK, NEW t, TableInv(t), NEW k \in Key
    PROVE  /\ (\A e \in Elements(t) : e.key # k) => HashmapGet(t, k) = Nothing
           /\ \A e \in Elements(t) : e.key = k => HashmapGet(t, k) = e.data
  <1>1. SlotsOf(t, k) = {i \in Used(t) : t.data[i].key = k} /\ Used(t) \subseteq Nat
    BY TableFacts
  <1>2. CASE \A e \in Elements(t) : e.key # k
    BY <1>1, <1>2 DEF HashmapGet, Elements
  <1>3. ASSUME NEW e \in Elements(t), e.key = k PROVE HashmapGet(t, k) = e.data
    <2>1. PICK i \in Used(t) : t.data[i] = e
      BY DEF Elements
    <2>2. SlotsOf(t, k) = {i}
      BY <1>1, <1>3, <2>1 DEF TableInv
    <2>3. Min({i}) = i
      BY <1>1, <2>1, MinFacts
    <2> QED
      BY <2>1, <2>2, <2>3 DEF HashmapGet
  <1> QED
    BY <1>2, <1>3

\* Under every hash function a key yields what was last put to it, through
\* collisions, holes and growth; only a put that fails is not seen.
THEOREM TableIsMap == Spec => []MapExact
  <1>1. ASSUME HashmapInv, Idling, NEW k \in Key \ failed
        PROVE  HashmapGet(tables[1], k) = contents[k]
    <2>1. /\ TableInv(tables[1]) /\ HashOK /\ ~Adding(k) /\ Holds(Elements(tables[1]))
      BY <1>1, HashmapBasics DEF Adding, HashmapInv
    <2>2. CASE \E e \in Elements(tables[1]) : e.key = k
      BY <2>1, <2>2, <1>1, GetFacts DEF Holds
    <2>3. CASE \A e \in Elements(tables[1]) : e.key # k
      BY <2>1, <2>3, GetFacts DEF Holds
    <2> QED
      BY <2>2, <2>3
  <1>2. HashmapInv => MapExact
    BY <1>1 DEF MapExact
  <1> QED
    BY <1>2, HashmapInvHolds, PTL

\* size is the number of the elements in use, of the map and of what it grows to.
THEOREM SizesExact == Spec => []SizeExact
  <1>1. HashmapInv => SizeExact
    BY DEF HashmapInv, TableInv, SizeExact
  <1> QED
    BY <1>1, HashmapInvHolds, PTL

\* A growth never has to grow its new table, and loses nothing.
THEOREM GrowthAlwaysFits == Spec => []GrowthFits
  <1>1. HashmapInv => GrowthFits
    BY HashmapBasics, MovedFits DEF GrowthFits
  <1> QED
    BY <1>1, HashmapInvHolds, PTL

=============================================================================
