----------------------------- MODULE TestProofs -----------------------------
(***************************************************************************)
(* The suites of test.c and the benchmark, for every number of chunks,     *)
(* pages and keys, whichever chunks are evicted, whichever orders are      *)
(* drawn, and whichever pages the kernel takes.                            *)
(***************************************************************************)
EXTENDS CacheTests, FallthroughProofs

KeysOf(s) == {KeyOf(s, n) : n \in Indices(Cnt[s])}

\* Commands that ask for keys nobody asked for before, or that were all asked
\* for; commands that drop them.
Loading   == {"smoke_fill", "first_pass"}
Rereading == {"smoke_read", "second_pass"}
Mixing    == {"warm_up", "measure"}
Getting   == Loading \cup Rereading \cup Mixing
Dropping  == {"smoke_drop", "drop_all"}
Smoking   == {"smoke_fill", "smoke_read", "smoke_drop"}

Entry(c) == Script[suite][c]
Entries  == 1 .. Len(Script[suite])

AskedSets(command) ==
    IF command.op = "warm_up" THEN {"hot", "cold"}
    ELSE IF command.op \in Getting THEN {command.set} ELSE {}

\* The sets that were asked for, the current one unless it is new; those that
\* were dropped.
SeenAt(c) ==
    {s \in DOMAIN Cnt : \E d \in Entries :
        /\ d < c \/ (d = c /\ Entry(d).op \notin Loading)
        /\ s \in AskedSets(Entry(d))}
GoneAt(c) ==
    {s \in DOMAIN Cnt : \E d \in Entries :
        d < c /\ Entry(d).op \in Dropping /\ Entry(d).set = s}
Seen == SeenAt(cmd)
Gone == GoneAt(cmd)

\* How many of the loop's calls have returned.
Returned == IF Idling THEN i ELSE i - 1

\* The key of a call, and which of the two functions it is in.
PlaceInv ==
    ~Idling =>
        /\ 0 < i /\ ~Done
        /\ At(Getting \cup Dropping)
        /\ At(Getting) => pc \notin {"drop_locked", "drop_found"}
        /\ At(Dropping) => pc \in {"drop_locked", "drop_found"}
        /\ At(Loading \cup Rereading \cup Dropping) => key = KeyOf(Command.set, i - 1)
        /\ At(Mixing) => \E s \in AskedSets(Command) : key \in KeysOf(s)

\* The keysets, used in their order by the passes of check_hitrate.
SetsInv ==
    /\ sets = [s \in Keysets |-> sets[s]]
    /\ \A s \in Keysets \ Seen :
           ~(At(Loading) /\ s = Command.set) => sets[s] = InitKeyset(Cnt[s])
    /\ At({"first_pass", "second_pass"}) =>
           LET c == Cnt[Command.set]
           IN  sets[Command.set] = [permutation |-> StandardOrder(c),
                                    pos |-> IF i = c THEN 0 ELSE i, shuffled |-> i = c]

\* No page has a key that was not asked for.
SeenInv ==
    \A k \in Key : map[k] # EMPTY_DESC =>
        \/ \E s \in Seen : k \in KeysOf(s)
        \/ At(Loading) /\ \E n \in 0 .. i - 1 : k = KeyOf(Command.set, n)

\* New keys miss.
MissInv ==
    At(Loading) =>
        /\ pc \notin {"get_found", "get_copied", "get_checked", "exited"}
        /\ exited = "no"
        /\ pc \in {"get_locked", "get_missed", "get_refilled"} => map[key] = EMPTY_DESC
        /\ count = IF pc \in {"get_locked", "get_missed"} THEN i - 1 ELSE i

\* Until the kernel takes a page, dropped keys have none.
GoneInv ==
    ~reclaimed =>
        /\ \A s \in Gone : \A k \in KeysOf(s) : map[k] = EMPTY_DESC
        /\ At(Dropping) => \A n \in 0 .. Returned - 1 : map[KeyOf(Command.set, n)] = EMPTY_DESC

\* Until then, keys of one set that fits into the cache stay.
KeptInv ==
    ~reclaimed =>
        /\ At(Loading) /\ Seen \subseteq Gone /\ Cnt[Command.set] <= NumEntries =>
               \A n \in 0 .. Returned - 1 : KeyOf(Command.set, n) \in resident
        /\ At(Rereading) /\ Cnt[Command.set] <= NumEntries =>
               /\ KeysOf(Command.set) \subseteq resident
               /\ pc \notin {"get_missed", "get_refilled", "get_wlocked", "get_stored"}
               /\ At({"second_pass"}) => count = 0
        /\ At({"smoke_drop"}) =>
               /\ \A n \in Returned .. Cnt.smoke - 1 : KeyOf("smoke", n) \in resident
               /\ i > 0 => pc # "absent"

\* The smoke test uses the first chunk only, and gives the kernel nothing.
SmokeInv ==
    /\ At(Smoking) => ~reclaimed /\ \A s \in Slot : ~lazy[s]
    /\ At({"smoke_read", "smoke_drop"}) => count = SmokeTestCnt
    /\ At({"smoke_fill"}) =>
           /\ current_chunk_idx = 0
           /\ free_pages = [c \in Chunk |-> << >>]
           /\ len = [c \in Chunk |->
                        IF c # 0 THEN 0
                        ELSE IF Idling \/ pc \in {"get_wlocked", "get_stored"} THEN i ELSE i - 1]

\* A set that fits into the cache is dropped after a pass that only hit, until
\* the kernel takes a page, which it never does in suite_anon.
LuckInv ==
    /\ suite = "anon" => ~reclaimed
    /\ At({"drop_all"}) /\ Command.set = "whole" /\ ~reclaimed => count = 0

TestInv ==
    /\ FtInv /\ TestTypeOK /\ PlaceInv
    /\ SetsInv /\ PassesInOrder
    /\ SeenInv /\ MissInv /\ GoneInv /\ KeptInv /\ SmokeInv
    /\ LuckInv /\ DemandsMet

----------------------------------------------------------------------------
(* The suites *)

Lazyfree == Script["lazyfree"]
Anon     == Script["anon"]
Hotcold  == Script["hot_cold"]

\* The suites, written out.
LEMMA Suites3 ==
    /\ DOMAIN Script = {"lazyfree", "anon", "hot_cold"}
    /\ Len(Lazyfree) = 10 /\ Len(Anon) = 6 /\ Len(Hotcold) = 13
  BY DEF Script, SmokeTest, CheckHitrate, HotCold, MeasureSet, Lazyfree, Anon, Hotcold

\* suite_lazyfree.
LEMMA LazyfreeTable ==
    /\ Lazyfree[1] = [op |-> "smoke_fill", set |-> "smoke"]
    /\ Lazyfree[2] = [op |-> "smoke_read", set |-> "smoke"]
    /\ Lazyfree[3] = [op |-> "smoke_drop", set |-> "smoke"]
    /\ Lazyfree[4] = [op |-> "renew", set |-> "smoke"]
    /\ Lazyfree[5] = [op |-> "first_pass", set |-> "whole"]
    /\ Lazyfree[6] = [op |-> "second_pass", set |-> "whole"]
    /\ Lazyfree[7] = [op |-> "drop_all", set |-> "whole"]
    /\ Lazyfree[8] = [op |-> "first_pass", set |-> "twice"]
    /\ Lazyfree[9] = [op |-> "second_pass", set |-> "twice"]
    /\ Lazyfree[10] = [op |-> "drop_all", set |-> "twice"]
  BY DEF Script, SmokeTest, CheckHitrate, Lazyfree

\* suite_anon, which suite_disk repeats.
LEMMA AnonTable ==
    /\ Anon[1] = [op |-> "smoke_fill", set |-> "smoke"]
    /\ Anon[2] = [op |-> "smoke_read", set |-> "smoke"]
    /\ Anon[3] = [op |-> "smoke_drop", set |-> "smoke"]
    /\ Anon[4] = [op |-> "first_pass", set |-> "whole"]
    /\ Anon[5] = [op |-> "second_pass", set |-> "whole"]
    /\ Anon[6] = [op |-> "drop_all", set |-> "whole"]
  BY DEF Script, SmokeTest, CheckHitrate, Anon

\* run_hot_cold.
LEMMA HotcoldTable ==
    /\ Hotcold[1] = [op |-> "warm_up", set |-> "hot"]
    /\ Hotcold[2] = [op |-> "first_pass", set |-> "junk"]
    /\ Hotcold[3] = [op |-> "random_order", set |-> "hot"]
    /\ Hotcold[4] = [op |-> "measure", set |-> "hot"]
    /\ Hotcold[5] = [op |-> "random_order", set |-> "cold"]
    /\ Hotcold[6] = [op |-> "measure", set |-> "cold"]
    /\ Hotcold[7] = [op |-> "random_order", set |-> "hot"]
    /\ Hotcold[8] = [op |-> "measure", set |-> "hot"]
    /\ Hotcold[9] = [op |-> "random_order", set |-> "cold"]
    /\ Hotcold[10] = [op |-> "measure", set |-> "cold"]
    /\ Hotcold[11] = [op |-> "drop_all", set |-> "hot"]
    /\ Hotcold[12] = [op |-> "drop_all", set |-> "cold"]
    /\ Hotcold[13] = [op |-> "drop_all", set |-> "junk"]
  BY DEF Script, HotCold, MeasureSet, Hotcold

\* What a suite is made of.
Shape(S) ==
    \A c \in 1 .. Len(S) :
        LET op == S[c].op
            s  == S[c].set
        IN  /\ S[c] = [op |-> op, set |-> s] /\ s \in DOMAIN Cnt
            /\ op \in Getting \cup Dropping \cup {"random_order", "renew"}
            /\ op \in Smoking \cup {"renew"} => s = "smoke"
            /\ op \in Passes \cup {"random_order", "drop_all"} => s \in Keysets
            /\ op = "smoke_fill" => c = 1
            /\ op \in Rereading =>
                   /\ c - 1 \in 1 .. Len(S) /\ S[c - 1].set = s
                   /\ S[c - 1].op = IF op = "smoke_read" THEN "smoke_fill" ELSE "first_pass"
            /\ op = "smoke_drop" => c - 1 \in 1 .. Len(S) /\ S[c - 1].op = "smoke_read"
            /\ op = "drop_all" /\ s = "whole" =>
                   c - 1 \in 1 .. Len(S) /\ S[c - 1].op = "second_pass" /\ S[c - 1].set = s
            /\ op = "random_order" =>
                   \E d \in 1 .. Len(S) : d < c /\ s \in AskedSets(S[d])

\* New sets are new, dropped ones are not asked for again, and all are dropped.
Order(S) ==
    \A c \in 1 .. Len(S) :
        /\ \A d \in 1 .. Len(S) : d < c =>
               /\ S[c].op \in Loading => S[c].set \notin AskedSets(S[d])
               /\ S[d].op \in Dropping => S[d].set \notin AskedSets(S[c])
        /\ \A s \in AskedSets(S[c]) :
               \E d \in 1 .. Len(S) : S[d].op \in Dropping /\ S[d].set = s
        /\ c + 1 <= Len(S) /\ S[c + 1].op \in Rereading =>
               \A d \in 1 .. Len(S) : d < c => \A s \in AskedSets(S[d]) :
                   \E e \in 1 .. Len(S) : e < c /\ S[e].op \in Dropping /\ S[e].set = s

\* The sets of one suite.
Together == {{"smoke", "whole", "twice"}, {"hot", "cold", "junk"}}

Joint(S) == \E G \in Together : \A c \in 1 .. Len(S) : S[c].set \in G /\ AskedSets(S[c]) \subseteq G

\* suite_lazyfree is made of such parts.
LEMMA LazyfreeShape == Shape(Lazyfree)
  <1>1. Len(Lazyfree) = 10
    BY Suites3
  <1>2. \A c \in 1 .. 10 : c \in {1, 2, 3, 4, 5, 6, 7, 8, 9, 10}
    OBVIOUS
  <1> QED
    BY <1>1, <1>2, LazyfreeTable
       DEF Shape, Getting, Dropping, Loading, Rereading, Mixing, Smoking, Passes, Keysets, Cnt, AskedSets

\* So is suite_anon.
LEMMA AnonShape == Shape(Anon)
  <1>1. Len(Anon) = 6
    BY Suites3
  <1>2. \A c \in 1 .. 6 : c \in {1, 2, 3, 4, 5, 6}
    OBVIOUS
  <1> QED
    BY <1>1, <1>2, AnonTable
       DEF Shape, Getting, Dropping, Loading, Rereading, Mixing, Smoking, Passes, Keysets, Cnt, AskedSets

\* So is run_hot_cold.
LEMMA HotcoldShape == Shape(Hotcold)
  <1>1. Len(Hotcold) = 13
    BY Suites3
  <1>2. \A c \in 1 .. 13 : c \in {1, 2, 3, 4, 5, 6, 7, 8, 9, 10, 11, 12, 13}
    OBVIOUS
  <1> QED
    BY <1>1, <1>2, HotcoldTable
       DEF Shape, Getting, Dropping, Loading, Rereading, Mixing, Smoking, Passes, Keysets, Cnt, AskedSets

\* suite_lazyfree has its parts in such an order.
LEMMA LazyfreeOrder == Order(Lazyfree)
  <1>1. Len(Lazyfree) = 10
    BY Suites3
  <1>2. \A c \in 1 .. 10 : c \in {1, 2, 3, 4, 5, 6, 7, 8, 9, 10}
    OBVIOUS
  <1> QED
    BY <1>1, <1>2, LazyfreeTable DEF Order, Getting, Dropping, Loading, Rereading, Mixing, AskedSets

\* So has suite_anon.
LEMMA AnonOrder == Order(Anon)
  <1>1. Len(Anon) = 6
    BY Suites3
  <1>2. \A c \in 1 .. 6 : c \in {1, 2, 3, 4, 5, 6}
    OBVIOUS
  <1> QED
    BY <1>1, <1>2, AnonTable DEF Order, Getting, Dropping, Loading, Rereading, Mixing, AskedSets

\* So has run_hot_cold.
LEMMA HotcoldOrder == Order(Hotcold)
  <1>1. Len(Hotcold) = 13
    BY Suites3
  <1>2. \A c \in 1 .. 13 : c \in {1, 2, 3, 4, 5, 6, 7, 8, 9, 10, 11, 12, 13}
    OBVIOUS
  <1> QED
    BY <1>1, <1>2, HotcoldTable DEF Order, Getting, Dropping, Loading, Rereading, Mixing, AskedSets

\* Each suite uses sets of one kind only.
LEMMA SuitesJoint == Joint(Lazyfree) /\ Joint(Anon) /\ Joint(Hotcold)
  <1>1. Joint(Lazyfree)
    <2>1. Len(Lazyfree) = 10 /\ \A c \in 1 .. 10 : c \in {1, 2, 3, 4, 5, 6, 7, 8, 9, 10}
      BY Suites3
    <2>2. \A c \in 1 .. 10 : /\ Lazyfree[c].set \in {"smoke", "whole", "twice"}
                             /\ AskedSets(Lazyfree[c]) \subseteq {"smoke", "whole", "twice"}
      BY <2>1, LazyfreeTable DEF AskedSets
    <2> QED
      BY <2>1, <2>2 DEF Joint, Together
  <1>2. Joint(Anon)
    <2>1. Len(Anon) = 6 /\ \A c \in 1 .. 6 : c \in {1, 2, 3, 4, 5, 6}
      BY Suites3
    <2>2. \A c \in 1 .. 6 : /\ Anon[c].set \in {"smoke", "whole", "twice"}
                            /\ AskedSets(Anon[c]) \subseteq {"smoke", "whole", "twice"}
      BY <2>1, AnonTable DEF AskedSets
    <2> QED
      BY <2>1, <2>2 DEF Joint, Together
  <1>3. Joint(Hotcold)
    <2>1. Len(Hotcold) = 13 /\ \A c \in 1 .. 13 : c \in {1, 2, 3, 4, 5, 6, 7, 8, 9, 10, 11, 12, 13}
      BY Suites3
    <2>2. \A c \in 1 .. 13 : /\ Hotcold[c].set \in {"hot", "cold", "junk"}
                             /\ AskedSets(Hotcold[c]) \subseteq {"hot", "cold", "junk"}
      BY <2>1, HotcoldTable DEF AskedSets
    <2> QED
      BY <2>1, <2>2 DEF Joint, Together
  <1> QED
    BY <1>1, <1>2, <1>3

\* All this, of the suite that runs.
LEMMA SuiteFacts ==
    ASSUME suite \in DOMAIN Script
    PROVE  /\ Shape(Script[suite]) /\ Order(Script[suite]) /\ Joint(Script[suite])
           /\ Len(Script[suite]) \in Nat
  BY Suites3, LazyfreeShape, AnonShape, HotcoldShape, LazyfreeOrder, AnonOrder, HotcoldOrder,
     SuitesJoint DEF Lazyfree, Anon, Hotcold

----------------------------------------------------------------------------
(* The keys *)

\* No set is empty; one has as many keys as the cache has pages.
LEMMA Counts ==
    /\ \A s \in DOMAIN Cnt : Cnt[s] \in Nat \ {0}
    /\ DOMAIN Cnt = {"smoke", "whole", "twice", "hot", "cold", "junk"}
    /\ NumEntries \in Nat \ {0} /\ NumEntries = NumChunks * PagesPerChunk
    /\ Cnt["smoke"] = SmokeTestCnt /\ SmokeTestCnt <= PagesPerChunk
  <1>1. NumChunks \in Nat \ {0} /\ PagesPerChunk \in Nat \ {0}
    BY ChunksAssumption, PagesAssumption
  <1>2. NumEntries = NumChunks * PagesPerChunk
    BY <1>1, GeometryAssumption
  <1>3. NumEntries \in Nat \ {0}
    BY <1>1, <1>2, GeometryAssumption
  <1>4. SmokeTestCnt \in Nat \ {0} /\ SmokeTestCnt <= PagesPerChunk
    BY <1>1, SmokeAssumption
  <1>5. 2 * NumEntries \in Nat \ {0}
    BY <1>3
  <1> QED
    BY <1>2, <1>3, <1>4, <1>5, CountsAssumption DEF Cnt

\* No two keys are the same.
LEMMA KeysApart ==
    /\ \A s \in DOMAIN Cnt : \A n, m \in Int : KeyOf(s, n) = KeyOf(s, m) => n = m
    /\ \A s \in DOMAIN Cnt : KeysOf(s) \subseteq Key
    /\ \A G \in Together : \A s, t \in G : s # t => KeysOf(s) \cap KeysOf(t) = {}
  <1>1. DOMAIN Seed = DOMAIN Cnt /\ \A s \in DOMAIN Cnt : Seed[s] \in Nat
    BY Counts DEF Seed
  <1>2. \A s \in DOMAIN Cnt : \A n, m \in Int : KeyOf(s, n) = KeyOf(s, m) => n = m
    BY <1>1 DEF KeyOf
  <1>3. \A s \in DOMAIN Cnt : KeysOf(s) \subseteq Key
    BY KeysAssumption DEF KeysOf
  <1>4. ASSUME NEW G \in Together, NEW s \in G, NEW t \in G, s # t,
               NEW n \in Indices(Cnt[s]), NEW m \in Indices(Cnt[t])
        PROVE  Seed[s] + n # Seed[t] + m
    <2>1. Indices(Cnt[s]) = 0 .. Cnt[s] - 1 /\ Indices(Cnt[t]) = 0 .. Cnt[t] - 1
      BY DEF Indices
    <2>2. CASE G = {"smoke", "whole", "twice"}
      <3>1. Seed["smoke"] = 1 /\ Seed["whole"] = 1 + Cnt["smoke"] /\ Seed["twice"] = 1 + Cnt["smoke"] + Cnt["whole"]
        BY DEF Seed, Cnt
      <3>2. /\ Cnt["smoke"] \in Nat /\ Cnt["whole"] \in Nat /\ Cnt["twice"] \in Nat
        BY Counts
      <3>3. ASSUME NEW r \in G, NEW l \in 0 .. Cnt[r] - 1
            PROVE  /\ r = "smoke" => Seed[r] + l <= Cnt["smoke"]
                   /\ r = "whole" => /\ Cnt["smoke"] < Seed[r] + l
                                    /\ Seed[r] + l <= Cnt["smoke"] + Cnt["whole"]
                   /\ r = "twice" => Cnt["smoke"] + Cnt["whole"] < Seed[r] + l
        BY <2>2, <3>1, <3>2, <3>3
      <3>4. s \in {"smoke", "whole", "twice"} /\ t \in {"smoke", "whole", "twice"} /\ s # t
        BY <1>4, <2>2
      <3>5. n \in 0 .. Cnt[s] - 1 /\ m \in 0 .. Cnt[t] - 1
        BY <2>1
      <3>6. /\ s = "smoke" => Seed[s] + n <= Cnt["smoke"]
            /\ s = "whole" => Cnt["smoke"] < Seed[s] + n /\ Seed[s] + n <= Cnt["smoke"] + Cnt["whole"]
            /\ s = "twice" => Cnt["smoke"] + Cnt["whole"] < Seed[s] + n
        BY <3>3, <3>5
      <3>7. /\ t = "smoke" => Seed[t] + m <= Cnt["smoke"]
            /\ t = "whole" => Cnt["smoke"] < Seed[t] + m /\ Seed[t] + m <= Cnt["smoke"] + Cnt["whole"]
            /\ t = "twice" => Cnt["smoke"] + Cnt["whole"] < Seed[t] + m
        BY <3>3, <3>5
      <3>8. Seed[s] + n \in Int /\ Seed[t] + m \in Int
        BY <3>1, <3>2, <3>4, <3>5
      <3> QED
        BY <3>2, <3>4, <3>6, <3>7, <3>8
    <2>3. CASE G = {"hot", "cold", "junk"}
      <3>1. Seed["hot"] = 1 /\ Seed["cold"] = 1 + Cnt["hot"] /\ Seed["junk"] = 1 + Cnt["hot"] + Cnt["cold"]
        BY DEF Seed, Cnt
      <3>2. /\ Cnt["hot"] \in Nat /\ Cnt["cold"] \in Nat /\ Cnt["junk"] \in Nat
        BY Counts
      <3>3. ASSUME NEW r \in G, NEW l \in 0 .. Cnt[r] - 1
            PROVE  /\ r = "hot" => Seed[r] + l <= Cnt["hot"]
                   /\ r = "cold" => /\ Cnt["hot"] < Seed[r] + l
                                    /\ Seed[r] + l <= Cnt["hot"] + Cnt["cold"]
                   /\ r = "junk" => Cnt["hot"] + Cnt["cold"] < Seed[r] + l
        BY <2>3, <3>1, <3>2, <3>3
      <3>4. s \in {"hot", "cold", "junk"} /\ t \in {"hot", "cold", "junk"} /\ s # t
        BY <1>4, <2>3
      <3>5. n \in 0 .. Cnt[s] - 1 /\ m \in 0 .. Cnt[t] - 1
        BY <2>1
      <3>6. /\ s = "hot" => Seed[s] + n <= Cnt["hot"]
            /\ s = "cold" => Cnt["hot"] < Seed[s] + n /\ Seed[s] + n <= Cnt["hot"] + Cnt["cold"]
            /\ s = "junk" => Cnt["hot"] + Cnt["cold"] < Seed[s] + n
        BY <3>3, <3>5
      <3>7. /\ t = "hot" => Seed[t] + m <= Cnt["hot"]
            /\ t = "cold" => Cnt["hot"] < Seed[t] + m /\ Seed[t] + m <= Cnt["hot"] + Cnt["cold"]
            /\ t = "junk" => Cnt["hot"] + Cnt["cold"] < Seed[t] + m
        BY <3>3, <3>5
      <3>8. Seed[s] + n \in Int /\ Seed[t] + m \in Int
        BY <3>1, <3>2, <3>4, <3>5
      <3> QED
        BY <3>2, <3>4, <3>6, <3>7, <3>8
    <2> QED
      BY <2>2, <2>3 DEF Together
  <1>5. ASSUME NEW G \in Together, NEW s \in G, NEW t \in G, s # t
        PROVE  KeysOf(s) \cap KeysOf(t) = {}
    BY <1>4, <1>5 DEF KeysOf, KeyOf
  <1> QED
    BY <1>2, <1>3, <1>5

----------------------------------------------------------------------------
(* The current command *)

\* What a command is, while there is one.
LEMMA CommandFacts ==
    ASSUME suite \in DOMAIN Script, cmd \in 1 .. Len(Script[suite]) + 1, ~Done
    PROVE  /\ cmd \in Entries /\ Command = Entry(cmd)
           /\ Command.set \in DOMAIN Cnt /\ AskedSets(Command) \subseteq DOMAIN Cnt
           /\ Command.op \in Getting \cup Dropping \cup {"random_order", "renew"}
           /\ Command.op \in Smoking \cup {"renew"} => Command.set = "smoke"
           /\ Command.op \in Passes \cup {"random_order", "drop_all"} => Command.set \in Keysets
           /\ Command.op # "warm_up" => Calls \in {0, Cnt[Command.set]}
           /\ Command.op \in Getting \cup Dropping /\ Command.op # "warm_up" =>
                  Calls = Cnt[Command.set]
           /\ Calls \in Nat
  <1>1. Len(Script[suite]) \in Nat /\ Shape(Script[suite])
    BY SuiteFacts
  <1>2. cmd \in Entries /\ Command = Entry(cmd)
    BY <1>1 DEF Done, Entries, Command, Entry
  <1>3. /\ Command.set \in DOMAIN Cnt
        /\ Command.op \in Getting \cup Dropping \cup {"random_order", "renew"}
        /\ Command.op \in Smoking \cup {"renew"} => Command.set = "smoke"
        /\ Command.op \in Passes \cup {"random_order", "drop_all"} => Command.set \in Keysets
    BY <1>1, <1>2 DEF Shape, Entries, Entry
  <1>4. AskedSets(Command) \subseteq DOMAIN Cnt
    BY <1>3, Counts DEF AskedSets
  <1>5. Cnt[Command.set] \in Nat /\ WarmUpGets \in Nat
    BY <1>3, Counts, CountsAssumption
  <1>6. /\ Command.op \in Getting \cup Dropping => Command.op \notin {"random_order", "renew"}
        /\ Calls = IF Command.op = "warm_up" THEN WarmUpGets
                   ELSE IF Command.op \in {"random_order", "renew"} THEN 0
                   ELSE Cnt[Command.set]
    BY DEF Calls, At, Getting, Dropping, Loading, Rereading, Mixing
  <1> QED
    BY <1>2, <1>3, <1>4, <1>5, <1>6

\* The sets of the suite have no key in common; what is asked for was not
\* dropped, and is among the sets that were asked for unless it is new.
LEMMA SeenFacts ==
    ASSUME suite \in DOMAIN Script, cmd \in 1 .. Len(Script[suite]) + 1, ~Done
    PROVE  /\ Command.op \in Getting \ Loading => AskedSets(Command) \subseteq Seen
           /\ Command.op \in Loading => Command.set \notin Seen
           /\ \A s \in AskedSets(Command), t \in Gone : s # t /\ KeysOf(s) \cap KeysOf(t) = {}
           /\ \A s \in Seen : s # Command.set => KeysOf(s) \cap KeysOf(Command.set) = {}
           /\ Command.op = "random_order" => Command.set \in Seen
           /\ Seen \subseteq DOMAIN Cnt /\ Gone \subseteq DOMAIN Cnt
  <1> DEFINE S == Script[suite]
  <1>1. Len(S) \in Nat /\ Shape(S) /\ Order(S) /\ Joint(S)
    BY SuiteFacts
  <1>2. /\ cmd \in 1 .. Len(S) /\ Command = S[cmd] /\ Command.set \in DOMAIN Cnt
        /\ AskedSets(Command) \subseteq DOMAIN Cnt
    BY CommandFacts DEF Entries, Entry
  <1>3. \A s \in Seen : \E d \in 1 .. Len(S) : /\ d < cmd \/ (d = cmd /\ S[d].op \notin Loading)
                                               /\ s \in AskedSets(S[d])
    BY DEF Seen, SeenAt, Entries, Entry
  <1>4. \A s \in Gone : \E d \in 1 .. Len(S) : d < cmd /\ S[d].op \in Dropping /\ s = S[d].set
    BY DEF Gone, GoneAt, Entries, Entry
  <1>5. Command.op \in Getting \ Loading => AskedSets(Command) \subseteq Seen
    BY <1>2 DEF Seen, SeenAt, Entries, Entry
  <1>6. Command.op \in Loading => Command.set \notin Seen
    BY <1>1, <1>2, <1>3 DEF Order
  <1>7. \A s \in AskedSets(Command), t \in Gone : s # t
    BY <1>1, <1>2, <1>4 DEF Order
  <1>8. PICK G \in Together : \A c \in 1 .. Len(S) : S[c].set \in G /\ AskedSets(S[c]) \subseteq G
    BY <1>1 DEF Joint
  <1>9. \A s \in Seen \cup Gone \cup AskedSets(Command) \cup {Command.set} : s \in G
    BY <1>2, <1>3, <1>4, <1>8
  <1>10. Command.op = "random_order" => Command.set \in Seen
    BY <1>1, <1>2 DEF Shape, Seen, SeenAt, Entries, Entry
  <1> QED
    BY <1>5, <1>6, <1>7, <1>9, <1>10, KeysApart DEF Seen, SeenAt, Gone, GoneAt

\* A step that stays at the command.
LEMMA SameCommand ==
    ASSUME UNCHANGED <<suite, cmd>>
    PROVE  /\ Done' = Done /\ Command' = Command /\ Seen' = Seen /\ Gone' = Gone
           /\ Calls' = Calls
  <1>1. Done' = Done /\ Command' = Command
    BY DEF Done, Command
  <1>2. Seen' = Seen /\ Gone' = Gone
    BY DEF Seen, SeenAt, Gone, GoneAt, Entries, Entry
  <1> QED
    BY <1>1, <1>2 DEF Calls, At

\* A step to the next command.
LEMMA NextSets ==
    ASSUME suite \in DOMAIN Script, cmd \in 1 .. Len(Script[suite]) + 1, ~Done,
           suite' = suite, cmd' = cmd + 1
    PROVE  /\ Seen \subseteq Seen'
           /\ Command.op \in Loading => Command.set \in Seen'
           /\ Gone' = IF Command.op \in Dropping THEN Gone \cup {Command.set} ELSE Gone
           /\ cmd' \in 1 .. Len(Script[suite']) + 1
           /\ ~Done' /\ Command'.op \in Rereading =>
                  /\ Command.set = Command'.set /\ Seen \subseteq Gone
                  /\ Command.op = IF Command'.op = "smoke_read" THEN "smoke_fill" ELSE "first_pass"
           /\ ~Done' /\ Command'.op = "smoke_drop" => Command.op = "smoke_read"
           /\ ~(~Done' /\ Command'.op = "smoke_fill")
           /\ ~Done' /\ Command'.op = "drop_all" /\ Command'.set = "whole" =>
                  Command.op = "second_pass" /\ Command.set = "whole"
  <1> DEFINE S == Script[suite]
  <1>1. Len(S) \in Nat /\ Shape(S) /\ Order(S)
    BY SuiteFacts
  <1>2. cmd \in 1 .. Len(S) /\ Command = S[cmd] /\ Command.set \in DOMAIN Cnt /\ cmd \in Nat
    BY <1>1, CommandFacts DEF Entries, Entry
  <1>3. Entries' = Entries /\ Entries = 1 .. Len(S) /\ \A d \in Entries : Entry(d)' = S[d] /\ Entry(d) = S[d]
    BY DEF Entries, Entry
  <1>4. Seen' = {s \in DOMAIN Cnt : \E d \in Entries :
            /\ d < cmd + 1 \/ (d = cmd + 1 /\ S[d].op \notin Loading)
            /\ s \in AskedSets(S[d])}
    BY <1>3 DEF Seen, SeenAt, Entry
  <1>5. Seen = {s \in DOMAIN Cnt : \E d \in Entries :
            /\ d < cmd \/ (d = cmd /\ S[d].op \notin Loading)
            /\ s \in AskedSets(S[d])}
    BY <1>3 DEF Seen, SeenAt, Entry
  <1>6. Seen \subseteq Seen'
    BY <1>2, <1>3, <1>4, <1>5
  <1>7. Command.op \in Loading => Command.set \in Seen'
    BY <1>2, <1>3, <1>4 DEF AskedSets, Getting, Loading
  <1>8. Gone' = {s \in DOMAIN Cnt : \E d \in Entries : d < cmd + 1 /\ S[d].op \in Dropping /\ S[d].set = s}
    BY <1>3 DEF Gone, GoneAt, Entry
  <1>9. Gone = {s \in DOMAIN Cnt : \E d \in Entries : d < cmd /\ S[d].op \in Dropping /\ S[d].set = s}
    BY <1>3 DEF Gone, GoneAt, Entry
  <1>10. Gone' = IF Command.op \in Dropping THEN Gone \cup {Command.set} ELSE Gone
    <2>1. \A d \in Entries : d < cmd + 1 <=> d < cmd \/ d = cmd
      BY <1>2, <1>3
    <2> QED
      BY <1>2, <1>3, <1>8, <1>9, <2>1
  <1>11. cmd' \in 1 .. Len(Script[suite']) + 1
    BY <1>1, <1>2
  <1>12. ASSUME ~Done'
         PROVE  \E c \in 1 .. Len(S) : c = cmd + 1 /\ Command' = S[c] /\ c - 1 = cmd /\ cmd < c
    BY <1>1, <1>2, <1>12 DEF Done, Command
  <1>13. ASSUME ~Done'
         PROVE  /\ Command'.op \in Rereading =>
                     /\ Command.set = Command'.set
                     /\ Command.op = IF Command'.op = "smoke_read" THEN "smoke_fill" ELSE "first_pass"
                /\ Command'.op = "smoke_drop" => Command.op = "smoke_read"
                /\ Command'.op # "smoke_fill"
                /\ Command'.op = "drop_all" /\ Command'.set = "whole" =>
                       Command.op = "second_pass" /\ Command.set = "whole"
    <2>1. PICK c \in 1 .. Len(S) : c = cmd + 1 /\ Command' = S[c] /\ c - 1 = cmd /\ cmd < c
      BY <1>12, <1>13
    <2>2. /\ S[c].op \in Rereading =>
                /\ S[c - 1].set = S[c].set
                /\ S[c - 1].op = IF S[c].op = "smoke_read" THEN "smoke_fill" ELSE "first_pass"
          /\ S[c].op = "smoke_drop" => S[c - 1].op = "smoke_read"
          /\ S[c].op = "smoke_fill" => c = 1
          /\ S[c].op = "drop_all" /\ S[c].set = "whole" =>
                 S[c - 1].op = "second_pass" /\ S[c - 1].set = "whole"
      BY <1>1 DEF Shape
    <2> QED
      BY <1>2, <2>1, <2>2
  <1>14. ASSUME ~Done', Command'.op \in Rereading
         PROVE  Seen \subseteq Gone
    <2>1. Command.op \in Loading
      BY <1>13, <1>14 DEF Loading
    <2>2. PICK c \in 1 .. Len(S) : c = cmd + 1 /\ Command' = S[c]
      BY <1>12, <1>14
    <2>3. \A d \in 1 .. Len(S) : d < cmd => \A s \in AskedSets(S[d]) :
              \E e \in 1 .. Len(S) : e < cmd /\ S[e].op \in Dropping /\ S[e].set = s
      <3>1. cmd + 1 <= Len(S) /\ S[cmd + 1].op \in Rereading
        BY <1>1, <1>14, <2>2
      <3> QED
        BY <1>1, <1>2, <3>1 DEF Order
    <2> QED
      BY <1>2, <1>3, <1>5, <1>9, <2>1, <2>3
  <1> QED
    BY <1>6, <1>7, <1>10, <1>11, <1>13, <1>14

----------------------------------------------------------------------------
(* The steps of a call, as a suite sees them *)

\* Nothing the suites depend on changes.
Quiet == UNCHANGED <<lazy, free_pages, len, current_chunk_idx, map, resident, exited>>

\* A page is answered from, stored to or dropped; more pages are not lazy.
SameIndex == /\ UNCHANGED <<free_pages, len, current_chunk_idx, map, exited>>
             /\ \A s \in Slot : lazy'[s] => lazy[s]

\* The program ends, in lazyfree_read_unlock.
Ends == /\ pc' = pc /\ exited' # "no"
        /\ UNCHANGED <<lazy, free_pages, len, current_chunk_idx, map, resident>>

GetMove ==
    \/ Quiet /\ pc = "get_locked" /\ pc' = "get_found" /\ Checks
    \/ Quiet /\ pc = "get_locked" /\ pc' = "get_missed" /\ ~Checks
    \/ Quiet /\ pc = "get_found" /\ pc' = "get_copied"
    \/ Quiet /\ pc = "get_copied" /\ pc' = "get_checked"
    \/ Quiet /\ pc = "get_copied" /\ pc' = "exited" /\ ~Checks
    \/ Quiet /\ pc = "get_missed" /\ pc' = "get_refilled"
    \/ Ends /\ pc = "get_checked" /\ ~Checks
    \/ /\ SameIndex /\ pc \in {"get_checked", "get_stored"} /\ pc' = "got"
       /\ resident' = IF reclaimed THEN {} ELSE resident \cup {key}
    \/ SameIndex /\ pc = "get_wlocked" /\ pc' = "get_stored" /\ resident' = resident

AllocMove ==
    /\ pc = "get_refilled" /\ pc' = "get_wlocked" /\ exited' = exited
    /\ wlock = EMPTY_DESC /\ key \in Key
    /\ AllocNext(key) \/ AllocEvicting(key)
    /\ resident' = {k \in resident : Evicts => map[k][1] # current_chunk_idx'}
    /\ map'[key] # EMPTY_DESC
    /\ \A k \in Key \ {key} : map'[k] \in {map[k], EMPTY_DESC}

DropMove ==
    \/ Quiet /\ pc = "drop_locked" /\ pc' = "drop_found" /\ Checks
    \/ Ends /\ pc = "drop_found" /\ ~Checks
    \/ SameIndex /\ pc = "drop_locked" /\ pc' = "absent" /\ resident' = resident \ {key} /\ ~Checks
    \/ /\ pc = "drop_found" /\ pc' = "dropped" /\ resident' = resident \ {key}
       /\ exited' = exited /\ lazy' = lazy
       /\ map'[key] = EMPTY_DESC
       /\ \A k \in Key : map'[k] \in {map[k], EMPTY_DESC}

\* A step of ft_cache_get.
LEMMA GetMoves ==
    ASSUME NonzeroKeys, FtInv, Running, Get
    PROVE  (GetMove \/ AllocMove) /\ UNCHANGED <<key, reclaimed>>
  <1>1. CASE GetLookup
    BY <1>1 DEF GetLookup, GetMove, Quiet, vars, memVars, cacheVars, history, Goto
  <1>2. CASE GetCopy
    BY <1>2 DEF GetCopy, GetMove, Quiet, vars, memVars, cacheVars, history, Goto
  <1>3. CASE GetCheck
    BY <1>3 DEF GetCheck, GetMove, Quiet, vars, memVars, cacheVars, history, Goto
  <1>4. CASE GetRefill
    BY <1>4 DEF GetRefill, GetMove, Quiet, vars, memVars, cacheVars, history, Goto
  <1>5. CASE GetUnlock
    <2>1. CASE ReadUnlockKeep(lock) /\ GetReturn /\ UNCHANGED stale
      BY <1>5, <2>1 DEF GetUnlock, ReadUnlockKeep, GetReturn, GetMove, SameIndex, memVars, cacheVars, Goto
    <2>2. CASE ReadUnlockExits(lock) /\ UNCHANGED ftVars
      <3>1. ~Checks
        BY <2>2 DEF ReadUnlockExits, Checks
      <3> QED
        BY <1>5, <2>2, <3>1
           DEF GetUnlock, ReadUnlockExits, Exit, GetMove, Ends, memVars, cacheVars, ftVars, history
    <2> QED
      BY <1>5, <2>1, <2>2 DEF GetUnlock
  <1>6. CASE GetWriteLock
    <2>0. ~AllocFails /\ exited = "no"
      BY NeverFails DEF FtInv, Running
    <2>2. /\ WriteLockMiss(lock) \/ WriteLockLost(lock)
          /\ key \in Key /\ wlock = EMPTY_DESC /\ locks[lock].key = key
      BY <1>6, CallPage DEF GetWriteLock, Reading
    <2>3. (AllocNext(key) \/ AllocEvicting(key)) /\ exited' = exited
      BY <2>0, <2>2 DEF WriteLockMiss, WriteLockLost, WriteAlloc, AllocNext, AllocEvicting
    <2>1. /\ pc = "get_refilled" /\ pc' = "get_wlocked" /\ UNCHANGED <<key, reclaimed>>
          /\ resident' = {k \in resident : Evicts => map[k][1] # current_chunk_idx'}
      BY <1>6, <2>0, <2>3 DEF GetWriteLock, Goto
    <2>4. AllocEffect(key)
      BY <2>2, <2>3, Basics, AllocIndex
    <2> QED
      BY <2>1, <2>2, <2>3, <2>4, SlotFacts DEF AllocEffect, AllocMove
  <1>7. CASE GetStore
    <2>1. wlock \in Slot /\ lazy \in [Slot -> BOOLEAN]
      BY <1>7, WritePages, Basics DEF GetStore, Writing, TypeOK, MemTypeOK
    <2> QED
      BY <1>7, <2>1 DEF GetStore, WritePage, StoreTail, GetMove, SameIndex, cacheVars, history, Goto
  <1>8. CASE GetWriteUnlock
    <2>1. wlock \in Slot /\ lazy \in [Slot -> BOOLEAN]
      BY <1>8, WritePages, Basics DEF GetWriteUnlock, Writing, TypeOK, MemTypeOK
    <2> QED
      BY <1>8, <2>1 DEF GetWriteUnlock, WriteUnlockKeep, GetReturn, StoreTail, GetMove, SameIndex, Goto
  <1> QED
    BY <1>1, <1>2, <1>3, <1>4, <1>5, <1>6, <1>7, <1>8 DEF Get

\* A step of ft_cache_drop.
LEMMA DropMoves ==
    ASSUME NonzeroKeys, FtInv, Running, Drop
    PROVE  DropMove /\ UNCHANGED <<key, reclaimed>>
  <1>1. CASE DropLookup
    BY <1>1 DEF DropLookup, DropReturn, DropMove, Quiet, SameIndex, vars, memVars, cacheVars, history, Goto
  <1>2. CASE DropUnlock
    <2>1. CASE ReadUnlockExits(lock) /\ UNCHANGED ftVars
      <3>1. ~Checks
        BY <2>1 DEF ReadUnlockExits, Checks
      <3> QED
        BY <1>2, <2>1, <3>1
           DEF DropUnlock, ReadUnlockExits, Exit, DropMove, Ends, memVars, cacheVars, ftVars, history
    <2>2. CASE ReadUnlockDrop(lock) /\ DropReturn("dropped")
      <3>1. /\ pc = "drop_found" /\ pc' = "dropped" /\ resident' = resident \ {key}
            /\ UNCHANGED <<key, reclaimed>>
        BY <1>2, <2>2 DEF DropUnlock, DropReturn, Goto
      <3>2. key \in Key /\ locks[lock].key = key /\ key # ZeroKey
        BY <3>1, CallPage DEF Reading, NonzeroKeys
      <3>3. keys[locks[lock].head] = key /\ locks[lock].head \in Slot /\ LockValid(lock)
        BY <2>2, <3>2, Basics, ValidHead DEF ReadUnlockDrop, LockValid
      <3>4. ~CacheDropOverruns(locks[lock].head)
        BY <3>2, <3>3, Basics, DropFits
      <3>5. /\ map' = HmapRemove({key}) /\ UNCHANGED <<lazy, exited>>
        BY <2>2, <3>3, <3>4 DEF ReadUnlockDrop, CacheDrop, memVars
      <3> QED
        BY <3>1, <3>2, <3>5 DEF HmapRemove, DropMove
    <2> QED
      BY <1>2, <2>1, <2>2 DEF DropUnlock
  <1> QED
    BY <1>1, <1>2 DEF Drop

\* The call of the current command.
LEMMA CallFacts ==
    ASSUME TestInv, ~Idling
    PROVE  /\ ~Done /\ cmd \in Entries /\ Command.set \in DOMAIN Cnt
           /\ i \in Nat \ {0} /\ i <= Calls /\ i - 1 \in Nat
           /\ IF pc \in {"drop_locked", "drop_found"} THEN Command.op \in Dropping
              ELSE Command.op \in Getting
           /\ Command.op \in Dropping \cup Loading =>
                  key = KeyOf(Command.set, i - 1) /\ i - 1 \in Indices(Cnt[Command.set])
           /\ Command.op \in Rereading => key \in KeysOf(Command.set)
           /\ Command.op \in Getting \ Loading => \E s \in Seen : key \in KeysOf(s)
           /\ Command.op \in Getting => \A s \in Gone : key \notin KeysOf(s)
           /\ Getting \cap Dropping = {}
  <1>1. /\ suite \in DOMAIN Script /\ cmd \in 1 .. Len(Script[suite]) + 1
        /\ i \in Nat /\ (~Done => i <= Calls) /\ 0 < i /\ ~Done
        /\ Command.op \in Getting \cup Dropping
        /\ Command.op \in Getting => pc \notin {"drop_locked", "drop_found"}
        /\ Command.op \in Dropping => pc \in {"drop_locked", "drop_found"}
        /\ Command.op \in Loading \cup Rereading \cup Dropping => key = KeyOf(Command.set, i - 1)
        /\ Command.op \in Mixing => \E s \in AskedSets(Command) : key \in KeysOf(s)
    BY DEF TestInv, TestTypeOK, PlaceInv, At
  <1>2. /\ cmd \in Entries /\ Command.set \in DOMAIN Cnt
        /\ Command.op # "warm_up" => Calls = Cnt[Command.set]
    BY <1>1, CommandFacts
  <1>3. i - 1 \in Nat /\ i \in Nat \ {0}
    BY <1>1
  <1>4. Command.op # "warm_up" => i - 1 \in Indices(Cnt[Command.set])
    BY <1>1, <1>2, <1>3, Counts DEF Indices
  <1>5. /\ "warm_up" \notin Loading \cup Rereading \cup Dropping /\ Getting \cap Dropping = {}
        /\ Getting = Loading \cup Rereading \cup Mixing
    BY DEF Getting, Loading, Rereading, Mixing, Dropping
  <1>6. Command.op \in Dropping \cup Loading \cup Rereading =>
            key = KeyOf(Command.set, i - 1) /\ i - 1 \in Indices(Cnt[Command.set])
    BY <1>1, <1>4, <1>5
  <1>7. Command.op \in Loading \cup Rereading => key \in KeysOf(Command.set)
    BY <1>6 DEF KeysOf
  <1>8. Command.op \in Getting => \E s \in AskedSets(Command) : key \in KeysOf(s)
    BY <1>1, <1>5, <1>7 DEF AskedSets
  <1>9. Command.op \in Getting \ Loading => \E s \in Seen : key \in KeysOf(s)
    BY <1>1, <1>8, SeenFacts
  <1>10. Command.op \in Getting => \A s \in Gone : key \notin KeysOf(s)
    BY <1>1, <1>8, SeenFacts
  <1> QED
    BY <1>1, <1>2, <1>3, <1>5, <1>6, <1>7, <1>9, <1>10

\* What is the same after a step inside a call.
LEMMA CallFrame ==
    ASSUME NonzeroKeys, TestInv, Running, CallStep
    PROVE  /\ ~Idling /\ UNCHANGED <<key, reclaimed, suite, cmd, i, failed, sets, asked>>
           /\ Done' = Done /\ Command' = Command /\ Seen' = Seen /\ Gone' = Gone /\ Calls' = Calls
           /\ count' = IF pc = "get_missed" THEN count + 1 ELSE count
           /\ \/ GetMove /\ Command.op \in Getting /\ pc \notin {"drop_locked", "drop_found"}
              \/ AllocMove /\ Command.op \in Getting
              \/ DropMove /\ Command.op \in Dropping /\ pc \in {"drop_locked", "drop_found"}
           /\ pc \in Reading \cup Writing
           /\ \A k \in Key : map'[k] # EMPTY_DESC =>
                  map[k] # EMPTY_DESC \/ (k = key /\ pc = "get_refilled" /\ Command.op \in Getting)
  <1>1. UNCHANGED <<suite, cmd, i, failed, sets, asked>> /\ FtInv
        /\ count' = IF pc = "get_missed" THEN count + 1 ELSE count
    BY DEF CallStep, TestInv
  <1>2. /\ Done' = Done /\ Command' = Command /\ Seen' = Seen /\ Gone' = Gone /\ Calls' = Calls
    BY <1>1, SameCommand
  <1>3. \/ (GetMove \/ AllocMove) /\ UNCHANGED <<key, reclaimed>>
        \/ DropMove /\ UNCHANGED <<key, reclaimed>>
    BY <1>1, GetMoves, DropMoves DEF CallStep
  <1>4. /\ GetMove => pc \in {"get_locked", "get_found", "get_copied", "get_checked", "get_missed", "get_stored", "get_wlocked"}
        /\ AllocMove => pc = "get_refilled"
        /\ DropMove => pc \in {"drop_locked", "drop_found"}
    BY DEF GetMove, AllocMove, DropMove, Ends
  <1>5. ~Idling /\ pc \in Reading \cup Writing
    BY <1>3, <1>4 DEF Idling, Reading, Writing
  <1>6. IF pc \in {"drop_locked", "drop_found"} THEN Command.op \in Dropping ELSE Command.op \in Getting
    BY <1>5, CallFacts
  <1>7. \A k \in Key : map'[k] # EMPTY_DESC =>
            map[k] # EMPTY_DESC \/ (k = key /\ pc = "get_refilled" /\ Command.op \in Getting)
    BY <1>3, <1>4, <1>6 DEF GetMove, AllocMove, DropMove, Quiet, Ends, SameIndex
  <1> QED
    BY <1>1, <1>2, <1>3, <1>4, <1>5, <1>6, <1>7

\* A call leaves the loop, the keysets and the counts of its keys alone.
LEMMA CallPlace ==
    ASSUME NonzeroKeys, TestInv, Running, CallStep
    PROVE  PlaceInv' /\ SetsInv' /\ PassesInOrder'
  <1>1. /\ ~Idling /\ UNCHANGED <<key, suite, cmd, i, sets, asked>>
        /\ Done' = Done /\ Command' = Command /\ Seen' = Seen
        /\ GetMove \/ AllocMove \/ DropMove
    BY CallFrame
  <1>2. PlaceInv /\ SetsInv /\ PassesInOrder
    BY DEF TestInv
  <1>3. SetsInv' /\ PassesInOrder'
    BY <1>1, <1>2 DEF SetsInv, PassesInOrder, At
  <1>4. /\ pc' \in {"drop_locked", "drop_found"} => pc \in {"drop_locked", "drop_found"}
        /\ pc \in {"drop_locked", "drop_found"} => pc' \in {"drop_locked", "drop_found", "absent", "dropped"}
    BY <1>1 DEF GetMove, AllocMove, DropMove, Ends
  <1>5. PlaceInv'
    BY <1>1, <1>2, <1>4 DEF PlaceInv, At, Idling
  <1> QED
    BY <1>3, <1>5

\* A call makes pages for its own key only, and a new key is refilled once.
LEMMA CallSeen ==
    ASSUME NonzeroKeys, TestInv, Running, CallStep
    PROVE  SeenInv' /\ MissInv'
  <1>1. /\ ~Idling /\ UNCHANGED <<key, suite, cmd, i>> /\ FtInv
        /\ Done' = Done /\ Command' = Command /\ Seen' = Seen
        /\ count' = IF pc = "get_missed" THEN count + 1 ELSE count
        /\ \/ GetMove
           \/ AllocMove
           \/ DropMove /\ Command.op \in Dropping
        /\ \A k \in Key : map'[k] # EMPTY_DESC =>
               map[k] # EMPTY_DESC \/ (k = key /\ pc = "get_refilled" /\ Command.op \in Getting)
    BY CallFrame DEF TestInv
  <1>2. SeenInv /\ MissInv /\ count \in Nat
    BY DEF TestInv, TestTypeOK
  <1>3. /\ ~Done /\ i \in Nat \ {0} /\ i - 1 \in 0 .. i - 1
        /\ Command.op \in Loading => key = KeyOf(Command.set, i - 1)
        /\ Command.op \in Getting \ Loading => \E s \in Seen : key \in KeysOf(s)
    BY <1>1, CallFacts
  <1>4. SeenInv'
    BY <1>1, <1>2, <1>3 DEF SeenInv, At
  <1>5. ASSUME Command.op \in Loading
        PROVE  /\ pc' \notin {"get_found", "get_copied", "get_checked", "exited"}
               /\ exited' = "no"
               /\ pc' \in {"get_locked", "get_missed", "get_refilled"} => map'[key'] = EMPTY_DESC
               /\ count' = IF pc' \in {"get_locked", "get_missed"} THEN i - 1 ELSE i
    <2>1. /\ pc \notin {"get_found", "get_copied", "get_checked", "exited"} /\ exited = "no"
          /\ pc \in {"get_locked", "get_missed", "get_refilled"} => map[key] = EMPTY_DESC
          /\ count = IF pc \in {"get_locked", "get_missed"} THEN i - 1 ELSE i
      BY <1>2, <1>3, <1>5 DEF MissInv, At
    <2>2. pc = "get_locked" => ~Checks
      BY <1>1, <2>1, CallPage DEF Reading
    <2>3. Command.op \notin Dropping
      BY <1>5 DEF Loading, Dropping
    <2>4. CASE GetMove
      BY <1>1, <1>3, <2>1, <2>2, <2>4 DEF GetMove, Quiet, Ends, SameIndex
    <2>5. CASE AllocMove
      BY <1>1, <2>1, <2>5 DEF AllocMove
    <2> QED
      BY <1>1, <2>3, <2>4, <2>5
  <1>6. MissInv'
    BY <1>1, <1>5 DEF MissInv, At
  <1> QED
    BY <1>4, <1>6

\* A drop leaves no page with its key, and no call brings back a dropped one.
LEMMA CallGone ==
    ASSUME NonzeroKeys, TestInv, Running, CallStep
    PROVE  GoneInv'
  <1>1. /\ ~Idling /\ UNCHANGED <<key, suite, cmd, i, reclaimed>> /\ FtInv /\ GoneInv
        /\ Done' = Done /\ Command' = Command /\ Gone' = Gone
        /\ \/ (GetMove \/ AllocMove) /\ Command.op \in Getting
           \/ DropMove /\ Command.op \in Dropping
        /\ pc \in Reading \cup Writing
        /\ \A k \in Key : map'[k] # EMPTY_DESC =>
               map[k] # EMPTY_DESC \/ (k = key /\ pc = "get_refilled" /\ Command.op \in Getting)
    BY CallFrame DEF TestInv
  <1>2. /\ ~Done /\ i \in Nat \ {0} /\ i - 1 \in Nat /\ Command.set \in DOMAIN Cnt
        /\ Command.op \in Dropping => key = KeyOf(Command.set, i - 1) /\ i <= Cnt[Command.set]
        /\ Command.op \in Getting => \A s \in Gone : key \notin KeysOf(s)
        /\ Getting \cap Dropping = {}
    <2>1. Command.op \in Dropping => i - 1 \in Indices(Cnt[Command.set])
      BY <1>1, CallFacts
    <2>2. Command.set \in DOMAIN Cnt /\ i \in Nat
      BY <1>1, CallFacts
    <2>3. Command.op \in Dropping => i <= Cnt[Command.set]
      BY <2>1, <2>2, Counts DEF Indices
    <2> QED
      BY <1>1, <2>3, CallFacts
  <1>3. \A s \in Gone : KeysOf(s) \subseteq Key
    BY KeysApart DEF Gone, GoneAt
  <1>4. SUFFICES ASSUME ~reclaimed
                 PROVE  /\ \A s \in Gone : \A k \in KeysOf(s) : map'[k] = EMPTY_DESC
                        /\ Command.op \in Dropping =>
                               \A n \in 0 .. Returned' - 1 : map'[KeyOf(Command.set, n)] = EMPTY_DESC
    BY <1>1, <1>2 DEF GoneInv, At
  <1>5. \A s \in Gone : \A k \in KeysOf(s) : map'[k] = EMPTY_DESC
    BY <1>1, <1>2, <1>3, <1>4 DEF GoneInv
  <1>6. ASSUME Command.op \in Dropping, NEW n \in 0 .. Returned' - 1
        PROVE  map'[KeyOf(Command.set, n)] = EMPTY_DESC
    <2>1. DropMove /\ Command.op \notin Getting
      BY <1>1, <1>2, <1>6
    <2>2. Returned = i - 1 /\ Returned' = IF pc' \in {"absent", "dropped"} THEN i ELSE i - 1
      BY <1>1, <2>1 DEF Returned, Idling, DropMove, Ends
    <2>3. n \in 0 .. i - 1 /\ KeyOf(Command.set, n) \in Key
      <3>1. n \in 0 .. i - 1 /\ n \in Indices(Cnt[Command.set])
        BY <1>2, <1>6, <2>2, Counts DEF Indices
      <3> QED
        BY <1>2, <3>1, KeysApart DEF KeysOf
    <2>4. CASE n # i - 1
      <3>1. n \in 0 .. Returned - 1
        BY <1>2, <2>2, <2>3, <2>4
      <3>2. map[KeyOf(Command.set, n)] = EMPTY_DESC
        BY <1>1, <1>2, <1>4, <1>6, <3>1 DEF GoneInv, At
      <3> QED
        BY <1>1, <2>1, <2>3, <3>2
    <2>5. CASE n = i - 1
      <3>1. KeyOf(Command.set, n) = key /\ key \in Key
        BY <1>2, <1>6, <2>3, <2>5
      <3>2. pc' \in {"absent", "dropped"}
        BY <1>2, <1>6, <2>2, <2>5
      <3>3. CASE pc' = "absent"
        <4>1. ~Checks /\ map' = map /\ pc \in Reading
          BY <2>1, <3>3 DEF DropMove, Quiet, Ends, SameIndex, Reading
        <4>2. map[key] = EMPTY_DESC
          BY <1>1, <1>4, <4>1, MissedKey
        <4> QED
          BY <3>1, <4>1, <4>2
      <3>4. CASE pc' = "dropped"
        BY <2>1, <3>1, <3>4 DEF DropMove, Quiet, Ends, SameIndex
      <3> QED
        BY <3>2, <3>3, <3>4
    <2> QED
      BY <2>4, <2>5
  <1> QED
    BY <1>5, <1>6

\* As many keys as are counted.
LEMMA KeysUpTo ==
    ASSUME NEW s, NEW n \in Nat
    PROVE  LET R == {KeyOf(s, m - 1) : m \in 1 .. n}
           IN  IsFiniteSet(R) /\ Cardinality(R) <= n
  <1> DEFINE R == {KeyOf(s, m - 1) : m \in 1 .. n}
             f == [m \in 1 .. n |-> KeyOf(s, m - 1)]
  <1>1. f \in Surjection(1 .. n, R)
    BY Fun_IsSurj
  <1>2. ExistsSurjection(1 .. n, R)
    BY <1>1 DEF ExistsSurjection
  <1>3. IsFiniteSet(1 .. n) /\ Cardinality(1 .. n) = n
    BY FS_Interval
  <1> HIDE DEF f, R
  <1>4. IsFiniteSet(R)
    BY <1>1, <1>3, FS_Surjection
  <1>5. Cardinality(R) <= n
    BY <1>2, FS_SurjCardinalityBound
  <1> QED
    BY <1>4, <1>5 DEF R

\* A set that fits into the cache is loaded without an eviction, when all
\* other sets were dropped.
LEMMA NoEvict ==
    ASSUME NonzeroKeys, TestInv, ~reclaimed, At(Loading), Seen \subseteq Gone,
           Cnt[Command.set] <= NumEntries, pc = "get_refilled"
    PROVE  ~Evicts
  <1>1. ~Idling /\ FtInv /\ SeenInv /\ MissInv /\ GoneInv
    BY DEF Idling, TestInv
  <1>2. /\ i \in Nat \ {0} /\ i - 1 \in Nat /\ i <= Cnt[Command.set] /\ Command.set \in DOMAIN Cnt
        /\ key = KeyOf(Command.set, i - 1)
    <2>1. Command.op \in Loading
      BY DEF At
    <2>2. key = KeyOf(Command.set, i - 1) /\ i - 1 \in Indices(Cnt[Command.set])
      BY <1>1, <2>1, CallFacts
    <2>3. Command.set \in DOMAIN Cnt /\ i \in Nat \ {0}
      BY <1>1, CallFacts
    <2> QED
      BY <2>2, <2>3, Counts DEF Indices
  <1>3. map[key] = EMPTY_DESC
    BY <1>1 DEF MissInv
  <1>4. resident = {k \in Key : map[k] \notin {EMPTY_DESC, wlock}}
    BY <1>1 DEF FtInv, ResidentInv
  <1> DEFINE R == {KeyOf(Command.set, m - 1) : m \in 1 .. i - 1}
  <1>5. ASSUME NEW k \in resident
        PROVE  k \in R
    <2>1. k \in Key /\ map[k] # EMPTY_DESC
      BY <1>4
    <2>2. ~\E s \in Seen : k \in KeysOf(s)
      BY <1>1, <2>1 DEF GoneInv
    <2>3. PICK n \in 0 .. i - 1 : k = KeyOf(Command.set, n)
      BY <1>1, <2>1, <2>2 DEF SeenInv
    <2>4. n # i - 1
      BY <1>2, <1>3, <2>1, <2>3
    <2>5. n + 1 \in 1 .. i - 1 /\ n = (n + 1) - 1
      BY <1>2, <2>3, <2>4
    <2> QED
      BY <2>3, <2>5
  <1>6. IsFiniteSet(R) /\ Cardinality(R) <= i - 1
    BY <1>2, KeysUpTo
  <1>7. Cardinality(resident) <= Cardinality(R) /\ Cardinality(resident) \in Nat /\ Cardinality(R) \in Nat
    <2> HIDE DEF R
    <2>1. resident \in SUBSET R
      BY <1>5
    <2> QED
      BY <1>6, <2>1, FS_Subset, FS_CardinalityType
  <1>8. Cnt[Command.set] \in Nat /\ NumEntries \in Nat /\ Cardinality(Slot) = NumEntries
    BY <1>2, Counts, SlotsFinite
  <1>9. wlock = EMPTY_DESC
    BY <1>1, CallPage DEF Reading
  <1>10. Evicts => Cardinality(resident) = Cardinality(Slot)
    BY <1>1, <1>9, FullOfResidents
  <1> QED
    BY <1>2, <1>6, <1>7, <1>8, <1>10

\* Keys of a set that fits are refilled once, and then hit until they are dropped.
LEMMA CallKept ==
    ASSUME NonzeroKeys, TestInv, Running, CallStep
    PROVE  KeptInv'
  <1>1. /\ ~Idling /\ UNCHANGED <<key, suite, cmd, i, reclaimed>> /\ FtInv /\ KeptInv
        /\ Done' = Done /\ Command' = Command /\ Gone' = Gone /\ Seen' = Seen
        /\ \/ GetMove /\ Command.op \in Getting
           \/ AllocMove /\ Command.op \in Getting
           \/ DropMove /\ Command.op \in Dropping
        /\ count' = IF pc = "get_missed" THEN count + 1 ELSE count
    BY CallFrame DEF TestInv
  <1>2. /\ ~Done /\ i \in Nat \ {0} /\ i - 1 \in Nat /\ Command.set \in DOMAIN Cnt
        /\ Command.op \in Dropping \cup Loading =>
               key = KeyOf(Command.set, i - 1) /\ i - 1 \in Indices(Cnt[Command.set])
        /\ Command.op \in Rereading => key \in KeysOf(Command.set)
        /\ Getting \cap Dropping = {} /\ "smoke_drop" \in Dropping
        /\ Loading \cap Dropping = {} /\ Rereading \cap Dropping = {}
        /\ Command.op = "smoke_drop" => Command.set = "smoke"
    BY <1>1, CallFacts, CommandFacts
       DEF Getting, Dropping, Loading, Rereading, Smoking, TestInv, TestTypeOK
  <1>3. SUFFICES ASSUME ~reclaimed
                 PROVE  /\ Command.op \in Loading /\ Seen \subseteq Gone /\ Cnt[Command.set] <= NumEntries =>
                               \A n \in 0 .. Returned' - 1 : KeyOf(Command.set, n) \in resident'
                        /\ Command.op \in Rereading /\ Cnt[Command.set] <= NumEntries =>
                               /\ KeysOf(Command.set) \subseteq resident'
                               /\ pc' \notin {"get_missed", "get_refilled", "get_wlocked", "get_stored"}
                               /\ Command.op = "second_pass" => count' = 0
                        /\ Command.op = "smoke_drop" =>
                               /\ \A n \in Returned' .. Cnt.smoke - 1 : KeyOf("smoke", n) \in resident'
                               /\ pc' # "absent"
    BY <1>1 DEF KeptInv, At
  <1>4. ASSUME Command.op \in Loading, Seen \subseteq Gone, Cnt[Command.set] <= NumEntries,
               NEW n \in 0 .. Returned' - 1
        PROVE  KeyOf(Command.set, n) \in resident'
    <2>1. \A m \in 0 .. i - 2 : KeyOf(Command.set, m) \in resident
      <3>1. Returned = i - 1
        BY <1>1 DEF Returned
      <3> QED
        BY <1>1, <1>2, <1>3, <1>4, <3>1 DEF KeptInv, At
    <2>2. CASE pc' = "got"
      <3>1. resident' = resident \cup {key} /\ Returned' = i
        BY <1>1, <1>2, <1>3, <1>4, <2>2 DEF GetMove, AllocMove, Ends, Returned, Idling
      <3>2. n = i - 1 \/ n \in 0 .. i - 2
        BY <1>2, <3>1
      <3> QED
        BY <1>2, <1>4, <2>1, <3>1, <3>2
    <2>3. CASE pc' # "got"
      <3>1. resident' = resident
        <4>1. CASE AllocMove
          BY <4>1, <1>3, <1>4, <1>2, NoEvict DEF AllocMove, At, KeptInv, TestInv, FtInv, FtTypeOK
        <4>2. CASE GetMove
          BY <2>3, <4>2 DEF GetMove, Quiet, Ends
        <4> QED
          BY <1>1, <1>2, <1>4, <4>1, <4>2
      <3>2. Returned' = i - 1
        BY <1>1, <1>2, <1>4, <2>3 DEF GetMove, AllocMove, Ends, Returned, Idling
      <3> QED
        BY <1>2, <2>1, <3>1, <3>2
    <2> QED
      BY <2>2, <2>3
  <1>5. ASSUME Command.op \in Rereading, Cnt[Command.set] <= NumEntries
        PROVE  /\ KeysOf(Command.set) \subseteq resident'
               /\ pc' \notin {"get_missed", "get_refilled", "get_wlocked", "get_stored"}
               /\ Command.op = "second_pass" => count' = 0
    <2>1. /\ KeysOf(Command.set) \subseteq resident
          /\ pc \notin {"get_missed", "get_refilled", "get_wlocked", "get_stored"}
          /\ Command.op = "second_pass" => count = 0
      BY <1>1, <1>2, <1>3, <1>5 DEF KeptInv, At
    <2>2. GetMove
      BY <1>1, <1>2, <1>5, <2>1 DEF AllocMove
    <2>3. pc = "get_locked" => Checks
      BY <1>1, <1>2, <1>3, <1>5, <2>1, MissedKey DEF Reading
    <2> QED
      BY <1>1, <1>3, <2>1, <2>2, <2>3 DEF GetMove, Quiet, Ends
  <1>6. ASSUME Command.op = "smoke_drop"
        PROVE  /\ \A n \in Returned' .. Cnt.smoke - 1 : KeyOf("smoke", n) \in resident'
               /\ pc' # "absent"
    <2>1. DropMove
      BY <1>1, <1>2, <1>6
    <2>2. /\ Returned = i - 1 /\ Returned' = IF pc' \in {"absent", "dropped"} THEN i ELSE i - 1
          /\ pc \in Reading
      BY <1>1, <2>1 DEF Returned, Idling, DropMove, Ends, Reading
    <2>3. \A n \in i - 1 .. Cnt.smoke - 1 : KeyOf("smoke", n) \in resident
      BY <1>1, <1>2, <1>3, <1>6, <2>2 DEF KeptInv, At
    <2>4. key = KeyOf("smoke", i - 1) /\ i - 1 \in 0 .. Cnt.smoke - 1 /\ Cnt.smoke \in Nat
      BY <1>2, <1>6, Counts DEF Indices
    <2>5. key \in resident
      BY <2>3, <2>4
    <2>6. Checks
      BY <1>1, <1>3, <2>2, <2>5, MissedKey
    <2>7. pc' # "absent"
      BY <2>1, <2>6 DEF DropMove, Ends
    <2>8. CASE pc' = "dropped"
      <3>1. resident' = resident \ {key} /\ Returned' = i
        BY <2>1, <2>2, <2>8 DEF DropMove, Ends
      <3>2. ASSUME NEW n \in i .. Cnt.smoke - 1
            PROVE  KeyOf("smoke", n) \in resident'
        <4>1. n \in i - 1 .. Cnt.smoke - 1 /\ n # i - 1 /\ n \in Int
          BY <1>2, <2>4
        <4>2. KeyOf("smoke", n) # key
          BY <2>4, <4>1, KeysApart, Counts
        <4> QED
          BY <2>3, <3>1, <4>1, <4>2
      <3> QED
        BY <2>7, <3>1, <3>2
    <2>9. CASE pc' # "dropped"
      BY <2>1, <2>2, <2>3, <2>7, <2>9 DEF DropMove, Quiet, Ends
    <2> QED
      BY <2>8, <2>9
  <1> QED
    BY <1>4, <1>5, <1>6

\* While the smoke test fills the first chunk, a new page is the chunk's next.
LEMMA FirstChunk ==
    ASSUME NonzeroKeys, TestInv, ~reclaimed, At({"smoke_fill"}), AllocMove
    PROVE  /\ current_chunk_idx' = 0 /\ UNCHANGED <<free_pages, lazy>>
           /\ len' = [len EXCEPT ![0] = @ + 1]
  <1>1. /\ ~Idling /\ pc = "get_refilled" /\ FtInv /\ SmokeInv
        /\ suite \in DOMAIN Script /\ cmd \in 1 .. Len(Script[suite]) + 1
    BY DEF AllocMove, Idling, TestInv, TestTypeOK
  <1>2. /\ ~Done /\ Command.op = "smoke_fill" /\ Command.set = "smoke" /\ At(Loading)
    BY <1>1, CommandFacts DEF At, Smoking, Loading
  <1>3. NumChunks \in Nat \ {0} /\ PagesPerChunk \in Nat \ {0} /\ 0 \in Chunk
    BY ChunksAssumption, PagesAssumption DEF Chunk
  <1>4. Cnt[Command.set] <= NumEntries /\ Cnt[Command.set] <= PagesPerChunk /\ Cnt[Command.set] \in Nat
    <2>1. PagesPerChunk <= NumChunks * PagesPerChunk
      BY <1>3
    <2> QED
      BY <1>2, <1>3, <2>1, Counts
  <1>5. i \in Nat \ {0} /\ i <= Cnt[Command.set]
    BY <1>1, <1>2, CallFacts, CommandFacts DEF Getting, Loading
  <1>6. Seen \subseteq Gone
    <2>1. cmd \in 1 .. Len(Script[suite]) /\ Script[suite][cmd].op = "smoke_fill"
      BY <1>1, <1>2, CommandFacts DEF Entries, Entry
    <2>2. Shape(Script[suite]) /\ Len(Script[suite]) \in Nat
      BY <1>1, SuiteFacts
    <2>3. \A c \in 1 .. Len(Script[suite]) : Script[suite][c].op = "smoke_fill" => c = 1
      BY <2>2 DEF Shape
    <2>4. cmd = 1
      BY <2>1, <2>3
    <2>5. ASSUME NEW d \in Entries, d < cmd \/ (d = cmd /\ Entry(d).op \notin Loading)
          PROVE  FALSE
      BY <2>1, <2>2, <2>4, <2>5 DEF Entries, Entry, Loading
    <2> QED
      BY <2>5 DEF Seen, SeenAt
  <1>7. /\ current_chunk_idx = 0 /\ free_pages = [c \in Chunk |-> << >>]
        /\ len = [c \in Chunk |-> IF c # 0 THEN 0 ELSE i - 1]
    BY <1>1 DEF SmokeInv
  <1>8. AllocNext(key)
    BY <1>1, <1>2, <1>4, <1>6, NoEvict DEF AllocMove, AllocEvicting, Evicts
  <1>9. PICK n \in 0 .. NumChunks - 1 :
            /\ Available(Ahead(n)) /\ \A m \in 0 .. n - 1 : ~Available(Ahead(m))
            /\ MadvImpl({Ahead(m) : m \in 0 .. n - 1})
            /\ current_chunk_idx' = Ahead(n)
            /\ \/ Len(free_pages[Ahead(n)]) > 0
               \/ /\ len' = [len EXCEPT ![Ahead(n)] = @ + 1]
                  /\ free_pages' = free_pages
    BY <1>8 DEF AllocNext
  <1>10. Ahead(0) = 0 /\ Available(Ahead(0))
    <2>1. Ahead(0) = 0
      BY <1>3, <1>7 DEF Ahead
    <2>2. len[0] = i - 1 /\ i - 1 < PagesPerChunk
      BY <1>3, <1>4, <1>5, <1>7
    <2> QED
      BY <2>1, <2>2 DEF Available
  <1>11. n = 0
    <2>1. n # 0 => 0 \in 0 .. n - 1
      BY <1>3
    <2> QED
      BY <1>9, <1>10, <2>1
  <1>12. {Ahead(m) : m \in 0 .. n - 1} = {}
    BY <1>11
  <1>13. lazy' = lazy
    BY <1>1, <1>9, <1>12, Basics DEF MadvImpl, TypeOK, MemTypeOK
  <1>14. Len(free_pages[Ahead(n)]) = 0
    BY <1>3, <1>7, <1>10, <1>11
  <1> QED
    BY <1>9, <1>10, <1>11, <1>13, <1>14

\* The calls of the smoke test fill the first chunk, page by page.
LEMMA CallSmoke ==
    ASSUME NonzeroKeys, TestInv, Running, CallStep
    PROVE  SmokeInv'
  <1>1. /\ ~Idling /\ UNCHANGED <<key, suite, cmd, i, reclaimed>> /\ FtInv /\ SmokeInv
        /\ Done' = Done /\ Command' = Command
        /\ \/ GetMove /\ Command.op \in Getting
           \/ AllocMove /\ Command.op \in Getting
           \/ DropMove /\ Command.op \in Dropping
        /\ count' = IF pc = "get_missed" THEN count + 1 ELSE count
    BY CallFrame DEF TestInv
  <1>2. /\ ~Done /\ i \in Nat \ {0} /\ Getting \cap Dropping = {}
        /\ suite \in DOMAIN Script /\ cmd \in 1 .. Len(Script[suite]) + 1
    BY <1>1, CallFacts DEF TestInv, TestTypeOK
  <1>3. ASSUME Command.op \in {"smoke_read", "smoke_drop"}
        PROVE  pc \notin {"get_missed", "get_refilled"}
    <2>1. CASE Command.op = "smoke_read"
      <3>1. ~reclaimed /\ Command.set = "smoke" /\ At(Rereading)
        BY <1>1, <1>2, <2>1, CommandFacts DEF SmokeInv, At, Smoking, Rereading
      <3>2. Cnt[Command.set] <= NumEntries
        <4>1. NumChunks \in Nat \ {0} /\ PagesPerChunk \in Nat \ {0}
          BY ChunksAssumption, PagesAssumption
        <4>2. PagesPerChunk <= NumChunks * PagesPerChunk
          BY <4>1
        <4> QED
          BY <3>1, <4>1, <4>2, Counts
      <3> QED
        BY <3>1, <3>2 DEF KeptInv, TestInv
    <2>2. CASE Command.op = "smoke_drop"
      BY <1>1, <2>2, CallFacts DEF Dropping
    <2> QED
      BY <1>3, <2>1, <2>2
  <1>4. ASSUME Command.op \in Smoking
        PROVE  ~reclaimed' /\ \A s \in Slot : ~lazy'[s]
    <2>1. ~reclaimed /\ \A s \in Slot : ~lazy[s]
      BY <1>1, <1>2, <1>4 DEF SmokeInv, At
    <2>2. CASE AllocMove
      <3>1. Command.op = "smoke_fill"
        BY <1>3, <1>4, <2>2 DEF AllocMove, Smoking
      <3>2. lazy' = lazy
        BY <1>2, <2>1, <2>2, <3>1, FirstChunk DEF At
      <3> QED
        BY <1>1, <2>1, <3>2
    <2>3. CASE GetMove \/ DropMove
      BY <1>1, <2>1, <2>3 DEF GetMove, DropMove, Quiet, SameIndex, Ends
    <2> QED
      BY <1>1, <2>2, <2>3
  <1>5. Command.op \in {"smoke_read", "smoke_drop"} => count' = SmokeTestCnt
    BY <1>1, <1>2, <1>3 DEF SmokeInv, At
  <1>6. ASSUME Command.op = "smoke_fill"
        PROVE  /\ current_chunk_idx' = 0
               /\ free_pages' = [c \in Chunk |-> << >>]
               /\ len' = [c \in Chunk |->
                     IF c # 0 THEN 0
                     ELSE IF Idling' \/ pc' \in {"get_wlocked", "get_stored"} THEN i ELSE i - 1]
    <2>1. /\ current_chunk_idx = 0 /\ free_pages = [c \in Chunk |-> << >>]
          /\ len = [c \in Chunk |->
                IF c # 0 THEN 0
                ELSE IF Idling \/ pc \in {"get_wlocked", "get_stored"} THEN i ELSE i - 1]
          /\ ~reclaimed
      BY <1>1, <1>2, <1>6 DEF SmokeInv, At, Smoking
    <2>2. pc \notin {"get_checked", "drop_locked", "drop_found"}
      BY <1>1, <1>2, <1>6, CallFacts DEF MissInv, TestInv, At, Loading, Getting
    <2>3. CASE AllocMove
      <3>1. current_chunk_idx' = 0 /\ free_pages' = free_pages /\ len' = [len EXCEPT ![0] = @ + 1]
        BY <1>2, <1>6, <2>1, <2>3, FirstChunk DEF At
      <3>2. pc = "get_refilled" /\ pc' = "get_wlocked"
        BY <2>3 DEF AllocMove
      <3>3. len = [c \in Chunk |-> IF c # 0 THEN 0 ELSE i - 1]
        BY <1>1, <2>1, <3>2
      <3>4. 0 \in Chunk /\ (i - 1) + 1 = i
        BY <1>2, ChunksAssumption DEF Chunk
      <3>5. len' = [c \in Chunk |-> IF c # 0 THEN 0 ELSE i]
        BY <3>1, <3>3, <3>4
      <3> QED
        BY <2>1, <3>1, <3>2, <3>5
    <2>4. CASE GetMove
      <3>1. UNCHANGED <<current_chunk_idx, free_pages, len>>
        BY <2>4 DEF GetMove, Quiet, SameIndex, Ends
      <3>2. Idling' \/ pc' \in {"get_wlocked", "get_stored"} <=> pc \in {"get_wlocked", "get_stored"}
        BY <1>1, <2>2, <2>4 DEF GetMove, Ends, Idling
      <3> QED
        BY <1>1, <2>1, <3>1, <3>2
    <2> QED
      BY <1>1, <1>2, <1>6, <2>3, <2>4 DEF Getting, Dropping
  <1> QED
    BY <1>1, <1>4, <1>5, <1>6 DEF SmokeInv, At

----------------------------------------------------------------------------
(* The start of a call *)

\* One key is asked for: the next of the order, which is a new one after a
\* shuffle.
LEMMA NextKey ==
    ASSUME NEW c \in Nat \ {0}, NEW set \in KeysetOf(c), NEW p \in Orders(set)
    PROVE  /\ p \in [Indices(c) -> Indices(c)] /\ IsInjective(p)
           /\ set.pos \in Indices(c) /\ p[set.pos] \in Indices(c)
           /\ ~set.shuffled => p = set.permutation
           /\ AfterGet(set, p) =
                  [permutation |-> p, pos |-> IF set.pos + 1 = c THEN 0 ELSE set.pos + 1,
                   shuffled |-> set.pos + 1 = c]
           /\ AfterGet(set, p) \in KeysetOf(c)
           /\ CntOf(set) = c
  <1>1. /\ set.permutation \in [Indices(c) -> Indices(c)] /\ IsInjective(set.permutation)
        /\ set.pos \in Indices(c) /\ set.shuffled \in BOOLEAN
    BY DEF KeysetOf
  <1>2. p \in [Indices(c) -> Indices(c)] /\ IsInjective(p) /\ (~set.shuffled => p = set.permutation)
    <2>1. CASE set.shuffled
      <3>1. p \in [DOMAIN set.permutation -> Range(set.permutation)] /\ IsInjective(p)
        BY <2>1 DEF Orders, RandomOrders
      <3>2. Range(set.permutation) \subseteq Indices(c) /\ DOMAIN set.permutation = Indices(c)
        BY <1>1 DEF Range
      <3> QED
        BY <2>1, <3>1, <3>2
    <2>2. CASE ~set.shuffled
      BY <1>1, <2>2 DEF Orders
    <2> QED
      BY <2>1, <2>2
  <1>3. CntOf(set) = c
    <2>1. Cardinality(0 .. c - 1) = c
      BY FS_Interval
    <2> QED
      BY <1>1, <2>1 DEF CntOf, Indices
  <1>4. set.pos \in 0 .. c - 1
    BY <1>1 DEF Indices
  <1>5. (set.pos + 1) % c = IF set.pos + 1 = c THEN 0 ELSE set.pos + 1
    <2>1. CASE set.pos + 1 = c
      BY <2>1, <1>4
    <2>2. CASE set.pos + 1 # c
      BY <2>2, <1>4
    <2> QED
      BY <2>1, <2>2
  <1>6. AfterGet(set, p) =
            [permutation |-> p, pos |-> IF set.pos + 1 = c THEN 0 ELSE set.pos + 1,
             shuffled |-> set.pos + 1 = c]
    BY <1>3, <1>5 DEF AfterGet
  <1>7. (IF set.pos + 1 = c THEN 0 ELSE set.pos + 1) \in Indices(c)
    BY <1>4 DEF Indices
  <1>8. AfterGet(set, p) \in KeysetOf(c)
    BY <1>2, <1>6, <1>7 DEF KeysetOf
  <1> QED
    BY <1>1, <1>2, <1>3, <1>6, <1>8

\* A call of testlib_get_one for a key of set s.
Asks(s, p) ==
    /\ p \in Orders(sets[s])
    /\ key' = KeyOf(s, p[sets[s].pos])
    /\ asked' = [asked EXCEPT ![key'] = @ + 1]
    /\ sets' = [sets EXCEPT ![s] = AfterGet(@, p)]

CallStart == SmokeGet \/ SmokeDrop \/ GetAll \/ WarmUp \/ DropAll

\* What is the same after a loop has made its next call, and what the call is.
LEMMA StartFrame ==
    ASSUME TestInv, Running, CallStart
    PROVE  /\ Idling /\ ~Done /\ ~Idling' /\ i \in Nat /\ i' = i + 1 /\ i < Calls
           /\ UNCHANGED <<suite, cmd, count, failed, reclaimed, resident>>
           /\ UNCHANGED <<map, lazy, free_pages, len, current_chunk_idx, exited>>
           /\ Done' = Done /\ Command' = Command /\ Seen' = Seen /\ Gone' = Gone /\ Calls' = Calls
           /\ \/ Command.op \in Dropping /\ DropStart(key') /\ pc' = "drop_locked"
              \/ Command.op \in Getting /\ GetStart(key') /\ pc' = "get_locked"
           /\ \/ /\ Command.op \in Smoking \cup {"drop_all"} /\ UNCHANGED <<sets, asked>>
                 /\ key' = KeyOf(Command.set, i)
              \/ /\ Command.op \in Passes \cup {"warm_up"}
                 /\ \E s \in AskedSets(Command) \cap Keysets : \E p : Asks(s, p)
           /\ Command.op # "warm_up" => i \in Indices(Cnt[Command.set])
  <1>1. /\ suite \in DOMAIN Script /\ cmd \in 1 .. Len(Script[suite]) + 1 /\ i \in Nat
    BY DEF TestInv, TestTypeOK
  <1>2. ~Done /\ i' = i + 1 /\ i < Calls /\ UNCHANGED <<suite, cmd, count, failed>>
    BY DEF CallStart, SmokeGet, SmokeDrop, GetAll, WarmUp, DropAll, NextCall, At
  <1>3. /\ \/ Command.op \in Dropping /\ DropStart(key')
           \/ Command.op \in Getting /\ GetStart(key')
        /\ \/ /\ Command.op \in Smoking \cup {"drop_all"} /\ UNCHANGED <<sets, asked>>
              /\ key' = KeyOf(Command.set, i)
           \/ /\ Command.op \in Passes \cup {"warm_up"}
              /\ \E s \in AskedSets(Command) \cap Keysets : \E p : Asks(s, p)
    <2>1. CASE SmokeGet
      <3>1. Command.op \in {"smoke_fill", "smoke_read"} /\ GetStart(KeyOf("smoke", i))
            /\ UNCHANGED <<sets, asked>>
        BY <2>1 DEF SmokeGet, NextCall, At
      <3>2. Command.set = "smoke"
        BY <1>1, <1>2, <3>1, CommandFacts DEF Smoking
      <3>3. key' = KeyOf("smoke", i)
        BY <3>1 DEF GetStart
      <3> QED
        BY <3>1, <3>2, <3>3 DEF Getting, Loading, Rereading, Smoking
    <2>2. CASE SmokeDrop
      <3>1. Command.op = "smoke_drop" /\ DropStart(KeyOf("smoke", i)) /\ UNCHANGED <<sets, asked>>
        BY <2>2 DEF SmokeDrop, NextCall, At
      <3>2. Command.set = "smoke"
        BY <1>1, <1>2, <3>1, CommandFacts DEF Smoking
      <3>3. key' = KeyOf("smoke", i)
        BY <3>1 DEF DropStart
      <3> QED
        BY <3>1, <3>2, <3>3 DEF Dropping, Smoking
    <2>3. CASE DropAll
      <3>1. Command.op = "drop_all" /\ DropStart(KeyOf(Command.set, i)) /\ UNCHANGED <<sets, asked>>
        BY <2>3 DEF DropAll, NextCall, At
      <3>2. key' = KeyOf(Command.set, i)
        BY <3>1 DEF DropStart
      <3> QED
        BY <3>1, <3>2 DEF Dropping
    <2>4. ASSUME NEW s, GetOne(s)
          PROVE  GetStart(key') /\ \E p : Asks(s, p)
      <3>1. PICK p \in Orders(sets[s]) :
                LET k == KeyOf(s, p[sets[s].pos])
                IN  /\ GetStart(k)
                    /\ asked' = [asked EXCEPT ![k] = @ + 1]
                    /\ sets' = [sets EXCEPT ![s] = AfterGet(@, p)]
        BY <2>4 DEF GetOne
      <3>2. key' = KeyOf(s, p[sets[s].pos])
        BY <3>1 DEF GetStart
      <3>3. Asks(s, p)
        BY <3>1, <3>2 DEF Asks
      <3> QED
        BY <3>1, <3>2, <3>3
    <2>5. CASE GetAll
      <3>1. Command.op \in Passes /\ GetOne(Command.set)
        BY <2>5 DEF GetAll, NextCall, At
      <3>2. Command.set \in AskedSets(Command) \cap Keysets /\ Command.op \in Getting
        BY <1>1, <1>2, <3>1, CommandFacts DEF Passes, AskedSets, Getting, Loading, Rereading, Mixing
      <3> QED
        BY <2>4, <3>1, <3>2
    <2>6. CASE WarmUp
      <3>1. Command.op = "warm_up" /\ \E s \in {"hot", "cold"} : GetOne(s)
        BY <2>6 DEF WarmUp, NextCall, At
      <3>2. AskedSets(Command) \cap Keysets = {"hot", "cold"} /\ Command.op \in Getting
        BY <3>1 DEF Keysets, AskedSets, Getting, Mixing
      <3> QED
        BY <2>4, <3>1, <3>2
    <2> QED
      BY <2>1, <2>2, <2>3, <2>5, <2>6 DEF CallStart
  <1>4. /\ Idling /\ UNCHANGED <<memVars, cacheVars, exited, reclaimed, resident>>
        /\ DropStart(key') => pc' = "drop_locked"
        /\ GetStart(key') => pc' = "get_locked"
    BY <1>3 DEF GetStart, DropStart, ReadLock, Goto, history
  <1>5. UNCHANGED <<map, lazy, free_pages, len, current_chunk_idx, exited>>
    BY <1>4 DEF memVars, cacheVars
  <1>6. ~Idling'
    BY <1>3, <1>4 DEF Idling
  <1>7. Command.op # "warm_up" => i \in Indices(Cnt[Command.set])
    <2>1. Command.op # "warm_up" => Calls \in {0, Cnt[Command.set]}
      BY <1>1, <1>2, CommandFacts
    <2>2. Cnt[Command.set] \in Nat
      BY <1>1, <1>2, CommandFacts, Counts
    <2> QED
      BY <1>1, <1>2, <2>1, <2>2 DEF Indices
  <1> QED
    BY <1>1, <1>2, <1>3, <1>4, <1>5, <1>6, <1>7, SameCommand

\* The key a loop asks for is one of the command's, in the order the keyset
\* has.
LEMMA StartPlace ==
    ASSUME TestInv, Running, CallStart
    PROVE  /\ PlaceInv' /\ SetsInv' /\ key' \in Key
           /\ Command.op \in Loading \cup Rereading \cup Dropping => key' = KeyOf(Command.set, i)
           /\ \A s \in Keysets : sets'[s] \in KeysetOf(Cnt[s])
           /\ asked' \in [Key -> Nat]
  <1>1. /\ suite \in DOMAIN Script /\ cmd \in 1 .. Len(Script[suite]) + 1 /\ i \in Nat
        /\ \A s \in Keysets : sets[s] \in KeysetOf(Cnt[s])
        /\ asked \in [Key -> Nat] /\ SetsInv
    BY DEF TestInv, TestTypeOK
  <1>2. /\ Idling /\ ~Done /\ ~Idling' /\ i' = i + 1 /\ i < Calls
        /\ Done' = Done /\ Command' = Command /\ Seen' = Seen
        /\ \/ Command.op \in Dropping /\ pc' = "drop_locked"
           \/ Command.op \in Getting /\ pc' = "get_locked"
        /\ Command.op # "warm_up" => i \in Indices(Cnt[Command.set])
    BY StartFrame
  <1>3. /\ Command.set \in DOMAIN Cnt /\ Keysets \subseteq DOMAIN Cnt
        /\ Command.op \in Passes => Command.set \in Keysets
        /\ Command.op \in Getting \ Loading => AskedSets(Command) \subseteq Seen
        /\ Command.op \in Loading => AskedSets(Command) = {Command.set}
        /\ AskedSets(Command) \subseteq DOMAIN Cnt
    BY <1>1, <1>2, CommandFacts, SeenFacts, Counts DEF Keysets, AskedSets, Getting, Loading
  <1>4. Getting \cap Dropping = {}
    BY DEF Getting, Loading, Rereading, Mixing, Dropping
  <1>5. CASE Command.op \in Smoking \cup {"drop_all"} /\ UNCHANGED <<sets, asked>> /\ key' = KeyOf(Command.set, i)
    <2>1. Command.op \notin Mixing \cup {"first_pass", "second_pass", "warm_up"}
      BY <1>5 DEF Smoking, Mixing
    <2>2. key' \in Key
      BY <1>2, <1>3, <1>5, <2>1, KeysAssumption
    <2>3. PlaceInv'
      BY <1>1, <1>2, <1>4, <1>5, <2>1 DEF PlaceInv, At
    <2>4. SetsInv'
      BY <1>1, <1>2, <1>5, <2>1 DEF SetsInv, At
    <2> QED
      BY <1>1, <1>5, <2>2, <2>3, <2>4
  <1>6. CASE /\ Command.op \in Passes \cup {"warm_up"}
             /\ \E s \in AskedSets(Command) \cap Keysets : \E p : Asks(s, p)
    <2>0. PICK s \in AskedSets(Command) \cap Keysets : \E p : Asks(s, p)
      BY <1>6
    <2>1. PICK p : Asks(s, p)
      BY <2>0
    <2>2. p \in Orders(sets[s]) /\ Cnt[s] \in Nat \ {0} /\ sets[s] \in KeysetOf(Cnt[s])
      BY <1>1, <1>3, <2>1, Counts DEF Asks
    <2>3. /\ p[sets[s].pos] \in Indices(Cnt[s])
          /\ ~sets[s].shuffled => p = sets[s].permutation
          /\ AfterGet(sets[s], p) =
                 [permutation |-> p, pos |-> IF sets[s].pos + 1 = Cnt[s] THEN 0 ELSE sets[s].pos + 1,
                  shuffled |-> sets[s].pos + 1 = Cnt[s]]
          /\ AfterGet(sets[s], p) \in KeysetOf(Cnt[s])
      BY <2>2, NextKey
    <2>4. key' = KeyOf(s, p[sets[s].pos]) /\ key' \in KeysOf(s) /\ key' \in Key
      BY <1>3, <2>1, <2>3, KeysAssumption DEF Asks, KeysOf
    <2>5. asked' \in [Key -> Nat]
      BY <1>1, <2>1, <2>4 DEF Asks
    <2>6. DOMAIN sets = Keysets /\ sets' = [sets EXCEPT ![s] = AfterGet(sets[s], p)]
          /\ sets' = [t \in Keysets |-> sets'[t]]
      <3>1. sets = [t \in Keysets |-> sets[t]]
        BY <1>1 DEF SetsInv
      <3> HIDE DEF Asks
      <3>2. DOMAIN sets = Keysets
        BY <3>1
      <3>3. sets' = [sets EXCEPT ![s] = AfterGet(sets[s], p)]
        BY <2>1 DEF Asks
      <3> QED
        BY <3>1, <3>2, <3>3
    <2>7. sets'[s] = AfterGet(sets[s], p) /\ \A t \in Keysets \ {s} : sets'[t] = sets[t]
      BY <2>1, <2>6
    <2>8. \A t \in Keysets : sets'[t] \in KeysetOf(Cnt[t])
      BY <1>1, <2>3, <2>7
    <2>9. ASSUME Command.op \in {"first_pass", "second_pass"}
          PROVE  /\ key' = KeyOf(Command.set, i)
                 /\ LET c == Cnt[Command.set]
                    IN  sets'[Command.set] =
                            [permutation |-> StandardOrder(c),
                             pos |-> IF i + 1 = c THEN 0 ELSE i + 1, shuffled |-> i + 1 = c]
      <3>1. s = Command.set
        BY <2>1, <2>9 DEF AskedSets
      <3>2. i \in Indices(Cnt[s]) /\ i # Cnt[s]
        BY <1>2, <2>2, <2>9, <3>1 DEF Indices
      <3>3. sets[s] = [permutation |-> StandardOrder(Cnt[s]), pos |-> i, shuffled |-> FALSE]
        <4>1. sets[s] = [permutation |-> StandardOrder(Cnt[s]),
                         pos |-> IF i = Cnt[s] THEN 0 ELSE i, shuffled |-> i = Cnt[s]]
          BY <1>1, <1>2, <2>9, <3>1 DEF SetsInv, At
        <4> QED
          BY <3>2, <4>1
      <3>4. p = StandardOrder(Cnt[s]) /\ p[i] = i /\ sets[s].pos = i
        BY <2>3, <3>2, <3>3 DEF StandardOrder
      <3> QED
        BY <2>3, <2>4, <2>7, <3>1, <3>4
    <2>10. /\ Command.op \in Getting /\ pc' = "get_locked" /\ Command.op \notin Dropping
           /\ Command.op \in Loading \cup Rereading => Command.op \in {"first_pass", "second_pass"}
           /\ Command.op \in Mixing \cup Loading \cup Rereading
      BY <1>2, <1>4, <1>6 DEF Passes, Getting, Loading, Rereading, Mixing, Dropping
    <2>11. PlaceInv'
      <3>1. 0 < i' /\ (i + 1) - 1 = i
        BY <1>1, <1>2
      <3> QED
        BY <1>2, <2>1, <2>4, <2>9, <2>10, <3>1 DEF PlaceInv, At
    <2>12. SetsInv'
      <3>1. ASSUME NEW t \in Keysets \ Seen, ~(Command.op \in Loading /\ t = Command.set)
            PROVE  sets'[t] = InitKeyset(Cnt[t])
        <4>1. t # s
          BY <1>3, <2>1, <2>10, <3>1
        <4> QED
          BY <1>1, <1>2, <2>7, <3>1, <4>1 DEF SetsInv, At
      <3> QED
        BY <1>2, <2>6, <2>9, <3>1 DEF SetsInv, At
    <2> QED
      BY <2>4, <2>5, <2>8, <2>9, <2>10, <2>11, <2>12
  <1> QED
    BY <1>5, <1>6, StartFrame

\* The next key of a pass was not asked for in it.
LEMMA StartAsked ==
    ASSUME TestInv, Running, CallStart
    PROVE  PassesInOrder'
  <1>1. /\ ~Done /\ suite \in DOMAIN Script /\ cmd \in 1 .. Len(Script[suite]) + 1
        /\ i \in Nat /\ i' = i + 1 /\ Done' = Done /\ Command' = Command
        /\ asked \in [Key -> Nat]
    BY StartFrame DEF TestInv, TestTypeOK
  <1> DEFINE s == Command.set
  <1>2. SUFFICES ASSUME Command.op \in {"first_pass", "second_pass"}, NEW n \in Indices(Cnt[s])
                 PROVE  asked'[KeyOf(s, n)] = IF n < i + 1 THEN 1 ELSE 0
    BY <1>1 DEF PassesInOrder, At
  <1>3. /\ Command.op \notin Smoking \cup {"drop_all"} /\ AskedSets(Command) = {s}
        /\ Command.op \in Loading \cup Rereading /\ Command.op # "warm_up"
    BY <1>2 DEF Smoking, AskedSets, Getting, Loading, Rereading, Mixing
  <1>4. asked' = [asked EXCEPT ![key'] = asked[key'] + 1]
    <2>1. \E t \in AskedSets(Command) : \E p : Asks(t, p)
      BY <1>3, StartFrame
    <2> QED
      BY <2>1 DEF Asks
  <1>5. /\ key' = KeyOf(s, i) /\ key' \in Key /\ i \in Indices(Cnt[s])
        /\ s \in DOMAIN Cnt /\ Cnt[s] \in Nat
    BY <1>1, <1>3, StartPlace, StartFrame, CommandFacts, Counts
  <1>6. \A m \in Indices(Cnt[s]) : asked[KeyOf(s, m)] = IF m < i THEN 1 ELSE 0
    BY <1>1, <1>2 DEF TestInv, PassesInOrder, At
  <1>7. KeyOf(s, n) \in Key /\ n \in Int
    BY <1>5, KeysAssumption DEF Indices
  <1>8. CASE n = i
    <2>1. asked[key'] = 0
      BY <1>1, <1>5, <1>6
    <2> QED
      BY <1>1, <1>4, <1>5, <1>8, <2>1
  <1>9. CASE n # i
    <2>1. KeyOf(s, n) # key'
      BY <1>1, <1>5, <1>7, <1>9, KeysApart
    <2>2. asked'[KeyOf(s, n)] = IF n < i THEN 1 ELSE 0
      BY <1>1, <1>4, <1>6, <1>7, <2>1
    <2>3. n < i + 1 <=> n < i
      BY <1>1, <1>7, <1>9
    <2> QED
      BY <2>2, <2>3
  <1> QED
    BY <1>8, <1>9

\* Nothing is found or lost by the start of a call; a new key has no page yet.
LEMMA StartRest ==
    ASSUME NonzeroKeys, TestInv, Running, CallStart
    PROVE  SeenInv' /\ MissInv' /\ GoneInv' /\ KeptInv' /\ SmokeInv'
  <1>1. /\ Idling /\ ~Done /\ ~Idling' /\ i \in Nat /\ i' = i + 1
        /\ UNCHANGED <<suite, cmd, count, reclaimed, resident>>
        /\ UNCHANGED <<map, lazy, free_pages, len, current_chunk_idx, exited>>
        /\ Done' = Done /\ Command' = Command /\ Seen' = Seen /\ Gone' = Gone
        /\ pc' \in {"get_locked", "drop_locked"}
    BY StartFrame
  <1>2. /\ SeenInv /\ MissInv /\ GoneInv /\ KeptInv /\ SmokeInv
        /\ suite \in DOMAIN Script /\ cmd \in 1 .. Len(Script[suite]) + 1
    BY DEF TestInv, TestTypeOK
  <1>3. Returned = i /\ Returned' = i
    BY <1>1 DEF Returned
  <1>4. SeenInv'
    <2>1. 0 .. i - 1 \subseteq 0 .. i' - 1
      BY <1>1
    <2> QED
      BY <1>1, <1>2, <2>1 DEF SeenInv, At
  <1>5. MissInv'
    <2>1. SUFFICES ASSUME Command.op \in Loading
                   PROVE  exited = "no" /\ map[key'] = EMPTY_DESC /\ count = i' - 1
                          /\ pc' = "get_locked"
      BY <1>1 DEF MissInv, At
    <2>2. exited = "no" /\ count = i' - 1
      BY <1>1, <1>2, <2>1 DEF MissInv, At, Idling
    <2>3. key' = KeyOf(Command.set, i) /\ key' \in Key
      BY <2>1, StartPlace
    <2>4. i \in Indices(Cnt[Command.set]) /\ Command.set \in DOMAIN Cnt
      BY <1>1, <1>2, <2>1, StartFrame, CommandFacts DEF Loading
    <2>5. key' \in KeysOf(Command.set)
      BY <2>3, <2>4 DEF KeysOf
    <2>6. \A s \in Seen : key' \notin KeysOf(s)
      BY <1>1, <1>2, <2>1, <2>5, SeenFacts
    <2>7. \A n \in 0 .. i - 1 : key' # KeyOf(Command.set, n)
      BY <1>1, <2>3, <2>4, KeysApart
    <2>8. map[key'] = EMPTY_DESC
      BY <1>2, <2>3, <2>6, <2>7 DEF SeenInv
    <2>9. Command.op \notin Dropping
      BY <2>1 DEF Loading, Dropping
    <2> QED
      BY <2>2, <2>8, <2>9, StartFrame
  <1>6. GoneInv'
    BY <1>1, <1>2, <1>3 DEF GoneInv, At
  <1>7. KeptInv'
    BY <1>1, <1>2, <1>3 DEF KeptInv, At
  <1>8. SmokeInv'
    <2>1. (i + 1) - 1 = i
      BY <1>1
    <2> QED
      BY <1>1, <1>2, <2>1 DEF SmokeInv, At
  <1> QED
    BY <1>4, <1>5, <1>6, <1>7, <1>8

\* All of it.
LEMMA StartInv ==
    ASSUME NonzeroKeys, SmallIndices, TestInv, Running, ~failed, CallStart
    PROVE  TestInv'
  <1>1. key' \in Key /\ (GetStart(key') \/ DropStart(key'))
    BY StartFrame, StartPlace
  <1>2. FtInv'
    BY <1>1, StartStep DEF TestInv
  <1>3. FtTypeOK'
    BY <1>2 DEF FtInv
  <1>4. TestTypeOK'
    <2>1. /\ suite \in DOMAIN Script /\ cmd \in 1 .. Len(Script[suite]) + 1 /\ i \in Nat /\ count \in Nat
          /\ failed \in BOOLEAN
      BY DEF TestInv, TestTypeOK
    <2>2. /\ UNCHANGED <<suite, cmd, count, failed>> /\ i' = i + 1 /\ i < Calls /\ ~Done
          /\ Calls' = Calls
      BY StartFrame
    <2>3. Calls \in Nat
      BY <2>1, <2>2, CommandFacts
    <2>4. i' \in Nat /\ i' <= Calls'
      BY <2>1, <2>2, <2>3
    <2> QED
      BY <1>3, <2>1, <2>2, <2>4, StartPlace DEF TestTypeOK
  <1>5. LuckInv' /\ DemandsMet'
    <2>1. UNCHANGED <<suite, count, failed, reclaimed>> /\ Done' = Done /\ Command' = Command
      BY StartFrame
    <2> QED
      BY <2>1 DEF TestInv, LuckInv, DemandsMet, At
  <1> QED
    BY <1>2, <1>4, <1>5, StartPlace, StartAsked, StartRest DEF TestInv

----------------------------------------------------------------------------
(* The end of a command *)

CommandEnd == LoopEnds \/ RandomOrder \/ RenewCache

\* The next command: its set is a set of the suite, and a new one if it says so.
LEMMA NextEntry ==
    ASSUME suite \in DOMAIN Script, cmd \in 1 .. Len(Script[suite]) + 1, ~Done,
           suite' = suite, cmd' = cmd + 1, ~Done'
    PROVE  /\ Command'.set \in DOMAIN Cnt
           /\ Command'.op \in Loading => Command'.set \notin Seen'
           /\ Command'.op \in Passes => Command'.set \in Keysets
           /\ Command'.op \in Smoking => Command'.set = "smoke"
           /\ Calls' \in Nat
  <1> DEFINE S == Script[suite]
  <1>1. Len(S) \in Nat /\ Shape(S) /\ Order(S) /\ cmd \in Nat
    BY SuiteFacts
  <1>2. PICK c \in 1 .. Len(S) : c = cmd + 1 /\ Command' = S[c] /\ cmd' = c
    BY <1>1 DEF Done, Command
  <1>3. /\ S[c].set \in DOMAIN Cnt
        /\ S[c].op \in Smoking \cup {"renew"} => S[c].set = "smoke"
        /\ S[c].op \in Passes \cup {"random_order", "drop_all"} => S[c].set \in Keysets
    BY <1>1 DEF Shape
  <1>4. Entries' = 1 .. Len(S) /\ \A d \in 1 .. Len(S) : Entry(d)' = S[d]
    BY DEF Entries, Entry
  <1>5. Seen' = {s \in DOMAIN Cnt : \E d \in 1 .. Len(S) :
            /\ d < c \/ (d = c /\ S[d].op \notin Loading)
            /\ s \in AskedSets(S[d])}
    BY <1>2, <1>4 DEF Seen, SeenAt, Entry
  <1>6. ASSUME S[c].op \in Loading, S[c].set \in Seen' PROVE FALSE
    <2>1. PICK d \in 1 .. Len(S) : d < c /\ S[c].set \in AskedSets(S[d])
      BY <1>5, <1>6
    <2> QED
      BY <1>1, <1>6, <2>1 DEF Order
  <1>7. Calls' \in Nat
    <2>1. Cnt[S[c].set] \in Nat /\ WarmUpGets \in Nat
      BY <1>3, Counts, CountsAssumption
    <2> QED
      BY <1>2, <2>1 DEF Calls
  <1> QED
    BY <1>2, <1>3, <1>6, <1>7

\* What is the same after the end of a command.
LEMMA EndFrame ==
    ASSUME TestInv, Running, CommandEnd
    PROVE  /\ Idling /\ Idling' /\ ~Done /\ suite' = suite /\ cmd' = cmd + 1
           /\ failed' = failed /\ i' = 0 /\ i = Calls /\ Returned = i /\ Returned' = 0 /\ asked' = Unasked
           /\ count' = IF ~Done' /\ Command'.op \in Passes THEN 0 ELSE count
           /\ exited = "no" /\ exited' = "no"
           /\ \/ /\ LoopEnds /\ UNCHANGED allVars
                 /\ Command.op \notin {"random_order", "renew"}
                 /\ sets' = IF Command.op \in Passes
                            THEN [sets EXCEPT ![Command.set] = Standard(@)] ELSE sets
              \/ /\ RandomOrder /\ UNCHANGED allVars /\ Command.op = "random_order"
                 /\ sets' = [sets EXCEPT ![Command.set] = Shuffled(@)]
              \/ /\ RenewCache /\ Renew /\ Command.op = "renew" /\ sets' = sets
  <1>1. /\ ~Done /\ suite' = suite /\ cmd' = cmd + 1 /\ i' = 0 /\ asked' = Unasked
        /\ failed' = failed
        /\ count' = IF ~Done' /\ Command'.op \in Passes THEN 0 ELSE count
    BY DEF CommandEnd, LoopEnds, LoopOver, RandomOrder, RenewCache, NextCommand, At
  <1>2. \/ /\ LoopEnds /\ UNCHANGED allVars
           /\ Command.op \notin {"random_order", "renew"}
           /\ sets' = IF Command.op \in Passes
                      THEN [sets EXCEPT ![Command.set] = Standard(@)] ELSE sets
        \/ /\ RandomOrder /\ UNCHANGED allVars /\ Command.op = "random_order"
           /\ sets' = [sets EXCEPT ![Command.set] = Shuffled(@)]
        \/ /\ RenewCache /\ Renew /\ Command.op = "renew" /\ sets' = sets
    BY <1>1 DEF CommandEnd, LoopEnds, LoopOver, RandomOrder, RenewCache, At
  <1>3. i = Calls
    <2>1. CASE LoopEnds
      BY <2>1 DEF LoopEnds, LoopOver
    <2>2. CASE Command.op \in {"random_order", "renew"}
      <3>1. Calls = 0
        BY <1>1, <2>2 DEF Calls, At
      <3> QED
        BY <1>1, <3>1 DEF TestInv, TestTypeOK
    <2> QED
      BY <1>2, <2>1, <2>2
  <1>4. Idling
    <2>1. CASE LoopEnds
      BY <2>1 DEF LoopEnds, LoopOver
    <2>2. CASE Command.op \in {"random_order", "renew"}
      BY <2>2 DEF TestInv, PlaceInv, At, Getting, Loading, Rereading, Mixing, Dropping
    <2> QED
      BY <1>2, <2>1, <2>2
  <1>5. Idling' /\ exited' = exited
    BY <1>2, <1>4 DEF Renew, Goto, Idling, allVars, vars, ftVars
  <1> QED
    BY <1>1, <1>2, <1>3, <1>4, <1>5 DEF Running, Returned

\* The keysets stay keysets; one that was not asked for is as it was made, and
\* a pass ends with the standard order.
LEMMA EndSets ==
    ASSUME TestInv, Running, CommandEnd
    PROVE  /\ SetsInv' /\ PassesInOrder' /\ PlaceInv'
           /\ \A s \in Keysets : sets'[s] \in KeysetOf(Cnt[s])
  <1>1. /\ suite \in DOMAIN Script /\ cmd \in 1 .. Len(Script[suite]) + 1 /\ i \in Nat
        /\ \A s \in Keysets : sets[s] \in KeysetOf(Cnt[s])
        /\ SetsInv
    BY DEF TestInv, TestTypeOK
  <1>2. /\ Idling' /\ ~Done /\ suite' = suite /\ cmd' = cmd + 1
        /\ i' = 0 /\ i = Calls /\ asked' = Unasked
        /\ \/ sets' = sets
           \/ Command.op \in Passes /\ sets' = [sets EXCEPT ![Command.set] = Standard(@)]
           \/ Command.op = "random_order" /\ sets' = [sets EXCEPT ![Command.set] = Shuffled(@)]
        /\ Command.op \in Passes => sets' = [sets EXCEPT ![Command.set] = Standard(@)]
    BY EndFrame DEF Passes
  <1>3. /\ Seen \subseteq Seen'
        /\ Command.op \in Loading => Command.set \in Seen'
        /\ ~Done' /\ Command'.op = "second_pass" => Command.set = Command'.set /\ Command.op = "first_pass"
    BY <1>1, <1>2, NextSets DEF Rereading
  <1>4. ~Done' => /\ Command'.set \in DOMAIN Cnt
                  /\ Command'.op = "first_pass" => Command'.set \notin Seen'
                  /\ Command'.op \in Passes => Command'.set \in Keysets
    BY <1>1, <1>2, NextEntry DEF Loading
  <1>5. /\ Command.op \in Passes \cup {"random_order"} => Command.set \in Keysets \cap Seen'
        /\ Keysets \subseteq DOMAIN Cnt
    <2>1. Command.op \in Passes \cup {"random_order"} => Command.set \in Keysets
      BY <1>1, <1>2, CommandFacts
    <2>2. Command.op \in {"second_pass", "measure", "random_order"} => Command.set \in Seen
      BY <1>1, <1>2, SeenFacts DEF Getting, Loading, Rereading, Mixing, AskedSets
    <2> QED
      BY <1>3, <2>1, <2>2, Counts DEF Passes, Loading, Keysets
  <1>6. \A s \in Keysets : Cnt[s] \in Nat \ {0}
    BY <1>5, Counts
  <1>7. ASSUME NEW s \in Keysets
        PROVE  /\ Standard(sets[s]) = [permutation |-> StandardOrder(Cnt[s]), pos |-> sets[s].pos,
                                       shuffled |-> FALSE]
               /\ Standard(sets[s]) \in KeysetOf(Cnt[s])
               /\ Shuffled(sets[s]) \in KeysetOf(Cnt[s])
    <2>1. /\ sets[s].permutation \in [Indices(Cnt[s]) -> Indices(Cnt[s])]
          /\ IsInjective(sets[s].permutation)
          /\ sets[s].pos \in Indices(Cnt[s]) /\ sets[s].shuffled \in BOOLEAN
          /\ sets[s] = [permutation |-> sets[s].permutation, pos |-> sets[s].pos,
                        shuffled |-> sets[s].shuffled]
      BY <1>1 DEF KeysetOf
    <2>2. Cardinality(0 .. Cnt[s] - 1) = Cnt[s]
      BY <1>6, FS_Interval
    <2>3. CntOf(sets[s]) = Cnt[s]
      BY <2>1, <2>2 DEF CntOf, Indices
    <2>4. StandardOrder(Cnt[s]) \in [Indices(Cnt[s]) -> Indices(Cnt[s])] /\ IsInjective(StandardOrder(Cnt[s]))
      BY DEF StandardOrder, IsInjective
    <2>5. Shuffled(sets[s]) \in KeysetOf(Cnt[s])
      BY <1>1 DEF Shuffled, KeysetOf
    <2>6. Standard(sets[s]) = [permutation |-> StandardOrder(Cnt[s]), pos |-> sets[s].pos,
                               shuffled |-> FALSE]
      BY <2>3 DEF Standard
    <2> QED
      BY <2>1, <2>4, <2>5, <2>6 DEF KeysetOf
  <1>8. /\ sets' = [s \in Keysets |-> sets'[s]]
        /\ \A s \in Keysets : s # Command.set => sets'[s] = sets[s]
        /\ \A s \in Keysets : sets'[s] \in {sets[s], Standard(sets[s]), Shuffled(sets[s])}
        /\ Command.op \in Passes => sets'[Command.set] = Standard(sets[Command.set])
        /\ Command.set \notin Seen' => sets' = sets
    <2>1. sets = [s \in Keysets |-> sets[s]]
      BY <1>1 DEF SetsInv
    <2>2. CASE sets' = sets /\ Command.op \notin Passes
      BY <2>1, <2>2
    <2>3. CASE Command.op \in Passes
      BY <1>2, <1>5, <2>1, <2>3
    <2>4. CASE Command.op = "random_order"
      BY <1>2, <1>5, <2>1, <2>4 DEF Passes
    <2> QED
      BY <1>2, <2>2, <2>3, <2>4
  <1>9. \A s \in Keysets : sets'[s] \in KeysetOf(Cnt[s])
    BY <1>1, <1>7, <1>8
  <1>10. ASSUME NEW s \in Keysets \ Seen'
         PROVE  sets'[s] = InitKeyset(Cnt[s])
    <2>1. s \notin Seen /\ ~(Command.op \in Loading /\ s = Command.set)
      BY <1>3, <1>10
    <2>2. sets[s] = InitKeyset(Cnt[s])
      BY <1>1, <1>2, <1>10, <2>1 DEF SetsInv, At
    <2> QED
      BY <1>8, <1>10, <2>2
  <1>11. ASSUME ~Done', Command'.op \in {"first_pass", "second_pass"}
         PROVE  sets'[Command'.set] = [permutation |-> StandardOrder(Cnt[Command'.set]),
                                       pos |-> 0, shuffled |-> FALSE]
    <2>1. CASE Command'.op = "first_pass"
      <3>1. Command'.set \in Keysets \ Seen'
        BY <1>4, <1>11, <2>1 DEF Passes
      <3> QED
        BY <1>10, <3>1 DEF InitKeyset
    <2>2. CASE Command'.op = "second_pass"
      <3> DEFINE s == Command.set
      <3>1. s = Command'.set /\ Command.op = "first_pass" /\ s \in Keysets
        BY <1>3, <1>4, <1>11, <2>2 DEF Passes
      <3>2. i = Cnt[s]
        BY <1>1, <1>2, <3>1, CommandFacts DEF Getting, Loading
      <3>3. sets[s].pos = 0
        BY <1>1, <1>2, <3>1, <3>2 DEF SetsInv, At
      <3> QED
        BY <1>7, <1>8, <3>1, <3>3 DEF Passes
    <2> QED
      BY <1>11, <2>1, <2>2
  <1>12. SetsInv'
    <2>1. ~Done' => Command'.set \in DOMAIN Cnt /\ Cnt[Command'.set] \in Nat \ {0}
      BY <1>4, Counts
    <2> QED
      BY <1>2, <1>8, <1>10, <1>11, <2>1 DEF SetsInv, At
  <1>13. PassesInOrder'
    <2>1. SUFFICES ASSUME ~Done', NEW n \in Indices(Cnt[Command'.set])
                   PROVE  asked'[KeyOf(Command'.set, n)] = IF n < 0 THEN 1 ELSE 0
      BY <1>2 DEF PassesInOrder, At
    <2>2. KeyOf(Command'.set, n) \in Key /\ n \in Nat
      BY <1>4, <2>1, Counts, KeysAssumption DEF Indices
    <2> QED
      BY <1>2, <2>2 DEF Unasked
  <1>14. PlaceInv'
    BY <1>2 DEF PlaceInv
  <1> QED
    BY <1>9, <1>12, <1>13, <1>14

\* What was asked for, dropped or kept by a command is what the next finds.
LEMMA EndPages ==
    ASSUME NonzeroKeys, TestInv, Running, CommandEnd
    PROVE  SeenInv' /\ MissInv' /\ GoneInv' /\ KeptInv'
  <1>1. /\ suite \in DOMAIN Script /\ cmd \in 1 .. Len(Script[suite]) + 1 /\ i \in Nat
        /\ SeenInv /\ MissInv /\ GoneInv /\ KeptInv
    BY DEF TestInv, TestTypeOK
  <1>2. /\ Idling /\ Idling' /\ ~Done /\ suite' = suite /\ cmd' = cmd + 1
        /\ i' = 0 /\ i = Calls /\ Returned = i /\ Returned' = 0
        /\ ~Done' /\ Command'.op \in Passes => count' = 0
        /\ exited' = "no"
        /\ \/ UNCHANGED allVars /\ Command.op # "renew"
           \/ Renew /\ Command.op = "renew"
    BY EndFrame
  <1>3. /\ Seen \subseteq Seen'
        /\ Command.op \in Loading => Command.set \in Seen'
        /\ Gone' = IF Command.op \in Dropping THEN Gone \cup {Command.set} ELSE Gone
        /\ ~Done' /\ Command'.op \in Rereading =>
               /\ Command.set = Command'.set /\ Seen \subseteq Gone /\ Command.op \in Loading
        /\ ~Done' /\ Command'.op = "smoke_drop" => Command.op = "smoke_read"
        /\ ~Done' => Command'.op # "smoke_fill"
    BY <1>1, <1>2, NextSets DEF Loading
  <1>4. \/ UNCHANGED <<map, pc, resident, reclaimed>> /\ Command.op # "renew"
        \/ map' = [k \in Key |-> EMPTY_DESC] /\ Command.op = "renew"
    BY <1>2 DEF Renew, allVars, vars, cacheVars, ftVars, history
  <1>5. /\ Command.set \in DOMAIN Cnt /\ Cnt[Command.set] \in Nat \ {0}
        /\ Command.op \in Loading \cup Rereading \cup Dropping => i = Cnt[Command.set]
    BY <1>1, <1>2, CommandFacts, Counts DEF Getting, Loading, Rereading, Dropping
  <1>6. \A n \in Indices(Cnt[Command.set]) : n \in 0 .. Cnt[Command.set] - 1
    BY DEF Indices
  <1>7. ~("renew" \in Loading \cup Rereading \cup Dropping)
    BY DEF Loading, Rereading, Dropping
  <1>8. SeenInv'
    <2>1. SUFFICES ASSUME NEW k \in Key, map'[k] # EMPTY_DESC
                   PROVE  \E s \in Seen' : k \in KeysOf(s)
      BY <1>2 DEF SeenInv
    <2>2. map[k] # EMPTY_DESC
      BY <1>4, <2>1
    <2>3. CASE \E s \in Seen : k \in KeysOf(s)
      BY <1>3, <2>3
    <2>4. CASE Command.op \in Loading /\ \E n \in 0 .. i - 1 : k = KeyOf(Command.set, n)
      <3>1. PICK n \in 0 .. i - 1 : k = KeyOf(Command.set, n)
        BY <2>4
      <3>2. n \in Indices(Cnt[Command.set])
        BY <1>5, <2>4 DEF Indices
      <3>3. k \in KeysOf(Command.set)
        BY <3>1, <3>2 DEF KeysOf
      <3> QED
        BY <1>3, <2>4, <3>3
    <2> QED
      BY <1>1, <2>2, <2>3, <2>4 DEF SeenInv, At
  <1>9. MissInv'
    BY <1>2, <1>3 DEF MissInv, At, Idling, Loading, Passes
  <1>10. GoneInv'
    <2>1. ASSUME ~reclaimed', NEW s \in Gone', NEW k \in KeysOf(s)
          PROVE  map'[k] = EMPTY_DESC
      <3>1. s \in DOMAIN Cnt
        BY <2>1 DEF Gone, GoneAt
      <3>2. k \in Key
        BY <2>1, <3>1, KeysApart
      <3>3. CASE map' = [x \in Key |-> EMPTY_DESC]
        BY <3>2, <3>3
      <3>4. CASE UNCHANGED <<map, reclaimed>> /\ s \in Gone
        BY <1>1, <2>1, <3>4 DEF GoneInv
      <3>5. CASE UNCHANGED <<map, reclaimed>> /\ Command.op \in Dropping /\ s = Command.set
        <4>1. PICK n \in Indices(Cnt[s]) : k = KeyOf(s, n)
          BY <2>1 DEF KeysOf
        <4>2. n \in 0 .. Returned - 1
          BY <1>2, <1>5, <1>6, <3>5
        <4> QED
          BY <1>1, <1>2, <2>1, <3>5, <4>1, <4>2 DEF GoneInv, At
      <3> QED
        BY <1>3, <1>4, <2>1, <3>3, <3>4, <3>5
    <2>2. \A n \in 0 .. Returned' - 1 : FALSE
      BY <1>2
    <2> QED
      BY <2>1, <2>2 DEF GoneInv
  <1>11. KeptInv'
    <2>1. ASSUME ~reclaimed', ~Done', Command'.op \in Rereading, Cnt[Command'.set] <= NumEntries
          PROVE  KeysOf(Command'.set) \subseteq resident'
      <3>1. /\ Command.set = Command'.set /\ Seen \subseteq Gone /\ Command.op \in Loading
            /\ UNCHANGED <<resident, reclaimed>>
        BY <1>3, <1>4, <1>7, <2>1
      <3>2. \A n \in 0 .. Returned - 1 : KeyOf(Command.set, n) \in resident
        BY <1>1, <1>2, <2>1, <3>1 DEF KeptInv, At
      <3>3. \A n \in Indices(Cnt[Command.set]) : KeyOf(Command.set, n) \in resident
        BY <1>2, <1>5, <1>6, <3>1, <3>2
      <3> QED
        BY <3>1, <3>3 DEF KeysOf
    <2>2. ASSUME ~reclaimed', ~Done', Command'.op = "smoke_drop", NEW n \in 0 .. Cnt.smoke - 1
          PROVE  KeyOf("smoke", n) \in resident'
      <3>1. Command.op = "smoke_read" /\ UNCHANGED <<resident, reclaimed>> /\ Command.set = "smoke"
        BY <1>1, <1>2, <1>3, <1>4, <2>2, CommandFacts DEF Smoking
      <3>2. Cnt["smoke"] <= NumEntries
        <4>1. NumChunks \in Nat \ {0} /\ PagesPerChunk \in Nat \ {0}
          BY ChunksAssumption, PagesAssumption
        <4>2. PagesPerChunk <= NumChunks * PagesPerChunk
          BY <4>1
        <4> QED
          BY <4>1, <4>2, Counts
      <3>3. KeysOf("smoke") \subseteq resident
        BY <1>1, <1>2, <2>2, <3>1, <3>2 DEF KeptInv, At, Rereading
      <3> QED
        BY <2>2, <3>1, <3>3 DEF KeysOf, Indices
    <2>3. \A n \in 0 .. Returned' - 1 : FALSE
      BY <1>2
    <2> QED
      BY <1>2, <2>1, <2>2, <2>3 DEF KeptInv, At, Idling, Passes
  <1> QED
    BY <1>8, <1>9, <1>10, <1>11

\* The smoke test's loops follow each other; no other begins like it.
LEMMA EndSmoke ==
    ASSUME TestInv, Running, CommandEnd
    PROVE  SmokeInv'
  <1>1. /\ suite \in DOMAIN Script /\ cmd \in 1 .. Len(Script[suite]) + 1
        /\ SmokeInv /\ MissInv
    BY DEF TestInv, TestTypeOK
  <1>2. /\ Idling /\ ~Done /\ suite' = suite /\ cmd' = cmd + 1 /\ i = Calls
        /\ count' = IF ~Done' /\ Command'.op \in Passes THEN 0 ELSE count
        /\ UNCHANGED allVars \/ Command.op = "renew"
    BY EndFrame
  <1>3. SUFFICES ASSUME ~Done', Command'.op \in Smoking
                 PROVE  /\ ~reclaimed' /\ \A s \in Slot : ~lazy'[s]
                        /\ count' = SmokeTestCnt
                        /\ Command'.op # "smoke_fill"
    BY DEF SmokeInv, At, Smoking
  <1>4. /\ \/ Command'.op = "smoke_read" /\ Command.op = "smoke_fill"
           \/ Command'.op = "smoke_drop" /\ Command.op = "smoke_read"
        /\ Command'.op # "smoke_fill"
    <2>1. /\ Command'.op = "smoke_read" => Command.op = "smoke_fill"
          /\ Command'.op = "smoke_drop" => Command.op = "smoke_read"
          /\ Command'.op # "smoke_fill"
      BY <1>1, <1>2, <1>3, NextSets DEF Rereading
    <2> QED
      BY <1>3, <2>1 DEF Smoking
  <1>5. UNCHANGED <<reclaimed, lazy>>
    BY <1>2, <1>4 DEF allVars, vars, memVars, ftVars, history
  <1>6. ~reclaimed /\ \A s \in Slot : ~lazy[s]
    BY <1>1, <1>2, <1>4 DEF SmokeInv, At, Smoking
  <1>7. count = SmokeTestCnt
    <2>1. CASE Command.op = "smoke_fill"
      <3>1. i = Cnt["smoke"]
        BY <1>1, <1>2, <2>1, CommandFacts DEF Smoking, Getting, Loading
      <3> QED
        BY <1>1, <1>2, <2>1, <3>1, Counts DEF MissInv, At, Loading, Idling
    <2>2. CASE Command.op = "smoke_read"
      BY <1>1, <1>2, <2>2 DEF SmokeInv, At
    <2> QED
      BY <1>4, <2>1, <2>2
  <1> QED
    BY <1>2, <1>4, <1>5, <1>6, <1>7 DEF Passes

\* What check_hitrate drops was all hit in the pass before.
LEMMA EndLuck ==
    ASSUME TestInv, Running, CommandEnd
    PROVE  LuckInv'
  <1>1. /\ suite \in DOMAIN Script /\ cmd \in 1 .. Len(Script[suite]) + 1
        /\ LuckInv /\ KeptInv
    BY DEF TestInv, TestTypeOK
  <1>2. /\ ~Done /\ suite' = suite /\ cmd' = cmd + 1
        /\ count' = IF ~Done' /\ Command'.op \in Passes THEN 0 ELSE count
        /\ UNCHANGED allVars \/ (Renew /\ Command.op = "renew")
    BY EndFrame
  <1>3. reclaimed' = reclaimed \/ (~reclaimed' /\ Command.op = "renew")
    BY <1>2 DEF Renew, allVars, ftVars, history
  <1>4. ASSUME ~Done', Command'.op = "drop_all", Command'.set = "whole", ~reclaimed'
        PROVE  count' = 0
    <2>1. Command.op = "second_pass" /\ Command.set = "whole"
      BY <1>1, <1>2, <1>4, NextSets
    <2>2. Cnt["whole"] <= NumEntries
      BY Counts DEF Cnt
    <2>3. count = 0
      BY <1>1, <1>2, <1>3, <1>4, <2>1, <2>2 DEF KeptInv, At, Rereading
    <2> QED
      BY <1>2, <1>4, <2>3 DEF Passes
  <1> QED
    BY <1>1, <1>2, <1>3, <1>4 DEF LuckInv, At

\* All of it.
LEMMA EndInv ==
    ASSUME NonzeroKeys, SmallIndices, TestInv, Running, ~failed, CommandEnd
    PROVE  TestInv'
  <1>1. FtInv'
    <2>1. UNCHANGED allVars \/ Renew
      BY EndFrame
    <2>2. [FtNext]_allVars
      BY <2>1 DEF FtNext
    <2> QED
      BY <2>2, NextFtInv DEF TestInv
  <1>2. TestTypeOK'
    <2>1. /\ suite \in DOMAIN Script /\ cmd \in 1 .. Len(Script[suite]) + 1 /\ count \in Nat
          /\ failed \in BOOLEAN
      BY DEF TestInv, TestTypeOK
    <2>2. /\ failed' = failed /\ ~Done /\ suite' = suite /\ cmd' = cmd + 1 /\ i' = 0 /\ count' \in {0, count}
          /\ asked' = Unasked
      BY EndFrame
    <2>3. cmd' \in 1 .. Len(Script[suite']) + 1
      BY <2>1, <2>2, NextSets
    <2>4. ~Done' => Calls' \in Nat
      BY <2>1, <2>2, NextEntry
    <2>5. asked' \in [Key -> Nat]
      BY <2>2 DEF Unasked
    <2>6. FtTypeOK'
      BY <1>1 DEF FtInv
    <2> QED
      BY <2>1, <2>2, <2>3, <2>4, <2>5, <2>6, EndSets DEF TestTypeOK
  <1>3. DemandsMet'
    BY EndFrame DEF DemandsMet
  <1> QED
    BY <1>1, <1>2, <1>3, EndSets, EndPages, EndSmoke, EndLuck DEF TestInv

----------------------------------------------------------------------------
(* The hit rates *)

\* What the suites drop; the larger set is dropped by suite_lazyfree only.
LEMMA DropsWhole ==
    ASSUME suite \in DOMAIN Script, cmd \in 1 .. Len(Script[suite]) + 1, At({"drop_all"})
    PROVE  /\ suite = "anon" => Command.set = "whole"
           /\ suite = "lazyfree" => Command.set \in {"whole", "twice"}
  <1>1. cmd \in 1 .. Len(Script[suite]) /\ Command = Script[suite][cmd] /\ Command.op = "drop_all"
    BY CommandFacts DEF At, Entries, Entry
  <1>2. CASE suite = "anon"
    <2>1. cmd \in {1, 2, 3, 4, 5, 6}
      BY <1>1, <1>2, Suites3 DEF Anon
    <2> QED
      BY <1>1, <1>2, <2>1, AnonTable DEF Anon
  <1>3. CASE suite = "lazyfree"
    <2>1. cmd \in {1, 2, 3, 4, 5, 6, 7, 8, 9, 10}
      BY <1>1, <1>3, Suites3 DEF Lazyfree
    <2> QED
      BY <1>1, <1>3, <2>1, LazyfreeTable DEF Lazyfree
  <1> QED
    BY <1>2, <1>3

\* Too few hits have no other reason than a lost page, or the larger set.
LEMMA FewHits ==
    ASSUME TestInv, LoopOver, TooFewHits
    PROVE  suite = "lazyfree" /\ (Command.set = "twice" \/ reclaimed)
  <1>1. /\ suite \in DOMAIN Script /\ cmd \in 1 .. Len(Script[suite]) + 1
        /\ Idling /\ ~Done /\ i = Calls /\ LuckInv /\ MissInv
    BY DEF TestInv, TestTypeOK, LoopOver
  <1>2. Cnt["whole"] = NumEntries /\ NumEntries \in Nat \ {0}
    BY Counts DEF Cnt
  <1>3. CASE At({"first_pass"}) /\ suite # "hot_cold" /\ Hits > 0
    <2>1. i = Cnt[Command.set] /\ Cnt[Command.set] \in Nat
      BY <1>1, <1>3, CommandFacts, Counts DEF At, Getting, Loading
    <2>2. count = i
      BY <1>1, <1>3 DEF MissInv, At, Loading, Idling
    <2> QED
      BY <1>3, <2>1, <2>2 DEF Hits
  <1>4. CASE At({"drop_all"}) /\ suite = "anon" /\ Hits < NumEntries
    <2>1. Command.set = "whole"
      BY <1>1, <1>4, DropsWhole
    <2>2. count = 0
      BY <1>1, <1>4, <2>1 DEF LuckInv
    <2> QED
      BY <1>2, <1>4, <2>1, <2>2 DEF Hits
  <1>5. CASE /\ At({"drop_all"}) /\ suite = "lazyfree"
             /\ IF Command.set = "whole" THEN 10 * Hits <= 7 * Cnt.whole
                                         ELSE 100 * Hits < 15 * Cnt.twice
    <2>1. SUFFICES ASSUME Command.set = "whole", ~reclaimed PROVE FALSE
      BY <1>1, <1>5, DropsWhole
    <2>2. count = 0
      BY <1>1, <1>5, <2>1 DEF LuckInv
    <2>3. Hits = NumEntries /\ 10 * Hits <= 7 * NumEntries
      BY <1>2, <1>5, <2>1, <2>2 DEF Hits
    <2> QED
      BY <1>2, <2>3
  <1> QED
    BY <1>3, <1>4, <1>5 DEF TooFewHits

----------------------------------------------------------------------------
(* The invariant *)

\* A step inside a call keeps all of it.
LEMMA CallInvariant ==
    ASSUME NonzeroKeys, SmallIndices, TestInv, Running, ~failed, CallStep
    PROVE  TestInv'
  <1>1. FtInv'
    <2>1. [FtNext]_allVars
      BY DEF CallStep, FtNext
    <2> QED
      BY <2>1, NextFtInv DEF TestInv
  <1>2. TestTypeOK'
    <2>1. FtTypeOK' /\ TestTypeOK
      BY <1>1 DEF FtInv, TestInv
    <2>2. /\ UNCHANGED <<suite, cmd, i, failed, sets, asked>> /\ Done' = Done /\ Calls' = Calls
          /\ count' = IF pc = "get_missed" THEN count + 1 ELSE count
      BY CallFrame
    <2> QED
      BY <2>1, <2>2 DEF TestTypeOK
  <1>3. LuckInv' /\ DemandsMet'
    <2>1. /\ UNCHANGED <<suite, failed, reclaimed>> /\ Done' = Done /\ Command' = Command /\ ~Idling
          /\ count' = IF pc = "get_missed" THEN count + 1 ELSE count
      BY CallFrame
    <2>2. pc = "get_missed" => Command.op # "drop_all"
      BY <2>1, CallFacts DEF Dropping, Getting, Loading, Rereading, Mixing
    <2>3. LuckInv'
      BY <2>1, <2>2 DEF TestInv, LuckInv, At
    <2> QED
      BY <2>1, <2>3 DEF DemandsMet
  <1> QED
    BY <1>1, <1>2, <1>3, CallPlace, CallSeen, CallGone, CallKept, CallSmoke DEF TestInv

\* The kernel takes pages, but none of the smoke test's.
LEMMA ReclaimInvariant ==
    ASSUME NonzeroKeys, SmallIndices, TestInv, ReclaimStep
    PROVE  TestInv'
  <1>1. Running /\ Reclaiming /\ UNCHANGED <<suite, cmd, i, count, failed, sets, asked>>
    BY DEF ReclaimStep, testVars
  <1>2. FtInv'
    <2>1. [FtNext]_allVars
      BY <1>1 DEF FtNext
    <2> QED
      BY <2>1, NextFtInv DEF TestInv
  <1>3. /\ Done' = Done /\ Command' = Command /\ Seen' = Seen /\ Gone' = Gone /\ Calls' = Calls
    BY <1>1, SameCommand
  <1>4. /\ reclaimed' /\ UNCHANGED <<pc, key, map, exited>>
        /\ \E s \in Slot : lazy[s]
    BY <1>1 DEF Reclaiming, KernelReclaim, Reclaim, cacheVars
  <1>5. FtTypeOK' /\ TestTypeOK /\ PlaceInv /\ SetsInv /\ PassesInOrder /\ SeenInv /\ MissInv /\ SmokeInv
    BY <1>2 DEF FtInv, TestInv
  <1>6. TestTypeOK'
    BY <1>1, <1>3, <1>5 DEF TestTypeOK
  <1>7. PlaceInv' /\ SetsInv' /\ PassesInOrder'
    BY <1>1, <1>3, <1>4, <1>5 DEF PlaceInv, SetsInv, PassesInOrder, At, Idling
  <1>8. SeenInv' /\ MissInv'
    BY <1>1, <1>3, <1>4, <1>5 DEF SeenInv, MissInv, At
  <1>9. GoneInv' /\ KeptInv'
    BY <1>4 DEF GoneInv, KeptInv
  <1>10. SmokeInv'
    BY <1>3, <1>4, <1>5 DEF SmokeInv, At, Smoking
  <1>11. LuckInv' /\ DemandsMet'
    <2>1. suite # "anon" /\ ~failed
      BY DEF ReclaimStep
    <2> QED
      BY <1>1, <1>4, <2>1 DEF LuckInv, DemandsMet
  <1> QED
    BY <1>2, <1>6, <1>7, <1>8, <1>9, <1>10, <1>11 DEF TestInv

\* Before the first command.
LEMMA InitTestInv == TestInit => TestInv
  <1> SUFFICES ASSUME TestInit PROVE TestInv
    OBVIOUS
  <1>1. FtInv /\ FtTypeOK
    BY InitFtInv DEF TestInit, FtInv
  <1>2. /\ suite \in DOMAIN Script /\ cmd = 1 /\ i = 0 /\ count = 0 /\ failed = FALSE
        /\ sets = [s \in Keysets |-> InitKeyset(Cnt[s])] /\ asked = Unasked
        /\ pc = "init" /\ map = [k \in Key |-> EMPTY_DESC] /\ resident = {} /\ reclaimed = FALSE
        /\ exited = "no" /\ lazy = [s \in Slot |-> FALSE] /\ current_chunk_idx = 0
        /\ free_pages = [c \in Chunk |-> << >>] /\ len = [c \in Chunk |-> 0]
    BY SuitesAssumption DEF TestInit, FtInit, Init, MemInit, Unasked
  <1>3. Len(Script[suite]) \in Nat /\ Shape(Script[suite]) /\ cmd \in 1 .. Len(Script[suite]) + 1
    BY <1>2, SuiteFacts
  <1>4. ~Done => /\ Command.op \notin Rereading \cup {"smoke_drop"} /\ Calls \in Nat
                 /\ Command.set \in DOMAIN Cnt
                 /\ Command.op \in Passes => Command.set \in Keysets
    <2>1. ASSUME ~Done PROVE Command.op \notin Rereading \cup {"smoke_drop"}
      <3>1. 1 \in 1 .. Len(Script[suite]) /\ Command = Script[suite][1]
        BY <1>2, <1>3, <2>1 DEF Done, Command
      <3>2. 1 - 1 \notin 1 .. Len(Script[suite])
        BY <1>3
      <3> QED
        BY <1>3, <3>1, <3>2 DEF Shape
    <2> QED
      BY <1>2, <1>3, <2>1, CommandFacts
  <1>5. \A s \in Keysets : InitKeyset(Cnt[s]) \in KeysetOf(Cnt[s]) /\ Cnt[s] \in Nat \ {0}
    <2>1. \A s \in Keysets : Cnt[s] \in Nat \ {0}
      BY Counts DEF Keysets
    <2>2. ASSUME NEW c \in Nat \ {0} PROVE InitKeyset(c) \in KeysetOf(c)
      BY DEF InitKeyset, KeysetOf, StandardOrder, IsInjective, Indices
    <2> QED
      BY <2>1, <2>2
  <1>6. Idling /\ Returned = 0
    BY <1>2 DEF Idling, Returned
  <1>7. TestTypeOK
    <2>1. failed \in BOOLEAN /\ asked \in [Key -> Nat]
      BY <1>2 DEF Unasked
    <2> QED
      BY <1>1, <1>2, <1>3, <1>4, <1>5, <2>1 DEF TestTypeOK
  <1>8. PlaceInv
    BY <1>6 DEF PlaceInv
  <1>9. SetsInv
    BY <1>2, <1>4, <1>5 DEF SetsInv, At, InitKeyset, Passes
  <1>10. PassesInOrder
    <2>1. i = 0 /\ asked = [k \in Key |-> 0]
      BY <1>2 DEF Unasked
    <2>2. SUFFICES ASSUME ~Done, NEW n \in Indices(Cnt[Command.set])
                   PROVE  asked[KeyOf(Command.set, n)] = IF n < 0 THEN 1 ELSE 0
      BY <2>1 DEF PassesInOrder, At
    <2>3. KeyOf(Command.set, n) \in Key /\ n \in Nat
      BY <1>4, <2>2, Counts, KeysAssumption DEF Indices
    <2> QED
      BY <2>1, <2>3
  <1>11. SeenInv
    BY <1>2 DEF SeenInv
  <1>12. MissInv
    BY <1>2 DEF MissInv
  <1>13. GoneInv
    <2>1. \A s \in Gone : KeysOf(s) \subseteq Key
      BY KeysApart DEF Gone, GoneAt
    <2> QED
      BY <1>2, <1>6, <2>1 DEF GoneInv
  <1>14. KeptInv
    BY <1>2, <1>4, <1>6 DEF KeptInv, At
  <1>15. SmokeInv
    BY <1>2, <1>4, <1>6 DEF SmokeInv, At, Smoking, Rereading
  <1>16. LuckInv /\ DemandsMet
    BY <1>2 DEF LuckInv, DemandsMet
  <1> QED
    BY <1>1, <1>7, <1>8, <1>9, <1>10, <1>11, <1>12, <1>13, <1>14, <1>15, <1>16 DEF TestInv

\* A step that changes at most whether a hit rate has failed.
LEMMA FailInv ==
    ASSUME NonzeroKeys, SmallIndices, TestInv, DemandsMet', failed' \in BOOLEAN,
           UNCHANGED <<allVars, suite, cmd, i, count, sets, asked>>
    PROVE  TestInv'
  <1>1. FtInv'
    BY NextFtInv DEF TestInv
  <1>2. UNCHANGED <<suite, cmd, i, count, sets, asked>>
    OBVIOUS
  <1>3. UNCHANGED <<pc, key, map, exited, lazy, free_pages, len, current_chunk_idx, resident, reclaimed>>
    BY DEF allVars, vars, memVars, cacheVars, ftVars, history
  <1>4. /\ Done' = Done /\ Command' = Command /\ Seen' = Seen /\ Gone' = Gone /\ Calls' = Calls
        /\ Idling' = Idling /\ Returned' = Returned
    BY <1>2, <1>3, SameCommand DEF Idling, Returned
  <1>5. FtTypeOK'
    BY <1>1 DEF FtInv
  <1>6. TestTypeOK' /\ PlaceInv'
    BY <1>2, <1>3, <1>4, <1>5 DEF TestInv, TestTypeOK, PlaceInv, At
  <1>7. SetsInv' /\ PassesInOrder'
    BY <1>2, <1>4 DEF TestInv, SetsInv, PassesInOrder, At
  <1>8. SeenInv' /\ MissInv' /\ GoneInv'
    BY <1>2, <1>3, <1>4 DEF TestInv, SeenInv, MissInv, GoneInv, At
  <1>9. KeptInv' /\ SmokeInv' /\ LuckInv'
    BY <1>2, <1>3, <1>4 DEF TestInv, KeptInv, SmokeInv, LuckInv, At
  <1> QED
    BY <1>1, <1>6, <1>7, <1>8, <1>9 DEF TestInv

\* Every step of a suite keeps the invariant.
LEMMA NextTestInv ==
    NonzeroKeys /\ SmallIndices /\ TestInv /\ [TestNext]_<<allVars, testVars>> => TestInv'
  <1> SUFFICES ASSUME NonzeroKeys, SmallIndices, TestInv, [TestNext]_<<allVars, testVars>>
               PROVE  TestInv'
    OBVIOUS
  <1>1. CASE TestStep
    <2>1. Running /\ ~failed
      BY <1>1 DEF TestStep
    <2>2. CASE CallStep
      BY <2>1, <2>2, CallInvariant
    <2>3. CASE CallStart
      BY <2>1, <2>3, StartInv
    <2>4. CASE CommandEnd
      BY <2>1, <2>4, EndInv
    <2>5. CASE HitrateFails
      <3>1. LoopOver /\ TooFewHits /\ UNCHANGED <<allVars, suite, cmd, i, count, sets, asked>>
            /\ failed' = TRUE
        BY <2>5 DEF HitrateFails
      <3>2. UNCHANGED <<suite, cmd, reclaimed>>
        BY <3>1 DEF allVars, ftVars, history
      <3>3. Command' = Command
        BY <3>2, SameCommand
      <3>4. DemandsMet'
        BY <3>1, <3>2, <3>3, FewHits DEF DemandsMet
      <3> QED
        BY <3>1, <3>4, FailInv
    <2> QED
      BY <1>1, <2>2, <2>3, <2>4, <2>5 DEF TestStep, CallStart, CommandEnd
  <1>2. CASE ReclaimStep
    BY <1>2, ReclaimInvariant
  <1>3. CASE UNCHANGED <<allVars, testVars>>
    <2>1. UNCHANGED <<allVars, suite, cmd, i, count, failed, sets, asked>>
      BY <1>3 DEF testVars
    <2>2. Command' = Command /\ reclaimed' = reclaimed
      BY <2>1, SameCommand DEF allVars, ftVars, history
    <2>3. DemandsMet' /\ failed' \in BOOLEAN
      BY <2>1, <2>2 DEF TestInv, TestTypeOK, DemandsMet
    <2> QED
      BY <2>1, <2>3, FailInv
  <1> QED
    BY <1>1, <1>2, <1>3 DEF TestNext

\* What was asked for, dropped and kept is what the commands say, in every
\* state of every suite.
THEOREM TestInvHolds ==
    ASSUME NonzeroKeys, SmallIndices
    PROVE  TestSpec => []TestInv
  <1>1. TestInit => TestInv
    BY InitTestInv
  <1>2. TestInv /\ [TestNext]_<<allVars, testVars>> => TestInv'
    BY NextTestInv
  <1> QED
    BY <1>1, <1>2, PTL DEF TestSpec

----------------------------------------------------------------------------
(* The properties *)

\* The suites call ft_cache_get and ft_cache_drop as any program does: what
\* holds of FtSpec's steps holds while the suites run.
THEOREM TestsUseCache ==
    ASSUME NonzeroKeys, SmallIndices
    PROVE  TestSpec => FtInit /\ [][FtNext]_allVars
  <1>1. TestInit => FtInit
    BY DEF TestInit
  <1>2. TestInv /\ [TestNext]_<<allVars, testVars>> => [FtNext]_allVars
    <2> SUFFICES ASSUME TestInv, [TestNext]_<<allVars, testVars>> PROVE [FtNext]_allVars
      OBVIOUS
    <2>1. CASE TestStep
      <3>1. Running
        BY <2>1 DEF TestStep
      <3>2. CASE CallStep
        BY <3>1, <3>2 DEF CallStep, FtNext
      <3>3. CASE CallStart
        BY <3>1, <3>3, StartFrame, StartPlace DEF FtNext
      <3>4. CASE CommandEnd
        BY <3>1, <3>4, EndFrame DEF FtNext
      <3>5. CASE HitrateFails
        BY <3>5 DEF HitrateFails
      <3> QED
        BY <2>1, <3>2, <3>3, <3>4, <3>5 DEF TestStep, CallStart, CommandEnd
    <2>2. CASE ReclaimStep
      BY <2>2 DEF ReclaimStep, FtNext
    <2>3. CASE UNCHANGED <<allVars, testVars>>
      BY <2>3
    <2> QED
      BY <2>1, <2>2, <2>3 DEF TestNext
  <1> QED
    BY <1>1, <1>2, TestInvHolds, PTL DEF TestSpec

\* The types of the suites' variables: no loop makes more calls than it should,
\* and the position of a keyset stays inside its permutation.
THEOREM TestTypes ==
    ASSUME NonzeroKeys, SmallIndices
    PROVE  TestSpec => []TestTypeOK
  <1>1. TestInv => TestTypeOK
    BY DEF TestInv
  <1> QED
    BY <1>1, TestInvHolds, PTL

\* A pass of check_hitrate asks for every key once, in their order, whatever
\* the passes before left of the keyset.
THEOREM PassesOrdered ==
    ASSUME NonzeroKeys, SmallIndices
    PROVE  TestSpec => []PassesInOrder
  <1>1. TestInv => PassesInOrder
    BY DEF TestInv
  <1> QED
    BY <1>1, TestInvHolds, PTL

\* No hit rate ends suite_anon or suite_disk, and before the kernel takes a page
\* only that of the larger set can end suite_lazyfree.
THEOREM DemandsHold ==
    ASSUME NonzeroKeys, SmallIndices
    PROVE  TestSpec => []DemandsMet
  <1>1. TestInv => DemandsMet
    BY DEF TestInv
  <1> QED
    BY <1>1, TestInvHolds, PTL

\* The suites are answered with the value the refill makes, which is what
\* testlib_get_one compares with.
THEOREM TestAnswersFresh ==
    ASSUME NonzeroKeys, SmallIndices
    PROVE  TestSpec => []FreshAnswer
  <1>1. TestInv => FreshAnswer
    BY DEF TestInv, FtInv, ValueInv
  <1> QED
    BY <1>1, TestInvHolds, PTL

\* check_hitrate: its first pass only misses; its second only hits, if the set
\* fits and until the kernel takes a page.
THEOREM HitratesHold ==
    ASSUME NonzeroKeys, SmallIndices
    PROVE  TestSpec => []HitratesAsDemanded
  <1>1. ASSUME TestInv, At({"first_pass"}), Idling
        PROVE  count = i
    BY <1>1 DEF TestInv, MissInv, At, Loading, Idling
  <1>2. ASSUME TestInv, At({"second_pass"}), Cnt[Command.set] <= NumEntries, ~reclaimed
        PROVE  count = 0
    BY <1>2 DEF TestInv, KeptInv, At, Rereading
  <1>3. TestInv => HitratesAsDemanded
    BY <1>1, <1>2 DEF HitratesAsDemanded
  <1> QED
    BY <1>3, TestInvHolds, PTL

\* At the end of every suite its drops have freed every page, whatever was
\* evicted between, unless the kernel took one.
THEOREM NothingLeft ==
    ASSUME NonzeroKeys, SmallIndices
    PROVE  TestSpec => []SuiteLeavesNothing
  <1>1. ASSUME TestInv, Done, ~reclaimed
        PROVE  /\ total_free_pages = NumEntries
               /\ \A k \in Key : map[k] = EMPTY_DESC
    <2> DEFINE S == Script[suite]
    <2>1. /\ FtInv /\ SeenInv /\ GoneInv /\ cmd \in 1 .. Len(S) + 1
          /\ Len(S) \in Nat /\ Order(S) /\ cmd > Len(S)
      BY <1>1, SuiteFacts DEF TestInv, TestTypeOK, Done
    <2>2. Seen \subseteq Gone
      <3>1. \A s \in Seen : s \in DOMAIN Cnt /\ \E d \in 1 .. Len(S) : s \in AskedSets(S[d])
        BY DEF Seen, SeenAt, Entries, Entry
      <3>2. \A s \in Seen : \E d \in 1 .. Len(S) : S[d].op \in Dropping /\ S[d].set = s
        BY <2>1, <3>1 DEF Order
      <3>3. \A d \in 1 .. Len(S) : d < cmd
        BY <2>1
      <3> QED
        BY <3>1, <3>2, <3>3 DEF Gone, GoneAt, Entries, Entry
    <2>3. \A k \in Key : map[k] = EMPTY_DESC
      BY <1>1, <2>1, <2>2 DEF SeenInv, GoneInv, At
    <2>4. \A s \in Slot : keys[s] = ZeroKey
      <3>1. \A s \in Slot : keys[s] \in Key \cup {ZeroKey}
        BY <2>1, Basics DEF TypeOK
      <3> QED
        BY <1>1, <2>1, <2>3, <3>1, SlotFacts DEF FtInv, ResidentInv
    <2>5. {s \in Slot : keys[s] = ZeroKey} = Slot
      BY <2>4
    <2> QED
      BY <2>1, <2>3, <2>5, SlotsFinite, Counts DEF FtInv, CountInv, FreePagesCounted
  <1>2. TestInv => SuiteLeavesNothing
    BY <1>1 DEF SuiteLeavesNothing
  <1> QED
    BY <1>2, TestInvHolds, PTL

\* The smoke test passes, whatever the kernel does meanwhile.
THEOREM SmokePasses ==
    ASSUME NonzeroKeys, SmallIndices
    PROVE  TestSpec => []SmokeTestPasses
  <1>1. ASSUME TestInv, At(Smoking)
        PROVE  Running
    <2>1. FtInv /\ ~reclaimed
      BY <1>1 DEF TestInv, SmokeInv
    <2>2. SUFFICES ASSUME ~Running PROVE FALSE
      OBVIOUS
    <2>3. pc \in Found /\ pc \in Reading /\ ~Checks /\ L.head # EMPTY_PAGE
      BY <2>1, <2>2 DEF FtInv, LossInv, Running, Found, Reading
    <2>4. map[key] = EMPTY_DESC
      BY <2>1, <2>3, MissedKey
    <2>5. map[key] \in Slot
      BY <2>1, <2>3, CallPage
    <2> QED
      BY <2>4, <2>5, SlotFacts
  <1>2. ASSUME TestInv
        PROVE  /\ At({"smoke_fill"}) /\ pc = "got" => count = i
               /\ At({"smoke_read", "smoke_drop"}) => count = SmokeTestCnt
               /\ At({"smoke_drop"}) /\ i > 0 => pc # "absent"
    <2>1. MissInv /\ KeptInv /\ SmokeInv
      BY <1>2 DEF TestInv
    <2>2. At({"smoke_fill"}) /\ pc = "got" => count = i
      BY <2>1 DEF MissInv, At, Loading
    <2>3. At({"smoke_drop"}) /\ i > 0 => pc # "absent"
      BY <2>1 DEF KeptInv, SmokeInv, At, Smoking
    <2> QED
      BY <2>1, <2>2, <2>3 DEF SmokeInv
  <1>3. TestInv => SmokeTestPasses
    BY <1>1, <1>2 DEF SmokeTestPasses, Smoking
  <1> QED
    BY <1>3, TestInvHolds, PTL

=============================================================================
