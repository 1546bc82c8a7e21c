----------------------------- MODULE CacheTests -----------------------------
(***************************************************************************)
(* The program's own tests and its benchmark (test.c, testlib.h,           *)
(* benchmark.c) run over FallthroughCache: what their assertions demand of *)
(* the cache, and what their numbers measure, whichever chunks are evicted *)
(* and whichever pages the kernel takes while they run.                    *)
(***************************************************************************)
EXTENDS FallthroughCache, Keyset

CONSTANTS
    NumEntries,       \* num_entries of ft_cache_init
    SmokeTestCnt,     \* SMOKE_TEST_CNT
    WarmUpGets,       \* total of run_hot_cold
    HotCnt, ColdCnt, JunkCnt,    \* the sets of run_hot_cold
    Suites            \* the suites to run

\* lazyfree_cache_new_ex divides the capacity by the number of chunks, and what
\* get_set_size makes of a whole number of gigabytes can be divided: less 128
\* of a multiple of 2^18 pages, 32 chunks.
ASSUME GeometryAssumption ==
    /\ NumEntries \in Nat /\ NumEntries % NumChunks = 0
    /\ PagesPerChunk = NumEntries \div NumChunks

\* A gigabyte makes chunks of 8188 pages; the smoke test has 10 keys.
ASSUME SmokeAssumption == SmokeTestCnt \in 1 .. PagesPerChunk

\* The benchmark's sets are of 256 MB and more.
ASSUME CountsAssumption ==
    WarmUpGets \in Nat /\ {HotCnt, ColdCnt, JunkCnt} \subseteq Nat \ {0}

\* lazyfree_impl, lazyfree_anon_impl and lazyfree_disk_impl: how many chunks are
\* of which kind.
Impls == {<<NumChunks, 0, 0>>, <<0, NumChunks, 0>>, <<0, 0, NumChunks>>}

ASSUME ImplAssumption == <<LazyfreeChunks, AnonChunks, DiskChunks>> \in Impls

\* The seeds are random 64-bit numbers: no two sets of a suite have a key in
\* common.
Cnt == [smoke |-> SmokeTestCnt,
        whole |-> NumEntries, twice |-> 2 * NumEntries,
        hot |-> HotCnt, cold |-> ColdCnt, junk |-> JunkCnt]

Seed == [smoke |-> 1,
         whole |-> 1 + Cnt.smoke, twice |-> 1 + Cnt.smoke + Cnt.whole,
         hot |-> 1, cold |-> 1 + Cnt.hot, junk |-> 1 + Cnt.hot + Cnt.cold]

KeyOf(s, n) == Seed[s] + n

ASSUME KeysAssumption ==
    /\ ZeroKey = 0
    /\ \A s \in DOMAIN Cnt : \A n \in Indices(Cnt[s]) : KeyOf(s, n) \in Key

Keysets == {"whole", "twice", "hot", "cold", "junk"}

----------------------------------------------------------------------------
(* What the suites do *)

SmokeTest == << [op |-> "smoke_fill", set |-> "smoke"],
                [op |-> "smoke_read", set |-> "smoke"],
                [op |-> "smoke_drop", set |-> "smoke"] >>

CheckHitrate(s) == << [op |-> "first_pass", set |-> s],
                      [op |-> "second_pass", set |-> s],
                      [op |-> "drop_all", set |-> s] >>

MeasureSet(s) == << [op |-> "random_order", set |-> s],
                    [op |-> "measure", set |-> s] >>

\* The reports are taken before and after a reclaim, which may happen at any
\* time here.
HotCold == << [op |-> "warm_up", set |-> "hot"],
              [op |-> "first_pass", set |-> "junk"] >>
           \o MeasureSet("hot") \o MeasureSet("cold")
           \o MeasureSet("hot") \o MeasureSet("cold")
           \o << [op |-> "drop_all", set |-> "hot"],
                 [op |-> "drop_all", set |-> "cold"],
                 [op |-> "drop_all", set |-> "junk"] >>

\* suite_disk does what suite_anon does.  The end of every suite destroys the
\* cache.
Script ==
    [lazyfree |-> SmokeTest \o << [op |-> "renew", set |-> "smoke"] >>
                  \o CheckHitrate("whole") \o CheckHitrate("twice"),
     anon     |-> SmokeTest \o CheckHitrate("whole"),
     hot_cold |-> HotCold]

ASSUME SuitesAssumption == Suites \subseteq DOMAIN Script

VARIABLES
    suite,      \* the suite that runs
    cmd,        \* the part of it that runs
    i,          \* how many of its calls were started
    count,      \* refill_ctx.count
    failed,     \* a hit rate has ended the program
    sets,       \* the keysets
    asked       \* how often a key was asked for in this part

testVars == <<suite, cmd, i, count, failed, sets, asked>>

Done    == cmd > Len(Script[suite])
Command == Script[suite][cmd]
At(ops) == ~Done /\ Command.op \in ops

Passes == {"first_pass", "second_pass", "measure"}

Calls == IF At({"warm_up"}) THEN WarmUpGets
         ELSE IF At({"random_order", "renew"}) THEN 0
         ELSE Cnt[Command.set]

TestTypeOK ==
    /\ FtTypeOK
    /\ suite \in DOMAIN Script /\ cmd \in 1 .. Len(Script[suite]) + 1
    /\ i \in Nat /\ (~Done => i <= Calls)
    /\ count \in Nat /\ failed \in BOOLEAN
    /\ \A s \in Keysets : sets[s] \in KeysetOf(Cnt[s])
    /\ asked \in [Key -> Nat]

\* Nothing was asked for in this part yet.
Unasked == [k \in Key |-> 0]

\* The values of neighbouring keys differ in the bit the cache moves.
TestInit ==
    /\ truth = [k \in Key |-> k % 2]
    /\ FtInit
    /\ suite \in Suites
    /\ cmd = 1 /\ i = 0 /\ count = 0 /\ failed = FALSE
    /\ sets = [s \in Keysets |-> InitKeyset(Cnt[s])]
    /\ asked = Unasked

\* The steps inside a call.  refill_cb counts its calls.
CallStep ==
    /\ Get \/ Drop
    /\ count' = IF pc = "get_missed" THEN count + 1 ELSE count
    /\ UNCHANGED <<suite, cmd, i, failed, sets, asked>>

\* A loop makes its next call.
NextCall(ops) ==
    /\ At(ops)
    /\ i < Calls
    /\ i' = i + 1
    /\ UNCHANGED <<suite, cmd, count, failed>>

SmokeGet ==
    /\ NextCall({"smoke_fill", "smoke_read"})
    /\ GetStart(KeyOf("smoke", i))
    /\ UNCHANGED <<sets, asked>>

SmokeDrop ==
    /\ NextCall({"smoke_drop"})
    /\ DropStart(KeyOf("smoke", i))
    /\ UNCHANGED <<sets, asked>>

\* testlib_get_one; nobody looks at the keyset while the call runs.  That the
\* value is the expected one (testlib.h:59) is FreshAnswer, which rules out the
\* exit after it.
GetOne(s) ==
    \E p \in Orders(sets[s]) :
        LET k == KeyOf(s, p[sets[s].pos])
        IN  /\ GetStart(k)
            /\ asked' = [asked EXCEPT ![k] = @ + 1]
            /\ sets' = [sets EXCEPT ![s] = AfterGet(@, p)]

GetAll == NextCall(Passes) /\ GetOne(Command.set)

WarmUp == NextCall({"warm_up"}) /\ \E s \in {"hot", "cold"} : GetOne(s)

\* testlib_drop_all goes by the keys, not by the permutation.
DropAll ==
    /\ NextCall({"drop_all"})
    /\ DropStart(KeyOf(Command.set, i))
    /\ UNCHANGED <<sets, asked>>

\* Mutant: the refills of all parts are counted together.
NextCommandCounting ==
    /\ UNCHANGED <<suite, failed, count>>
    /\ cmd' = cmd + 1 /\ i' = 0
    /\ asked' = Unasked

\* The next part of the suite.  The smoke test and testlib_get_all begin with
\* a count of 0.
NextCommand ==
    /\ UNCHANGED <<suite, failed>>
    /\ cmd' = cmd + 1 /\ i' = 0
    /\ count' = IF ~Done' /\ Command'.op \in Passes THEN 0 ELSE count
    /\ asked' = Unasked

\* Of the pass that was the last to count.
Hits == Cnt[Command.set] - count

\* The hit rates after which the program ends with exit(1) or an assertion:
\* check_hitrate's of the first pass, and what the suites make of its result.
\* The nearest float to 0.7 is less than 0.7, so 7 of 10 are too few; that to
\* 0.15 is more.  hitrate2 < hitrate1 cannot be, as hitrate1 is 0 by then.
TooFewHits ==
    \/ At({"first_pass"}) /\ suite # "hot_cold" /\ Hits > 0
    \/ At({"drop_all"}) /\ suite = "anon" /\ Hits < NumEntries
    \/ /\ At({"drop_all"}) /\ suite = "lazyfree"
       /\ IF Command.set = "whole" THEN 10 * Hits <= 7 * Cnt.whole
                                   ELSE 100 * Hits < 15 * Cnt.twice

LoopOver == Idling /\ ~Done /\ i = Calls /\ ~At({"random_order", "renew"})

HitrateFails ==
    /\ LoopOver /\ TooFewHits
    /\ failed' = TRUE
    /\ UNCHANGED <<allVars, suite, cmd, i, count, sets, asked>>

\* The end of a loop; testlib_get_all ends with the standard order.
LoopEnds ==
    /\ LoopOver /\ ~TooFewHits
    /\ NextCommand
    /\ sets' = IF At(Passes)
               THEN [sets EXCEPT ![Command.set] = Standard(@)] ELSE sets
    /\ UNCHANGED allVars

RandomOrder ==
    /\ At({"random_order"})
    /\ sets' = [sets EXCEPT ![Command.set] = Shuffled(@)]
    /\ NextCommand
    /\ UNCHANGED allVars

RenewCache ==
    /\ At({"renew"})
    /\ Renew
    /\ NextCommand
    /\ UNCHANGED sets

TestStep ==
    /\ Running /\ ~failed
    /\ \/ CallStep
       \/ SmokeGet \/ SmokeDrop \/ GetAll \/ WarmUp \/ DropAll
       \/ LoopEnds \/ HitrateFails \/ RandomOrder \/ RenewCache

\* suite_anon has an implementation without MADV_FREE: nothing is taken from it,
\* and apart from that the chunks are the same.
ReclaimStep ==
    /\ Running /\ ~failed /\ suite # "anon"
    /\ Reclaiming
    /\ UNCHANGED testVars

TestNext == TestStep \/ ReclaimStep

\* One thread runs the suite.
TestSpec == TestInit /\ [][TestNext]_<<allVars, testVars>>
                     /\ WF_<<allVars, testVars>>(TestStep)

----------------------------------------------------------------------------
(* Properties *)

\* The smoke test passes, even while the kernel takes what it can: the current
\* chunk is not under MADV_FREE (test.c:32, :43, :48, :51).
SmokeTestPasses ==
    /\ At({"smoke_fill"}) /\ pc = "got" => count = i
    /\ At({"smoke_read", "smoke_drop"}) => count = SmokeTestCnt
    /\ At({"smoke_drop"}) /\ i > 0 => pc # "absent"
    /\ At({"smoke_fill", "smoke_read", "smoke_drop"}) => Running

\* A new set misses throughout its first pass (test.c:61, "Hitrate1 must be 0");
\* as many keys as the cache has pages all hit in the second, until the kernel
\* takes a page (test.c:161 and :178, a hit rate of 1).
HitratesAsDemanded ==
    /\ At({"first_pass"}) /\ Idling => count = i
    /\ At({"second_pass"}) /\ Cnt[Command.set] <= NumEntries /\ ~reclaimed
           => count = 0

\* testlib_drop_all drops all there is: what is left at the end of a suite is a
\* cache with all pages free, unless the kernel took some.
SuiteLeavesNothing ==
    Done /\ ~reclaimed => /\ total_free_pages = NumEntries
                          /\ \A k \in Key : map[k] = EMPTY_DESC

\* No hit rate ends the program but one that lost pages explain: where nothing
\* is under MADV_FREE none does, and the 70 percent of a set that fits into the
\* cache (test.c:137) are missed only after the kernel took a page.  The 15
\* percent of the larger set (test.c:144) are left to luck: the evicted chunk is
\* a random one, and may each time be the one with the keys to come.
DemandsMet ==
    failed => suite = "lazyfree" /\ (Command.set = "twice" \/ reclaimed)

\* A pass of check_hitrate asks for every key once, in their order, so that its
\* count of refills is one of keys: the end of a pass puts the position back to
\* the start and shuffles (testlib.h:64), and the standard order is set again
\* before the next (testlib.h:80).
PassesInOrder ==
    At({"first_pass", "second_pass"}) =>
        \A n \in Indices(Cnt[Command.set]) :
            asked[KeyOf(Command.set, n)] = IF n < i THEN 1 ELSE 0

\* Every suite comes to its end, unless the loss of a page or a hit rate ends
\* the program: the former only where there are pages to lose, the latter only
\* in suite_lazyfree.
SuiteEnds == <>(\/ Done
                \/ ~Running /\ suite # "anon"
                \/ failed /\ suite = "lazyfree")

----------------------------------------------------------------------------
(* A claim that does not hold *)

\* "Hitrate and latency for both sets are measured on a random permutation of
\* keys" (README.md:154): a measurement asks for no key twice.
MeasuredOnce == At({"measure"}) => \A k \in Key : asked[k] <= 1

=============================================================================
