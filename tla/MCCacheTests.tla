---------------------------- MODULE MCCacheTests ----------------------------
(* CacheTests for TLC: the keys of the largest suite. *)
EXTENDS CacheTests

TestKeys == 1 .. SmokeTestCnt + 3 * NumEntries

=============================================================================
