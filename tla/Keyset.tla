------------------------------- MODULE Keyset -------------------------------
(***************************************************************************)
(* struct testlib_keyset (testlib.h): cnt keys from a random seed on,      *)
(* asked for in the order of a permutation, and a position in it that      *)
(* outlives a pass.  At the end of the permutation it is shuffled, in the  *)
(* middle of a pass that did not begin at its start.                       *)
(*                                                                         *)
(* A shuffle is done when the next key is asked for: until then nobody     *)
(* looks at the order.                                                     *)
(***************************************************************************)
EXTENDS Integers, SequencesExt

Indices(cnt) == 0 .. cnt - 1

StandardOrder(cnt) == [n \in Indices(cnt) |-> n]

\* A permutation of cnt indices and a position in it; the order is shuffled
\* before the next key is asked for, or not.
KeysetOf(cnt) ==
    [permutation : {p \in [Indices(cnt) -> Indices(cnt)] : IsInjective(p)},
     pos : Indices(cnt), shuffled : BOOLEAN]

\* testlib_init_keyset
InitKeyset(cnt) ==
    [permutation |-> StandardOrder(cnt), pos |-> 0, shuffled |-> FALSE]

\* keyset->cnt
CntOf(set) == Cardinality(DOMAIN set.permutation)

Swap(p, n, m) == [p EXCEPT ![n] = p[m], ![m] = p[n]]

\* testlib_set_random_order: each place in turn is swapped with any place.
SwapOrders(p) ==
    FoldLeft(LAMBDA orders, n :
                 {Swap(q, n - 1, m) : q \in orders, m \in DOMAIN p},
             {p},
             [n \in 1 .. Cardinality(DOMAIN p) |-> n])

\* The orders it may leave: all there are.
RandomOrders(p) == {q \in [DOMAIN p -> Range(p)] : IsInjective(q)}

ASSUME ShuffleAssumption ==
    \A cnt \in 0 .. 4 :
        RandomOrders(StandardOrder(cnt)) = SwapOrders(StandardOrder(cnt))

\* The orders the next key may be taken from.
Orders(set) ==
    IF set.shuffled THEN RandomOrders(set.permutation) ELSE {set.permutation}

\* Mutant: the position runs on at the end.
AfterGetRunsOn(set, p) ==
    [permutation |-> p, pos |-> set.pos + 1,
     shuffled    |-> set.pos + 1 = CntOf(set)]

\* What testlib_get_one leaves of a keyset with order p.
AfterGet(set, p) ==
    [permutation |-> p,
     pos         |-> (set.pos + 1) % CntOf(set),
     shuffled    |-> set.pos + 1 = CntOf(set)]

\* Mutant: a pass leaves the order it ended with.
StandardLeft(set) == set

\* testlib_set_standard_order and testlib_set_random_order leave the position.
Standard(set) == [permutation |-> StandardOrder(CntOf(set)), pos |-> set.pos,
                  shuffled |-> FALSE]
Shuffled(set) == [set EXCEPT !.shuffled = TRUE]

=============================================================================
