----------------------------- MODULE MCStorage -----------------------------
(* Instances of Storage for TLC: a base block with one transaction, an empty *)
(* block, and two blocks that compete for the same transaction, as blocks of *)
(* two branches do.                                                          *)
EXTENDS Storage

g == [txs |-> <<"t0">>, accounts |-> <<"x">>]
e == [txs |-> <<>>, accounts |-> <<>>]
a == [txs |-> <<"t1">>, accounts |-> <<"x">>]
b == [txs |-> <<"t2", "t1">>, accounts |-> <<"y">>]

MCBlocks == {g, e, a, b}
MCBase == <<g>>

\* A chain without transactions, as a new network has.
MCEmptyBase == <<e>>
=============================================================================
