------------------------------ MODULE MCTxPool ------------------------------
(***************************************************************************)
(* The transaction pool in five small surroundings, each of which makes    *)
(* one kind of trouble happen; two senders, at most three nonces.          *)
(***************************************************************************)
EXTENDS TxPoolMaintain

Tx(sender, nonce, fee, blob) ==
    [sender |-> sender, nonce |-> nonce, fee |-> fee, blob |-> blob, cost |-> 1]

At(base, blob) == [base |-> base, blob |-> blob]

Funded(balance) == [s \in Senders |-> [nonce |-> 0, balance |-> balance]]

\* Blocks and reorgs faster than the task: notifications are lost, commits are
\* too deep to apply, reloads fail and are overtaken.
Drift ==
    [txs |-> {Tx(1, 0, 1, 0), Tx(2, 0, 1, 0)}, locals |-> {}, accounts |-> Funded(1),
     fees |-> {At(1, 1)}, funding |-> {}, removals |-> FALSE, mined |-> 1, blocks |-> 3, failures |-> 1]

\* Three transactions of a sender who can pay for two, and a base fee that the
\* middle one does not always pay.
Swing ==
    [txs |-> {Tx(1, 0, 2, 0), Tx(1, 1, 1, 0), Tx(1, 2, 2, 0)}, locals |-> {}, accounts |-> Funded(2),
     fees |-> {At(1, 1), At(2, 1)}, funding |-> {}, removals |-> FALSE, mined |-> 1, blocks |-> 2,
     failures |-> 0]

\* Blob transactions, a replacement and a transaction of the other type, while
\* the two fees move in opposite directions.
Blobs4844 ==
    [txs |-> {Tx(2, 0, 2, 2), Tx(2, 1, 1, 2), Tx(2, 0, 4, 4), Tx(2, 1, 3, 0)}, locals |-> {},
     accounts |-> Funded(2), fees |-> {At(2, 2), At(1, 3)}, funding |-> {}, removals |-> FALSE,
     mined |-> 1, blocks |-> 2, failures |-> 0]

\* More transactions than the sub-pools hold, two of them local.
Crowd ==
    [txs |-> {Tx(1, 0, 1, 0), Tx(1, 1, 2, 0), Tx(1, 2, 2, 0), Tx(2, 0, 2, 0), Tx(2, 1, 2, 0)},
     locals |-> {Tx(2, 1, 2, 0), Tx(1, 1, 2, 0)}, accounts |-> Funded(2), fees |-> {At(1, 1), At(2, 1)},
     funding |-> {}, removals |-> FALSE, mined |-> 1, blocks |-> 1, failures |-> 0]

\* Transactions removed through the pool's API, and a replacement.
Removal ==
    [txs |-> {Tx(1, 0, 2, 0), Tx(1, 0, 3, 0), Tx(1, 1, 2, 0), Tx(1, 2, 2, 0)}, locals |-> {},
     accounts |-> Funded(2), fees |-> {At(1, 1)}, funding |-> {1}, removals |-> TRUE, mined |-> 1,
     blocks |-> 1, failures |-> 0]

MCWorlds == {Drift, Swing, Blobs4844, Crowd, Removal}
MCLimit == [s \in SubPools |-> 2]
=============================================================================
