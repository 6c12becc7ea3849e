------------------------------- MODULE TxPool -------------------------------
(***************************************************************************)
(* The transaction pool's data structure: AllTransactions, which judges    *)
(* every transaction by a handful of state bits, and the four sub-pools it *)
(* is filed in (crates/transaction-pool/src/pool: txpool.rs, state.rs,     *)
(* pending.rs, parked.rs, blob.rs).  Every method that changes the pool is *)
(* an operator from a pool to the pool it leaves behind; TxPoolMaintain    *)
(* runs them concurrently with the chain.                                  *)
(*                                                                         *)
(* A transaction is a record [sender, nonce, fee, blob, cost]: its fee     *)
(* cap, its blob fee cap (0 for a transaction without blobs) and its       *)
(* maximum cost.  The record itself stands for the hash.                   *)
(* Sizes in bytes, gas limits, priority fees, EIP-7702 authorizations and  *)
(* the minimum protocol fee are left out: the size of a sub-pool is its    *)
(* number of transactions, and which of the worst senders is evicted first *)
(* is left open.                                                           *)
(***************************************************************************)
EXTENDS Integers, FiniteSets, Sequences, TLC, SequencesExt, FiniteSetsExt

CONSTANTS
    Senders,        \* the accounts that send transactions
    MaxNonce,       \* bound: nonces are 0 .. MaxNonce
    Limit,          \* SubPoolLimit::max_txs of each sub-pool
    MaxSlots,       \* max_account_slots
    PriceBump,      \* percent a replacement has to pay on top
    BlobPriceBump   \* the same, for blob transactions

SubPools == {"Queued", "BaseFee", "Blob", "Pending"}

ASSUME PoolAssumption ==
    /\ IsFiniteSet(Senders)
    /\ MaxNonce \in Nat
    /\ Limit \in [SubPools -> Nat]
    /\ MaxSlots \in Nat \ {0}
    /\ PriceBump \in Nat
    /\ BlobPriceBump \in Nat

-----------------------------------------------------------------------------
(* The state of a transaction, and the sub-pool it belongs to              *)

\* The bits of TxState that vary: no parked ancestors, no nonce gap, enough
\* balance, fee cap covers the base fee, blob fee cap covers the blob fee.
Bits == {"ancestors", "nonce", "balance", "fee", "blobfee"}

\* is_pending compares the bits as a number with PENDING_POOL_BITS, which is
\* to have them all.
SubPoolOf(tx, state) ==
    CASE state = Bits -> "Pending"
      [] state # Bits /\ tx.blob > 0 -> "Blob"
      [] state # Bits /\ tx.blob = 0 /\ {"ancestors", "nonce", "balance"} \subseteq state -> "BaseFee"
      [] OTHER -> "Queued"

\* Inserts or removes a bit.
With(state, bit, set) == IF set THEN state \cup {bit} ELSE state \ {bit}

Id(tx) == <<tx.sender, tx.nonce>>

\* PoolInternalTransaction: a transaction, its bits, the sub-pool they put it
\* in and the cost of the sender's transactions before it.
Entry(tx, state, cumulative) ==
    [tx |-> tx, state |-> state, subpool |-> SubPoolOf(tx, state), cumulative |-> cumulative]

EmptyPool(baseFee, blobFee) ==
    [txs         |-> <<>>,                         \* AllTransactions::txs, by id
     byHash      |-> {},                           \* AllTransactions::by_hash
     locals      |-> {},                           \* those of local origin
     counter     |-> [s \in Senders |-> 0],        \* AllTransactions::tx_counter
     info        |-> <<>>,                         \* AllTransactions::sender_info
     baseFee     |-> baseFee,                      \* AllTransactions::pending_fees
     blobFee     |-> blobFee,
     subpool     |-> [s \in SubPools |-> {}],      \* what each sub-pool holds
     independent |-> {},                           \* PendingPool::independent_transactions
     highest     |-> {}]                           \* PendingPool::highest_nonces

Nonces == [i \in 1..(MaxNonce + 1) |-> i - 1]

Without(f, x) == [y \in DOMAIN f \ {x} |-> f[y]]

OfSender(txs, s) == {tx \in txs : tx.sender = s}

\* The transactions of txs that have, in failing, one of the same sender and of
\* the same or a lower nonce: those that fail, and their dependents.
AndDependents(txs, failing) ==
    {tx \in txs : \E u \in OfSender(failing, tx.sender) : u.nonce <= tx.nonce}

-----------------------------------------------------------------------------
(* The sub-pools                                                           *)

\* update_independents_and_highest_nonces: the sender's lowest and highest
\* transaction, when one is added.
Lowest(txs, tx) ==
    IF \E u \in OfSender(txs, tx.sender) : u.nonce <= tx.nonce THEN txs
    ELSE (txs \ OfSender(txs, tx.sender)) \cup {tx}

Highest(txs, tx) ==
    IF \E u \in OfSender(txs, tx.sender) : u.nonce >= tx.nonce THEN txs
    ELSE (txs \ OfSender(txs, tx.sender)) \cup {tx}

AddToSubPool(p, s, tx) ==
    IF s = "Pending"
    THEN [p EXCEPT !.subpool[s] = @ \cup {tx},
                   !.independent = Lowest(@, tx),
                   !.highest = Highest(@, tx)]
    ELSE [p EXCEPT !.subpool[s] = @ \cup {tx}]

\* Removing the sender's lowest pending transaction makes the one of the next
\* nonce independent, if it is pending; removing the highest looks for the
\* highest that is left.
RemoveFromPending(p, id, rest) ==
    [p EXCEPT
        !.subpool["Pending"] = rest,
        !.independent = IF \E u \in @ : Id(u) = id
                        THEN (@ \ OfSender(@, id[1]))
                                \cup {u \in rest : Id(u) = <<id[1], id[2] + 1>>}
                        ELSE @,
        !.highest = IF \E u \in @ : Id(u) = id
                    THEN (@ \ OfSender(@, id[1]))
                            \cup {u \in OfSender(rest, id[1]) :
                                    \A v \in OfSender(rest, id[1]) : v.nonce <= u.nonce}
                    ELSE @]

RemoveFromSubPool(p, s, id) ==
    IF s = "Pending" THEN RemoveFromPending(p, id, {u \in p.subpool[s] : Id(u) # id})
    ELSE [p EXCEPT !.subpool[s] = {u \in @ : Id(u) # id}]

\* move_transaction: a transaction that is not in the sub-pool it is moved
\* from is not moved.
Move(p, id, from, to) ==
    IF \E u \in p.subpool[from] : Id(u) = id
    THEN AddToSubPool(RemoveFromSubPool(p, from, id), to, p.txs[id].tx)
    ELSE p

\* The pending sub-pool, cleared and filled again with some of its
\* transactions (PendingPool::update_base_fee, update_blob_fee).
RefillPending(p, kept) ==
    [p EXCEPT
        !.subpool["Pending"] = kept,
        !.independent = {tx \in kept : \A u \in OfSender(kept, tx.sender) : u.nonce >= tx.nonce},
        !.highest = {tx \in kept : \A u \in OfSender(kept, tx.sender) : u.nonce <= tx.nonce}]

-----------------------------------------------------------------------------
(* Removing transactions                                                   *)

\* Takes a transaction out of AllTransactions; with the sender's last one
\* goes what is known of the sender (tx_decr).
Forget(p, id) ==
    [p EXCEPT !.txs = Without(@, id),
              !.byHash = @ \ {p.txs[id].tx},
              !.locals = @ \ {p.txs[id].tx},
              !.counter[id[1]] = @ - 1,
              !.info = IF p.counter[id[1]] = 1 THEN Without(@, id[1]) ELSE @]

\* Removes a transaction from the whole pool and leaves its descendants where
\* they are (remove_transaction, prune_transaction_by_hash and _by_id).
Prune(p, id) ==
    IF id \in DOMAIN p.txs THEN RemoveFromSubPool(Forget(p, id), p.txs[id].subpool, id) ELSE p

\* Prunes a set of transactions, lower nonces first.
PruneAll(p, txs) ==
    FoldLeft(LAMBDA q, n : FoldSet(LAMBDA tx, r : Prune(r, Id(tx)), q, {tx \in txs : tx.nonce = n}),
             p, Nonces)

\* process_updates for the transactions of a sender whose nonces are in ns:
\* moves those whose entry names another sub-pool than it did in before.
MoveChanged(p, before, s, ns) ==
    FoldLeft(LAMBDA q, n :
                IF n \in ns /\ <<s, n>> \in DOMAIN before \cap DOMAIN q.txs
                   /\ before[<<s, n>>].subpool # q.txs[<<s, n>>].subpool
                THEN Move(q, <<s, n>>, before[<<s, n>>].subpool, q.txs[<<s, n>>].subpool)
                ELSE q,
             p, Nonces)

\* park_descendant_transactions
Parked(txs, id) ==
    [i \in DOMAIN txs |->
        IF i[1] = id[1] /\ i[2] >= id[2]
        THEN Entry(txs[i].tx, txs[i].state \ {"nonce"}, txs[i].cumulative)
        ELSE txs[i]]

\* Removes a transaction that was not mined: its descendants have a nonce gap
\* from then on (remove_transaction_by_hash).
RemoveParking(p, q, id) ==
    RemoveFromSubPool(MoveChanged([q EXCEPT !.txs = Parked(@, id)], p.txs, id[1], 0..MaxNonce),
                      p.txs[id].subpool, id)

RemoveTransaction(p, tx) ==
    IF tx \in p.byHash THEN RemoveParking(p, Forget(p, Id(tx)), Id(tx)) ELSE p

RemoveTransactions(p, txs) == FoldSet(LAMBDA tx, q : RemoveTransaction(q, tx), p, txs)

\* remove_transactions_and_descendants
RemoveWithDescendants(p, tx) ==
    PruneAll(RemoveTransaction(p, tx),
             {u \in OfSender(p.byHash, tx.sender) : u.nonce > tx.nonce})

\* remove_transactions_by_sender
RemoveSender(p, s) == PruneAll(p, OfSender(p.byHash, s))

-----------------------------------------------------------------------------
(* Judging a sender's transactions in the order of their nonces            *)

\* What the next transaction in line is judged by: the entries so far, whether
\* one of its ancestors is parked, what they cost together, the nonce that has
\* no gap before it (-1 before the first one), and whether the walk goes on.
Walk(txs, next) == [txs |-> txs, parked |-> FALSE, cost |-> 0, next |-> next, on |-> TRUE]

Halt(w) == [w EXCEPT !.on = FALSE]

\* Variation: the balance is compared with the transaction's own cost only.
InLineOwnCost(w, e, funds) ==
    With(IF funds = {} THEN e.state \cup {"nonce"}
         ELSE With(e.state \cup {"nonce"}, "balance", \A b \in funds : e.tx.cost <= b),
         "ancestors", ~w.parked)

\* The bits of a transaction in line; funds is empty when the balance of the
\* sender is not looked at.
InLine(w, e, funds) ==
    With(IF funds = {} THEN e.state \cup {"nonce"}
         ELSE With(e.state \cup {"nonce"}, "balance", \A b \in funds : w.cost + e.tx.cost <= b),
         "ancestors", ~w.parked)

\* The walk after a transaction: it parks the ones after it unless it is
\* pending by the bits in judged.
Onward(w, tx, cumulative, judged, state) ==
    [txs    |-> [w.txs EXCEPT ![Id(tx)] = Entry(tx, state, cumulative)],
     parked |-> judged # Bits,
     cost   |-> cumulative + tx.cost,
     next   |-> tx.nonce + 1,
     on     |-> TRUE]

\* update_tx_base_fee
WithFee(state, tx, baseFee) == With(state, "fee", tx.fee >= baseFee)

\* The sender's first transaction in AllTransactions::update.  If the account
\* changed and this is its next transaction, it has no gap and no ancestor.
IsNext(tx, changed) == tx.sender \in DOMAIN changed /\ tx.nonce = changed[tx.sender].nonce

First(e, changed) ==
    IF IsNext(e.tx, changed)
    THEN With(e.state \cup {"nonce", "ancestors"}, "balance",
              e.tx.cost <= changed[e.tx.sender].balance)
    ELSE e.state

UpdateFirst(w, e, changed, baseFee) ==
    IF "nonce" \notin First(e, changed) THEN Halt(w)
    ELSE LET judged == WithFee(First(e, changed) \cup {"ancestors"}, e.tx, baseFee)
         IN Onward(w, e.tx, IF IsNext(e.tx, changed) THEN 0 ELSE e.cumulative, judged, judged)

\* A later transaction is taken for pending or parked before its fee is
\* compared with the new base fee.
UpdateLater(w, e, judged, baseFee) ==
    Onward(w, e.tx, w.cost, judged, WithFee(judged, e.tx, baseFee))

\* AllTransactions::update for one sender, up to the first gap; its balance
\* is looked at only if its account changed.
UpdateSender(txs, s, changed, baseFee) ==
    FoldLeft(LAMBDA w, n :
                IF \/ ~w.on
                   \/ <<s, n>> \notin DOMAIN w.txs
                   \/ s \in DOMAIN changed /\ n < changed[s].nonce
                THEN w
                ELSE IF w.next = -1 THEN UpdateFirst(w, w.txs[<<s, n>>], changed, baseFee)
                ELSE IF w.next # n THEN Halt(w)
                ELSE UpdateLater(w, w.txs[<<s, n>>],
                                 InLine(w, w.txs[<<s, n>>],
                                        {changed[t].balance : t \in {s} \cap DOMAIN changed}),
                                 baseFee),
             Walk(txs, -1), Nonces).txs

\* What AllTransactions::update and process_updates do to one sender:
\* transactions below the account's nonce are discarded, the others judged
\* again and moved.
Outdated(p, s, changed) ==
    {tx \in OfSender(p.byHash, s) : s \in DOMAIN changed /\ tx.nonce < changed[s].nonce}

UpdateOne(p, s, changed) ==
    MoveChanged(PruneAll([p EXCEPT !.txs = UpdateSender(@, s, changed, p.baseFee)],
                         Outdated(p, s, changed)),
                p.txs, s, 0..MaxNonce)

\* update_accounts: judges the transactions of every sender again, with the
\* new account of those in changed.
UpdateAccounts(p, changed) ==
    FoldSet(LAMBDA s, q : UpdateOne(q, s, changed), [p EXCEPT !.info = changed @@ @], Senders)

-----------------------------------------------------------------------------
(* Fees                                                                    *)

\* Files transactions taken out of a sub-pool again, with some bits added and
\* some removed.
Refile(p, txs, added, removed) ==
    FoldSet(LAMBDA tx, q :
                LET e == Entry(tx, (q.txs[Id(tx)].state \cup added) \ removed,
                               q.txs[Id(tx)].cumulative)
                IN AddToSubPool([q EXCEPT !.txs[Id(tx)] = e], e.subpool, tx),
            p, txs)

\* update_basefee.  A higher base fee takes every pending transaction that
\* does not pay it, with its dependents, out of the pending sub-pool; a lower
\* one takes from the base fee sub-pool those that do pay it, unless an earlier
\* transaction of the sender in that sub-pool does not.
UpdateBaseFee(p, old, fee) ==
    IF fee > old
    THEN LET gone == AndDependents(p.subpool["Pending"],
                                   {u \in p.subpool["Pending"] : u.fee < fee})
         IN Refile(RefillPending(p, p.subpool["Pending"] \ gone), gone, {}, {"fee"})
    ELSE IF fee < old
    THEN LET stay == AndDependents(p.subpool["BaseFee"],
                                   {u \in p.subpool["BaseFee"] : u.fee < fee})
         IN Refile([p EXCEPT !.subpool["BaseFee"] = stay], p.subpool["BaseFee"] \ stay, {"fee"}, {})
    ELSE p

\* update_blob_fee, given how the base fee moved: if either fell, blob
\* transactions are promoted; only otherwise does a higher blob fee demote.
UpdateBlobFee(p, old, fee, baseFell) ==
    IF fee < old \/ baseFell
    THEN LET stay == AndDependents(p.subpool["Blob"],
                                   {u \in p.subpool["Blob"] : u.blob < fee \/ u.fee < p.baseFee})
         IN Refile([p EXCEPT !.subpool["Blob"] = stay], p.subpool["Blob"] \ stay,
                   {"fee", "blobfee"}, {})
    ELSE IF fee > old
    THEN LET gone == AndDependents(p.subpool["Pending"],
                                   {u \in p.subpool["Pending"] : u.blob > 0 /\ u.blob < fee})
         IN Refile(RefillPending(p, p.subpool["Pending"] \ gone), gone, {}, {"blobfee"})
    ELSE p

\* set_block_info, and apply_fee_updates after the fees were set
ApplyFees(p, oldBase, oldBlob, baseFee, blobFee) ==
    UpdateBlobFee(UpdateBaseFee([p EXCEPT !.baseFee = baseFee, !.blobFee = blobFee],
                                oldBase, baseFee),
                  oldBlob, blobFee, baseFee < oldBase)

SetBlockInfo(p, baseFee, blobFee) == ApplyFees(p, p.baseFee, p.blobFee, baseFee, blobFee)

\* on_canonical_state_change: mined transactions go, then every sender is
\* judged by the new fees, then the sub-pools follow the change of the fees.
OnCanonicalStateChange(p, mined, changed, baseFee, blobFee) ==
    ApplyFees(UpdateAccounts([PruneAll(p, mined \cap p.byHash)
                                EXCEPT !.baseFee = baseFee, !.blobFee = blobFee],
                             changed),
              p.baseFee, p.blobFee, baseFee, blobFee)

-----------------------------------------------------------------------------
(* Inserting a transaction                                                 *)

Bumped(fee, percent) == (fee * (100 + percent) + 99) \div 100

IsUnderpriced(old, new) ==
    \/ new.fee < Bumped(old.fee, IF old.blob > 0 THEN BlobPriceBump ELSE PriceBump)
    \/ old.blob > 0 /\ new.blob < Bumped(old.blob, BlobPriceBump)

\* What the sender's transactions from a nonce up to another cost together.
CostBetween(p, s, from, to) ==
    FoldSet(LAMBDA tx, sum : sum + tx.cost, 0,
            {tx \in OfSender(p.byHash, s) : from < tx.nonce /\ tx.nonce <= to})

\* ensure_valid_blob_transaction: no nonce gap, no overdraft, and a
\* replacement must not push a later blob transaction into overdraft.
BlobRejected(p, tx, account) ==
    IF tx.nonce <= account.nonce THEN tx.cost > account.balance
    ELSE LET ancestor == <<tx.sender, tx.nonce - 1>>
         IN \/ ancestor \notin DOMAIN p.txs
            \/ "nonce" \notin p.txs[ancestor].state
            \/ LET before == p.txs[ancestor].cumulative + p.txs[ancestor].tx.cost + tx.cost
               IN \/ before > account.balance
                  \/ /\ Id(tx) \in DOMAIN p.txs
                     /\ \E u \in OfSender(p.byHash, tx.sender) :
                           /\ u.nonce > tx.nonce /\ u.blob > 0
                           /\ before + CostBetween(p, tx.sender, tx.nonce, u.nonce)
                                > account.balance

\* The insertions that fail (ensure_valid, the blob checks, is_underpriced).
InsertFails(p, tx, account, local) ==
    \/ ~local /\ p.counter[tx.sender] >= MaxSlots /\ tx.nonce > account.nonce
    \/ \E u \in OfSender(p.byHash, tx.sender) :
          /\ \A v \in OfSender(p.byHash, tx.sender) : u.nonce <= v.nonce
          /\ (u.blob > 0) # (tx.blob > 0)
    \/ tx.blob > 0 /\ BlobRejected(p, tx, account)
    \/ Id(tx) \in DOMAIN p.txs /\ IsUnderpriced(p.txs[Id(tx)].tx, tx)

\* The entry of a new transaction, before the sender's transactions are walked.
NewEntry(p, tx, account) ==
    Entry(tx,
          {b \in Bits : \/ b \in {"nonce", "ancestors"} /\ tx.nonce <= account.nonce
                        \/ b = "fee" /\ tx.fee >= p.baseFee
                        \/ b = "blobfee" /\ (tx.blob = 0 \/ tx.blob >= p.blobFee)},
          0)

\* The end of insert_tx: walks the sender's transactions from the account's
\* nonce up to the first gap.
WalkFrom(txs, s, account) ==
    FoldLeft(LAMBDA w, n :
                IF ~w.on \/ n < account.nonce THEN w
                ELSE IF <<s, n>> \notin DOMAIN w.txs THEN Halt(w)
                ELSE Onward(w, w.txs[<<s, n>>].tx, w.cost,
                            InLine(w, w.txs[<<s, n>>], {account.balance}),
                            InLine(w, w.txs[<<s, n>>], {account.balance})),
             Walk(txs, account.nonce), Nonces).txs

InsertTx(p, tx, account, local) ==
    [p EXCEPT !.txs = WalkFrom((Id(tx) :> NewEntry(p, tx, account)) @@ @, tx.sender, account),
              !.byHash = {u \in @ : Id(u) # Id(tx)} \cup {tx},
              !.locals = {u \in @ : Id(u) # Id(tx)} \cup {u \in {tx} : local},
              !.counter[tx.sender] = IF Id(tx) \in DOMAIN p.txs THEN @ ELSE @ + 1]

\* Variation: the replaced transaction stays in its sub-pool.
AddNewKeepsReplaced(p, old, tx) == AddToSubPool(p, p.txs[Id(tx)].subpool, tx)

\* add_new_transaction
AddNew(p, old, tx) ==
    AddToSubPool(IF Id(tx) \in DOMAIN old THEN RemoveFromSubPool(p, old[Id(tx)].subpool, Id(tx)) ELSE p,
                 p.txs[Id(tx)].subpool, tx)

\* add_transaction: the sender's account is noted even if the insertion
\* fails.  Lower nonces move first, then the new one is added, then higher
\* ones move, so that a reader of new pending transactions sees them in order.
Known(p, tx, account) == [p EXCEPT !.info = (tx.sender :> account) @@ @]

AddTransaction(p, tx, account, local) ==
    IF tx \in p.byHash THEN p
    ELSE IF InsertFails(p, tx, account, local) THEN Known(p, tx, account)
    ELSE MoveChanged(
            AddNew(MoveChanged(InsertTx(Known(p, tx, account), tx, account, local),
                               p.txs, tx.sender, 0..(tx.nonce - 1)),
                   p.txs, tx),
            p.txs, tx.sender, (tx.nonce + 1)..MaxNonce)

-----------------------------------------------------------------------------
(* Limits                                                                  *)

\* The pending sub-pool drops the highest nonces of its senders, those of
\* local transactions only once nothing else is left to drop.
DropsFromPending(all, locals, dropped) ==
    /\ \A tx \in dropped : \A u \in OfSender(all, tx.sender) : u.nonce > tx.nonce => u \in dropped
    /\ dropped \cap locals # {} =>
         \A tx \in all :
            (\A u \in OfSender(all, tx.sender) : u.nonce >= tx.nonce => u \notin locals) => tx \in dropped

\* A parked sub-pool drops one sender's transactions after the other's,
\* highest nonces first.
DropsFromParked(all, dropped) ==
    /\ \A tx \in dropped : \A u \in OfSender(all, tx.sender) : u.nonce > tx.nonce => u \in dropped
    /\ Cardinality({s \in Senders : /\ OfSender(dropped, s) # {}
                                    /\ OfSender(dropped, s) # OfSender(all, s)}) <= 1

\* What truncate_pool may remove; the blob sub-pool drops by priority alone.
Truncations(s, all, locals) ==
    {dropped \in SUBSET all :
        /\ Cardinality(dropped) = IF Cardinality(all) > Limit[s] THEN Cardinality(all) - Limit[s] ELSE 0
        /\ s = "Pending" => DropsFromPending(all, locals, dropped)
        /\ s \in {"BaseFee", "Queued"} => DropsFromParked(all, dropped)}

\* Variation: the descendants of what is dropped stay.
TruncatedAlone(p, s) ==
    {PruneAll(p, dropped) : dropped \in Truncations(s, p.subpool[s], p.locals)}

\* The pools after one sub-pool was truncated: what is dropped goes with all
\* its descendants, whichever sub-pool they are in.
Truncated(p, s) ==
    {PruneAll(p, {tx \in p.byHash : \E u \in OfSender(dropped, tx.sender) : u.nonce <= tx.nonce}) :
        dropped \in Truncations(s, p.subpool[s], p.locals)}

\* discard_worst
DiscardWorst(p) ==
    UNION {UNION {UNION {Truncated(q3, "Queued") : q3 \in Truncated(q2, "Blob")}
                    : q2 \in Truncated(q1, "BaseFee")}
             : q1 \in Truncated(p, "Pending")}
=============================================================================
