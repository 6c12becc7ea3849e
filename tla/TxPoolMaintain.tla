--------------------------- MODULE TxPoolMaintain ---------------------------
(***************************************************************************)
(* The transaction pool while the chain moves: submissions are validated   *)
(* against the latest state and inserted later (lib.rs, pool/mod.rs), and  *)
(* the maintenance task follows the canonical notifications, reloads the   *)
(* accounts it may have missed and re-injects what a reorg took out of the *)
(* chain (maintain.rs).  The chain itself is the environment.              *)
(*                                                                         *)
(* The maintenance task is a loop.  Its top, which starts a reload of the  *)
(* dirty accounts, runs before every wait, so every action of the task     *)
(* ends with it (LoopTop).  Accounts are records [nonce, balance].         *)
(***************************************************************************)
EXTENDS TxPool

CONSTANTS
    Worlds,          \* the surroundings of the pool, one of which Init picks:
                     \*   txs       the transactions that are ever submitted or mined
                     \*   locals    those of them that are submitted locally, none of them with
                     \*             no_local_exemptions
                     \*   accounts  the accounts in the first block
                     \*   fees      what the fees of the next block may be: [base, blob]
                     \*   funding   the senders that may receive funds in a block
                     \*   removals  whether the pool's API removes transactions
                     \*   mined     bound: transactions in a block
                     \*   blocks    bound: blocks ever produced
                     \*   failures  bound: accounts that cannot be loaded
    MaxUpdateDepth,  \* MaintainPoolConfig::max_update_depth
    MaxReload,       \* MaintainPoolConfig::max_reload_accounts
    QueueSize        \* capacity of the notification channel

ASSUME MaintainAssumption ==
    /\ MaxUpdateDepth \in Nat
    /\ MaxReload \in Nat \ {0}
    /\ QueueSize \in Nat \ {0}

VARIABLES
    world,       \* the surroundings, which do not change
    pool,        \* the pool
    seen,        \* its last seen block
    chain,       \* the canonical chain
    produced,    \* how many blocks there are, canonical or not
    events,      \* canonical notifications not yet handled
    firstEvent,  \* no notification was handled yet
    drifted,     \* the pool may have missed something (MaintainedPoolState)
    dirty,       \* accounts the task knows to be out of sync
    reload,      \* the reload in flight: its accounts and where it reads, or empty
    failures,    \* how many loads failed
    reinject,    \* what a reorg took out, on its way back: [step, txs]
    validating,  \* submissions that are validated and not yet inserted
    misled       \* history: senders whose account the pool last learned too late

vars == <<world, pool, seen, chain, produced, events, firstEvent, drifted, dirty, reload,
          failures, reinject, validating, misled>>

envVars == <<world, chain, produced, events>>
taskVars == <<seen, firstEvent, drifted, dirty, reload, reinject>>

-----------------------------------------------------------------------------
(* The chain                                                               *)

Tip == chain[Len(chain)]

\* Transactions that execute one after the other on the given accounts.
Executes(accounts, mined) ==
    \A s \in Senders :
        /\ {tx.nonce : tx \in OfSender(mined, s)}
              = accounts[s].nonce..(accounts[s].nonce + Cardinality(OfSender(mined, s)) - 1)
        /\ FoldSet(LAMBDA tx, sum : sum + tx.cost, 0, OfSender(mined, s)) <= accounts[s].balance

\* The accounts after a block, in which some senders also receive funds.
After(accounts, mined, funded) ==
    [s \in Senders |->
        [nonce   |-> accounts[s].nonce + Cardinality(OfSender(mined, s)),
         balance |-> accounts[s].balance + (IF s \in funded THEN 1 ELSE 0)
                        - FoldSet(LAMBDA tx, sum : sum + tx.cost, 0, OfSender(mined, s))]]

\* The accounts that differ between two blocks.
Changed(from, to) == {s \in Senders : from[s] # to[s]}

\* The accounts that a chain of blocks changed.
ChangedIn(blocks) == UNION {b.changed : b \in blocks}

Blocks(parent) ==
    {[id |-> produced + 1, parent |-> parent.id, number |-> parent.number + 1,
      accounts |-> After(parent.accounts, mined, funded), mined |-> mined,
      changed |-> Changed(parent.accounts, After(parent.accounts, mined, funded)),
      fees |-> fees] :
        mined \in {m \in SUBSET world.txs : Cardinality(m) <= world.mined /\ Executes(parent.accounts, m)},
        funded \in SUBSET world.funding,
        fees \in world.fees}

\* Sends a notification; a receiver that lags loses the oldest one, which the
\* stream skips silently (CanonStateNotificationStream).
Notify(event) ==
    events' = IF Len(events) < QueueSize THEN Append(events, event) ELSE Append(Tail(events), event)

\* A block becomes canonical on top of the first k blocks of the chain.
Produce(k) ==
    /\ produced < world.blocks
    /\ produced' = produced + 1
    /\ \E block \in Blocks(chain[k]) :
          /\ chain' = Append(SubSeq(chain, 1, k), block)
          /\ Notify([old |-> Range(SubSeq(chain, k + 1, Len(chain))), new |-> block])
    /\ UNCHANGED <<world, taskVars, pool, failures, validating, misled>>

ChainCommit == Produce(Len(chain))

ChainReorg == \E k \in 1..Len(chain) - 1 : Produce(k)

-----------------------------------------------------------------------------
(* Submissions                                                             *)

Accepts(account, tx) == account.nonce <= tx.nonce /\ tx.cost <= account.balance

\* What the validator lets through, with the accounts it read.
Validated(txs, locals) ==
    {[tx |-> tx, account |-> Tip.accounts[tx.sender], local |-> tx \in locals] :
        tx \in {t \in txs : Accepts(Tip.accounts[t.sender], t)}}

\* validate: reads the sender's account from the latest state.
Validate(tx) ==
    /\ Accepts(Tip.accounts[tx.sender], tx)
    /\ validating = {}
    /\ validating' = Validated({tx}, world.locals)
    /\ UNCHANGED <<envVars, taskVars, pool, failures, misled>>

\* The senders among the given ones whose account is not the latest.
Late(known) == {s \in DOMAIN known : known[s] # Tip.accounts[s]}

\* add_transactions: inserts in order, and enforces the limits if anything
\* was added.
AddAll(p, valid) ==
    FoldLeft(LAMBDA q, n : FoldSet(LAMBDA v, r : AddTransaction(r, v.tx, v.account, v.local), q,
                                   {v \in valid : v.tx.nonce = n}),
             p, Nonces)

Added(p, valid) ==
    IF AddAll(p, valid).byHash = p.byHash THEN {AddAll(p, valid)}
    ELSE DiscardWorst(AddAll(p, valid))

AccountsOf(valid) ==
    [s \in {v.tx.sender : v \in valid} |-> (CHOOSE v \in valid : v.tx.sender = s).account]

Insert ==
    /\ validating # {}
    /\ pool' \in Added(pool, validating)
    /\ validating' = {}
    /\ misled' = misled \cup Late(AccountsOf({v \in validating : v.tx \notin pool.byHash}))
    /\ UNCHANGED <<envVars, taskVars, failures>>

\* The pool's API: remove_transactions, remove_transactions_and_descendants,
\* remove_transactions_by_sender.
Discard(tx) ==
    /\ world.removals
    /\ tx \in pool.byHash
    /\ pool' \in {RemoveTransaction(pool, tx), RemoveWithDescendants(pool, tx),
                  RemoveSender(pool, tx.sender)}
    /\ UNCHANGED <<envVars, taskVars, failures, validating, misled>>

-----------------------------------------------------------------------------
(* The maintenance task                                                    *)

\* The top of the loop: a pool that drifted has every sender of the pool
\* reloaded, and a reload starts unless one is in flight.  It reads the state
\* of the block the pool has seen last.
Chunks(due, inFlight) ==
    {c \in SUBSET due :
        Cardinality(c) = IF inFlight # {} THEN 0
                         ELSE IF Cardinality(due) > MaxReload THEN MaxReload ELSE Cardinality(due)}

LoopTop(p, last, hasDrifted, outOfSync, inFlight) ==
    LET due == IF hasDrifted THEN {tx.sender : tx \in p.byHash} ELSE outOfSync
    IN \E chunk \in Chunks(due, inFlight) :
        /\ dirty' = due \ chunk
        /\ reload' = IF chunk = {} THEN inFlight ELSE {[of |-> chunk, at |-> last]}
        /\ drifted' = FALSE

\* The accounts of some senders as of a block.
Load(block, senders) == [s \in senders |-> block.accounts[s]]

\* Some accounts cannot be loaded.
Fail(failed) ==
    /\ Cardinality(failed) + failures <= world.failures
    /\ failures' = failures + Cardinality(failed)

\* The task waits for something to happen, rather than for a re-injection.
Waiting == reinject.step = "none"

Depth(block) ==
    IF block.number > seen.number THEN block.number - seen.number ELSE seen.number - block.number

\* A commit too far from the pool's block: only its fees are taken over.
SkipCommit(block) ==
    /\ Depth(block) > MaxUpdateDepth
    /\ pool' = SetBlockInfo(pool, block.fees.base, block.fees.blob)
    /\ LoopTop(pool', block, TRUE, dirty, reload)
    /\ UNCHANGED misled

\* Variation: a commit that does not follow the pool's block is not noticed.
ApplyCommitUnchecked(block) ==
    /\ Depth(block) <= MaxUpdateDepth
    /\ pool' = OnCanonicalStateChange(pool, block.mined, Load(block, block.changed),
                                      block.fees.base, block.fees.blob)
    /\ LoopTop(pool', block, firstEvent, dirty \ block.changed, reload)
    /\ misled' = misled \ block.changed

\* A commit: the accounts it changed are no longer dirty.
ApplyCommit(block) ==
    /\ Depth(block) <= MaxUpdateDepth
    /\ pool' = OnCanonicalStateChange(pool, block.mined, Load(block, block.changed),
                                      block.fees.base, block.fees.blob)
    /\ LoopTop(pool', block, firstEvent \/ block.parent # seen.id, dirty \ block.changed, reload)
    /\ misled' = misled \ block.changed

Handled ==
    /\ seen' = events[1].new
    /\ firstEvent' = FALSE
    /\ events' = Tail(events)

OnCommit ==
    /\ Waiting
    /\ events # <<>>
    /\ events[1].old = {}
    /\ SkipCommit(events[1].new) \/ ApplyCommit(events[1].new)
    /\ Handled
    /\ UNCHANGED <<world, chain, produced, failures, reinject, validating>>

\* A reorg: accounts that only the old blocks changed are loaded at the new
\* one, and what only they mined is re-injected while the task waits.
ApplyReorg(old, new, failed) ==
    LET loaded == (ChangedIn(old) \cup new.changed) \ failed
    IN  /\ pool' = OnCanonicalStateChange(pool, new.mined, Load(new, loaded),
                                          new.fees.base, new.fees.blob)
        /\ reinject' = [step |-> "validate", txs |-> UNION {b.mined : b \in old} \ new.mined]
        /\ drifted' = (firstEvent \/ new.parent # seen.id)
        /\ dirty' = dirty \cup failed
        /\ misled' = misled \ loaded

OnReorg ==
    /\ Waiting
    /\ events # <<>>
    /\ events[1].old # {}
    /\ \E failed \in SUBSET (ChangedIn(events[1].old) \ events[1].new.changed) :
          Fail(failed) /\ ApplyReorg(events[1].old, events[1].new, failed)
    /\ Handled
    /\ UNCHANGED <<world, chain, produced, reload, validating>>

\* add_external_transactions, awaited: the validator reads the latest state,
\* and the insertion follows later.
ReinjectValidate ==
    /\ reinject.step = "validate"
    /\ reinject' = [step |-> "insert", txs |-> Validated(reinject.txs, {})]
    /\ UNCHANGED <<envVars, seen, firstEvent, drifted, dirty, reload, pool, failures, validating, misled>>

ReinjectInsert ==
    /\ reinject.step = "insert"
    /\ pool' \in Added(pool, reinject.txs)
    /\ reinject' = [step |-> "none", txs |-> {}]
    /\ misled' = misled \cup Late(AccountsOf({v \in reinject.txs : v.tx \notin pool.byHash}))
    /\ LoopTop(pool', seen, drifted, dirty, reload)
    /\ UNCHANGED <<envVars, seen, firstEvent, failures, validating>>

\* The reload comes back: with its accounts except the ones that could not be
\* loaded, with nothing because the state is not available, or not at all
\* because its task panicked.
Reloaded(r) ==
    \E failed \in SUBSET r.of :
        /\ Fail(failed)
        /\ pool' = UpdateAccounts(pool, Load(r.at, r.of \ failed))
        /\ misled' = (misled \ (r.of \ failed)) \cup Late(Load(r.at, r.of \ failed))
        /\ LoopTop(pool', seen, FALSE, dirty \cup failed, {})

ReloadFails(r) ==
    /\ Fail({1})
    /\ \/ LoopTop(pool, seen, FALSE, dirty \cup r.of, {})
       \/ LoopTop(pool, seen, TRUE, dirty, {})
    /\ UNCHANGED <<pool, misled>>

OnReloaded ==
    /\ Waiting
    /\ \E r \in reload : Reloaded(r) \/ ReloadFails(r)
    /\ UNCHANGED <<envVars, seen, firstEvent, reinject, validating>>

\* The eviction interval: some parked transactions that are not local have
\* outlived their time.
OnStale ==
    /\ Waiting
    /\ \E stale \in SUBSET ((pool.subpool["BaseFee"] \cup pool.subpool["Queued"]) \ pool.locals) \ {{}} :
          pool' = RemoveTransactions(pool, stale)
    /\ LoopTop(pool', seen, FALSE, dirty, reload)
    /\ UNCHANGED <<envVars, seen, firstEvent, reinject, failures, validating, misled>>

-----------------------------------------------------------------------------
Genesis(w, fees) ==
    [id |-> 0, parent |-> -1, number |-> 0, accounts |-> w.accounts, mined |-> {},
     changed |-> {}, fees |-> fees]

\* The task starts by pointing the pool to the latest block.
Init ==
    \E w \in Worlds : \E fees \in w.fees :
        /\ world = w
        /\ pool = EmptyPool(fees.base, fees.blob)
        /\ seen = Genesis(w, fees)
        /\ chain = <<Genesis(w, fees)>>
        /\ produced = 0
        /\ events = <<>>
        /\ firstEvent = TRUE
        /\ drifted = FALSE
        /\ dirty = {}
        /\ reload = {}
        /\ failures = 0
        /\ reinject = [step |-> "none", txs |-> {}]
        /\ validating = {}
        /\ misled = {}

Next ==
    \/ ChainCommit
    \/ ChainReorg
    \/ \E tx \in world.txs : Validate(tx) \/ Discard(tx)
    \/ Insert
    \/ OnCommit
    \/ OnReorg
    \/ ReinjectValidate
    \/ ReinjectInsert
    \/ OnReloaded
    \/ OnStale

Spec == Init /\ [][Next]_vars

-----------------------------------------------------------------------------
(* Properties                                                              *)

\* Types of the state: the pool holds transactions that exist, the task
\* follows blocks that exist.
TypeOK ==
    /\ DOMAIN pool.txs \subseteq Senders \X (0..MaxNonce)
    /\ \A id \in DOMAIN pool.txs : pool.txs[id].tx \in world.txs /\ pool.txs[id].state \subseteq Bits
    /\ DOMAIN pool.info \subseteq Senders
    /\ \A s \in Senders : pool.counter[s] \in 0..(MaxNonce + 1)
    /\ seen.number \in 0..world.blocks
    /\ dirty \cup misled \subseteq Senders
    /\ reinject.step \in {"none", "validate", "insert"}

\* The pool keeps every transaction in four places: by id, by hash, in the
\* count of its sender and in exactly one sub-pool, the one its state bits
\* name; it knows the account of every sender it holds a transaction of; and
\* the pending sub-pool tracks the highest of each sender, from which it
\* evicts, and offers none to a block before a lower one of the same sender.
\* Each of these is updated by hand on every path that inserts, replaces,
\* moves, discards or evicts (TxPool::assert_invariants checks the sizes).
SubPoolsAgree ==
    /\ TypeOK
    /\ pool.byHash = {pool.txs[id].tx : id \in DOMAIN pool.txs}
    /\ \A s \in SubPools :
          pool.subpool[s] = {tx \in pool.byHash : pool.txs[Id(tx)].subpool = s}
    /\ \A s \in Senders : pool.counter[s] = Cardinality(OfSender(pool.byHash, s))
    /\ \A tx \in pool.byHash : tx.sender \in DOMAIN pool.info
    /\ pool.highest = {tx \in pool.subpool["Pending"] :
                          \A u \in OfSender(pool.subpool["Pending"], tx.sender) : u.nonce <= tx.nonce}
    /\ pool.independent \subseteq {tx \in pool.subpool["Pending"] :
                          \A u \in OfSender(pool.subpool["Pending"], tx.sender) : u.nonce >= tx.nonce}

\* Nothing is left to do for the maintenance task.
Settled == events = <<>> /\ Waiting /\ ~drifted /\ dirty = {} /\ reload = {}

\* Once the task has caught up, whatever notifications were lost, skipped or
\* failed to load on the way, the pool judges every sender by its account in
\* the latest block and holds no transaction that can no longer execute;
\* except senders whose account last came from an answer that was already out
\* of date when it was applied (a validation or a reload the block overtook).
FollowsChain ==
    Settled =>
        \A tx \in pool.byHash :
            tx.sender \notin misled =>
                /\ pool.info[tx.sender] = Tip.accounts[tx.sender]
                /\ tx.nonce >= Tip.accounts[tx.sender].nonce

\* A transaction can be included on top of the pool's account of its sender:
\* all before it are in the pool, and all of them and itself are paid for.
Ready(p, tx) ==
    /\ \A n \in p.info[tx.sender].nonce..tx.nonce :
          \E u \in p.byHash : Id(u) = <<tx.sender, n>> /\ u.fee >= p.baseFee
    /\ CostBetween(p, tx.sender, -1, tx.nonce) <= p.info[tx.sender].balance

QuietBlock(p) == OnCanonicalStateChange(p, {}, <<>>, p.baseFee, p.blobFee)

\* Two blocks that change nothing are enough to file every transaction of a
\* sender that starts with the account's next nonce where it belongs: pending
\* exactly if it is ready.  (Blob transactions are left out: the blob fee is
\* compared only when it moves.)  One block is not enough, because update
\* looks at whether an ancestor is pending before it looks at its fee.
QuietBlocksSettle ==
    LET p == QuietBlock(QuietBlock(pool))
    IN \A tx \in p.byHash :
          (/\ Settled /\ tx.sender \notin misled
           /\ tx.blob = 0 /\ <<tx.sender, p.info[tx.sender].nonce>> \in DOMAIN p.txs)
              => (tx \in p.subpool["Pending"] <=> Ready(p, tx))

\* A step that adds transactions leaves every sub-pool within its limit, and
\* whatever it evicts for that takes the transactions after it along: nothing
\* that had its predecessor in the pool is left without.
Evicts ==
    (pool'.byHash \ pool.byHash # {}) =>
        /\ \A s \in SubPools : Cardinality(pool'.subpool[s]) <= Limit[s]
        /\ \A id \in DOMAIN pool'.txs \cap DOMAIN pool.txs :
              <<id[1], id[2] - 1>> \in DOMAIN pool.txs => <<id[1], id[2] - 1>> \in DOMAIN pool'.txs

EvictsCleanly == [][Evicts]_vars

\* What the pending sub-pool is documented to hold: transactions ready for
\* inclusion, with no gaps and sufficient balance and fees.  It does not even
\* when the task has nothing left to do: a transaction that waited behind a
\* nonce gap while the base fee rose becomes pending with the fee bit it was
\* inserted with.
PendingPays == Settled => \A tx \in pool.subpool["Pending"] : tx.fee >= pool.baseFee
=============================================================================
