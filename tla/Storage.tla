------------------------------ MODULE Storage ------------------------------
(***************************************************************************)
(* The three stores of the node and how they stay together across crashes. *)
(* A block lives in the static files (append-only jars, one segment per    *)
(* kind of data), in RocksDB (transaction hashes, account history) and in  *)
(* MDBX (body indices, stage checkpoints, state trie, finalized number).   *)
(* No transaction spans them: DatabaseProvider::commit writes them in the  *)
(* order static files, RocksDB, MDBX when it appends and in the reverse    *)
(* order when it unwinds, and a launch repairs what a crash left between.  *)
(*                                                                         *)
(* Four of the six segments are kept, one per treatment: Headers (a row    *)
(* per block), Transactions and Receipts (rows per transaction, checked    *)
(* against two different stages), AccountChangeSets (rows per change, with *)
(* the offsets sidecar).  A segment is one jar: file rollover is left out. *)
(* The genesis block, number 0, is in every store and holds no rows.       *)
(***************************************************************************)
EXTENDS Naturals, Sequences, SequencesExt, FiniteSetsExt

CONSTANTS
    Blocks,      \* the blocks: records [txs, accounts] of the data they carry
    Base,        \* the finalized chain every store holds initially
    MaxTip,      \* highest block number
    MaxSaves,    \* number of SaveBlocks actions
    MaxRemoves,  \* number of RemoveBlocksAbove actions
    MaxCrashes,  \* number of crashes
    TornUnwind   \* whether a crash may tear the receipts an unwinding launch truncates

VARIABLES
    sf,      \* static files: per segment, the jar on disk
    rocks,   \* RocksDB: transaction hash table and account history
    mdbx,    \* MDBX: body indices, checkpoints, trie frontier, numbers
    pc,      \* what the process is doing
    job,     \* volatile: what the step in progress has still to write
    pend,    \* volatile: pending_finalized_block, as a set of at most one
    reader,  \* open read transaction: its view of the body indices
    left     \* how many saves, removals and crashes remain

vars == <<sf, rocks, mdbx, pc, job, pend, reader, left>>

Segments == <<"Headers", "Transactions", "Receipts", "AccountChangeSets">>

\* The stages in the order a pipeline unwinds them.
Stages == <<"Finish", "IndexAccountHistory", "TransactionLookup",
            "MerkleUnwind", "Execution", "Bodies", "Headers">>

StageOf(s) ==
    CASE s = "Headers" -> "Headers"
      [] s = "Transactions" -> "Bodies"
      [] OTHER -> "Execution"

IsTx(s) == s \in {"Transactions", "Receipts"}
IsChange(s) == s = "AccountChangeSets"

Lower(a, b) == IF a < b THEN a ELSE b

-----------------------------------------------------------------------------
(* What a chain of blocks puts into each store.                             *)

Txs(chain) == FlattenSeq([i \in DOMAIN chain |-> chain[i].txs])
Changes(chain) == FlattenSeq([i \in DOMAIN chain |-> chain[i].accounts])

Prefix(q, n) == SubSeq(q, 1, n)

Rows(s, chain) ==
    IF s = "Headers" THEN chain ELSE IF IsTx(s) THEN Txs(chain) ELSE Changes(chain)

\* The sidecar of a changeset segment: per block, where its rows end.
Side(s, chain) ==
    IF IsChange(s) THEN [i \in DOMAIN chain |-> Len(Changes(Prefix(chain, i)))] ELSE <<>>

\* A jar: the last block and the rows its configuration claims, and what the
\* data file and the sidecar really hold.
Jar(s, chain) ==
    [end |-> Len(chain), n |-> Len(Rows(s, chain)),
     data |-> Rows(s, chain), side |-> Side(s, chain)]

Hashes(chain) == {<<Txs(chain)[i], i - 1>> : i \in DOMAIN Txs(chain)}

History(chain) ==
    UNION {{<<a, i>> : a \in ToSet(chain[i].accounts)} : i \in DOMAIN chain}

\* StoredBlockBodyIndices of block k: both saturate at zero.
NextTx(chain, k) == Len(Txs(Prefix(chain, k)))
LastTx(chain, k) == IF NextTx(chain, k) = 0 THEN 0 ELSE NextTx(chain, k) - 1

Tip == Len(mdbx.bodies)

Idle == [new |-> <<>>, todo |-> {}, segs |-> <<>>, items |-> <<>>, next |-> <<>>,
         batch |-> <<>>, ret |-> "run", targets |-> {}, queue |-> <<>>]

Segment == ToSet(Segments)
Stage == ToSet(Stages)

Init ==
    /\ sf = [s \in Segment |-> Jar(s, Base)]
    /\ rocks = [hashes |-> Hashes(Base), history |-> History(Base)]
    /\ mdbx = [bodies |-> Base, cp |-> [s \in Stage |-> Len(Base)], partial |-> {},
               trie |-> Len(Base), whole |-> TRUE, marker |-> {}, fin |-> Len(Base)]
    /\ pc = "run" /\ job = Idle /\ pend = {} /\ reader = {}
    /\ left = [save |-> MaxSaves, remove |-> MaxRemoves, crash |-> MaxCrashes]

-----------------------------------------------------------------------------
(* Appending: PersistenceService::on_save_blocks and the normal commit.     *)

\* SaveBlocksInput::new: the blocks follow the tip, the state/trie frontier q
\* neither falls nor passes the new tip, and one of the two advances.  Execution
\* has checked the nonces, so a transaction is mined once in a chain.
Appends(new, q) ==
    /\ Tip + Len(new) <= MaxTip
    /\ q \in mdbx.trie..(Tip + Len(new))
    /\ new # <<>> \/ q > mdbx.trie
    /\ IsInjective(Txs(mdbx.bodies \o new))

\* The MDBX writes of save_blocks: bodies, every checkpoint, and the state/trie
\* frontier q, recorded in the Finish checkpoint when it lags behind the tip.
\* The masked trie tables hold a whole trie only at the tip or if untouched.
SavedBlocks(new, q) ==
    LET tip == Tip + Len(new) IN
    [mdbx EXCEPT !.bodies = @ \o new,
                 !.cp = [s \in Stage |-> tip],
                 !.partial = IF q < tip THEN {q} ELSE {},
                 !.trie = q,
                 !.whole = (q = tip) \/ (q = mdbx.trie /\ @),
                 !.fin = IF pend = {} THEN @ ELSE Lower(Max(pend), tip)]

\* TransactionHashNumbers is a map: a put replaces the entry of its hash.
Put(table, new) == {e \in table : \A p \in new : p[1] # e[1]} \cup new

SavedIndices(chain) ==
    [hashes |-> Put(rocks.hashes, {e \in Hashes(chain) : e[2] >= Len(Txs(mdbx.bodies))}),
     history |-> rocks.history \cup {e \in History(chain) : e[2] > Tip}]

SaveBlocks(new, q) ==
    /\ pc = "run" /\ left.save > 0
    /\ Appends(new, q)
    /\ pc' = IF new = <<>> THEN "mdbx" ELSE "write"
    /\ job' = [Idle EXCEPT !.new = new,
                           !.todo = IF new = <<>> THEN {} ELSE Segment,
                           !.segs = IF new = <<>> THEN <<>> ELSE Segments,
                           !.next = SavedBlocks(new, q),
                           !.batch = SavedIndices(mdbx.bodies \o new)]
    /\ pend' = {n \in pend : n > Tip + Len(new)}
    /\ left' = [left EXCEPT !.save = @ - 1]
    /\ UNCHANGED <<sf, rocks, mdbx, reader>>

\* The row the writer expects next: a block number, and a transaction number.
Continues(s, f, new) ==
    /\ f.end = Tip
    /\ (IsTx(s) /\ f.n > 0 /\ Txs(new) # <<>>) => f.n = Len(Txs(mdbx.bodies))

\* write_segment: rows and sidecar are appended and synced, the configuration
\* is not; the segments are written in parallel.  A wrong number is an error,
\* which ends the persistence service.
WriteSegment(s) ==
    /\ pc = "write" /\ s \in job.todo
    /\ IF Continues(s, sf[s], job.new)
       THEN /\ sf' = [sf EXCEPT ![s].data = @ \o Rows(s, job.new),
                                ![s].side = IF IsChange(s)
                                            THEN @ \o [i \in DOMAIN job.new |->
                                                         sf[s].n + Side(s, job.new)[i]]
                                            ELSE <<>>]
            /\ job' = [job EXCEPT !.todo = @ \ {s}]
            /\ pc' = IF job.todo = {s} THEN "finalize" ELSE pc
       ELSE pc' = "failed" /\ UNCHANGED <<sf, job>>
    /\ UNCHANGED <<rocks, mdbx, pend, reader, left>>

\* finalize: the configuration of one segment after the other reaches the disk.
Finalize ==
    /\ pc = "finalize"
    /\ LET s == Head(job.segs) IN
       sf' = [sf EXCEPT ![s].n = Len(sf[s].data), ![s].end = Tip + Len(job.new)]
    /\ job' = [job EXCEPT !.segs = Tail(@)]
    /\ pc' = IF Len(job.segs) = 1 THEN "rocksdb" ELSE pc
    /\ UNCHANGED <<rocks, mdbx, pend, reader, left>>

\* The pending batches, one per table, are committed one by one.
CommitBatch(table) ==
    /\ rocks[table] # job.batch[table] \/ rocks = job.batch
    /\ rocks' = [rocks EXCEPT ![table] = job.batch[table]]

CommitRocksDB(table) ==
    /\ pc = "rocksdb"
    /\ CommitBatch(table)
    /\ pc' = IF rocks' = job.batch THEN "mdbx" ELSE pc
    /\ UNCHANGED <<sf, mdbx, job, pend, reader, left>>

CommitMDBX ==
    /\ pc = "mdbx"
    /\ mdbx' = job.next /\ job' = Idle /\ pc' = "run"
    /\ UNCHANGED <<sf, rocks, pend, reader, left>>

-----------------------------------------------------------------------------
(* Unwinding: on_remove_blocks_above and commit_unwind.                     *)

\* Rows of a changeset jar as <<account, block>> pairs, for blocks lo..hi.
ChangesIn(f, lo, hi) ==
    UNION {{<<f.data[j], i>> : j \in ((IF i = 1 THEN 0 ELSE f.side[i - 1]) + 1)..f.side[i]}
           : i \in lo..hi}

\* unwind_account_history_indices: an account keeps what precedes its first change.
UnwindHistory(history, changes) ==
    {e \in history : \A c \in changes : c[1] = e[1] => e[2] < c[2]}

DeleteHashes(hashes, txs) == {e \in hashes : e[1] \notin txs}

\* Transactions with numbers from..until-1, as far as the jar has them.
TxRows(f, from, until) == {f.data[i] : i \in (from + 1)..Lower(until, f.n)}

\* The rows of transactions (and receipts) left after those from next_tx_num(k) on.
KeepTxRows(f, k) == Lower(f.n, NextTx(mdbx.bodies, k))

\* The rows of changes up to block k, by the sidecar.
KeepChanges(f, k) == IF k = 0 THEN 0 ELSE IF k >= f.end THEN f.n ELSE f.side[k]

\* What a prune of segment s queues: the rows and the last block to keep.
KeepRows(s, f, k) ==
    CASE s = "Headers" -> f.n - (f.end - k)
      [] IsTx(s) -> KeepTxRows(f, k)
      [] OTHER -> KeepChanges(f, k)

Prune(s, k) == [seg |-> s, keep |-> KeepRows(s, sf[s], k), to |-> k]

\* update_pipeline_stages_after_unwind keeps a frontier that lags behind k;
\* the trie revert restores every node of a block above k, to its value at k.
RemovedAbove(k) ==
    [mdbx EXCEPT !.bodies = Prefix(@, k),
                 !.cp = [s \in Stage |-> k],
                 !.partial = IF mdbx.trie < k THEN {mdbx.trie} ELSE {},
                 !.trie = Lower(@, k),
                 !.whole = k <= mdbx.trie]

RemovedIndices(k) ==
    [hashes |-> DeleteHashes(rocks.hashes,
                    TxRows(sf["Transactions"], NextTx(mdbx.bodies, k), LastTx(mdbx.bodies, Tip) + 1)),
     history |-> UnwindHistory(rocks.history,
                    ChangesIn(sf["AccountChangeSets"], k + 1, sf["AccountChangeSets"].end))]

\* The fork choice (external) never leaves the finalized chain.
RemoveBlocksAbove(k) ==
    /\ pc = "run" /\ left.remove > 0
    /\ k < Tip /\ k >= mdbx.fin
    /\ pc' = "unwindMdbx"
    /\ job' = [Idle EXCEPT !.items = [i \in DOMAIN Segments |-> Prune(Segments[i], k)],
                           !.next = RemovedAbove(k), !.batch = RemovedIndices(k)]
    /\ left' = [left EXCEPT !.remove = @ - 1]
    /\ UNCHANGED <<sf, rocks, mdbx, pend, reader>>

UnwindMDBX ==
    /\ pc = "unwindMdbx"
    /\ mdbx' = job.next /\ pc' = "unwindRocksdb"
    /\ job' = [job EXCEPT !.next = <<>>]
    /\ reader' = {[r EXCEPT !.old = TRUE] : r \in reader}
    /\ UNCHANGED <<sf, rocks, pend, left>>

\* After the last write of a unit of work the caller goes on.
Return == IF job.ret = "run" THEN Idle ELSE [job EXCEPT !.items = <<>>, !.batch = <<>>]

\* Variation: the readers that started before the MDBX commit are not awaited.
UnwindRocksDBAtOnce(table) ==
    /\ pc = "unwindRocksdb"
    /\ CommitBatch(table)
    /\ pc' = IF rocks' # job.batch THEN pc ELSE IF job.items = <<>> THEN job.ret ELSE "prune"
    /\ job' = IF pc' = job.ret THEN Return ELSE job
    /\ UNCHANGED <<sf, mdbx, pend, reader, left>>

\* wait_for_pre_commit_readers, then the batches.
UnwindRocksDB(table) ==
    /\ pc = "unwindRocksdb"
    /\ \A r \in reader : ~r.old
    /\ CommitBatch(table)
    /\ pc' = IF rocks' # job.batch THEN pc ELSE IF job.items = <<>> THEN job.ret ELSE "prune"
    /\ job' = IF pc' = job.ret THEN Return ELSE job
    /\ UNCHANGED <<sf, mdbx, pend, reader, left>>

\* prune_rows shortens the data and then freezes the configuration, which for
\* headers and changesets already names the new last block; truncate_changesets
\* shortens the sidecar before it commits.
TruncateRows(frozen) ==
    /\ pc = "prune"
    /\ LET it == Head(job.items)
           f == sf[it.seg]
       IN /\ it.keep < Len(f.data)
          /\ sf' = [sf EXCEPT ![it.seg] =
                      [f EXCEPT !.data = Prefix(@, it.keep),
                                !.n = IF frozen THEN it.keep ELSE @,
                                !.end = IF frozen /\ ~IsTx(it.seg) THEN it.to ELSE @]]
    /\ UNCHANGED <<rocks, mdbx, pc, job, pend, reader, left>>

TruncateSidecar ==
    /\ pc = "prune"
    /\ LET it == Head(job.items)
           f == sf[it.seg]
       IN /\ it.keep = Len(f.data) /\ it.to < Len(f.side)
          /\ sf' = [sf EXCEPT ![it.seg].side = Prefix(@, it.to), ![it.seg].n = it.keep]
    /\ UNCHANGED <<rocks, mdbx, pc, job, pend, reader, left>>

CommitPrune ==
    /\ pc = "prune"
    /\ LET it == Head(job.items)
           f == sf[it.seg]
       IN /\ it.keep = Len(f.data) /\ Len(f.side) <= it.to
          /\ sf' = [sf EXCEPT ![it.seg].n = it.keep, ![it.seg].end = it.to]
    /\ pc' = IF Len(job.items) = 1 THEN job.ret ELSE pc
    /\ job' = IF Len(job.items) = 1 THEN Return ELSE [job EXCEPT !.items = Tail(@)]
    /\ UNCHANGED <<rocks, mdbx, pend, reader, left>>

-----------------------------------------------------------------------------
(* Readers, the finalized number, and crashes.                              *)

\* A read transaction of another thread: it sees MDBX as it was at its start.
OpenReader ==
    /\ job.ret = "run" /\ pc \notin {"down", "failed"}
    /\ reader = {}
    /\ reader' = {[view |-> mdbx.bodies, old |-> FALSE]}
    /\ UNCHANGED <<sf, rocks, mdbx, pc, job, pend, left>>

CloseReader ==
    /\ reader # {} /\ reader' = {}
    /\ UNCHANGED <<sf, rocks, mdbx, pc, job, pend, left>>

\* SaveFinalizedBlock: kept in memory until blocks are saved.
SaveFinalizedBlock(n) ==
    /\ pc = "run" /\ n >= mdbx.fin /\ \A p \in pend : n > p
    /\ pend' = {n}
    /\ UNCHANGED <<sf, rocks, mdbx, pc, job, reader, left>>

\* The launch unwinds Execution before Bodies: receipts are cut while the bodies
\* of their blocks are still there.
ReceiptsTorn ==
    /\ pc = "prune" /\ job.ret = "unwind" /\ Head(job.items).seg = "Receipts"
    /\ Len(sf["Receipts"].data) < Len(Txs(mdbx.bodies))

Crash ==
    /\ pc # "down" /\ left.crash > 0
    /\ ReceiptsTorn => TornUnwind
    /\ pc' = "down" /\ job' = Idle /\ pend' = {} /\ reader' = {}
    /\ left' = [left EXCEPT !.crash = @ - 1]
    /\ UNCHANGED <<sf, rocks, mdbx>>

-----------------------------------------------------------------------------
(* Launch: ProviderFactory::check_consistency.                              *)

Launch ==
    /\ pc = "down"
    /\ pc' = "heal"
    /\ job' = [Idle EXCEPT !.segs = Segments, !.ret = "static"]
    /\ UNCHANGED <<sf, rocks, mdbx, pend, reader, left>>

\* Blocks of the sidecar that the header claims and the rows cover.
ValidBlocks(f, n) ==
    Max({i \in 0..Lower(f.end, Len(f.side)) : \A j \in 1..i : f.side[j] <= n})

\* Opening the writer: the configuration is a jar's commit record, so longer
\* data are cut, but it follows data that are shorter.  The header of a
\* transaction segment cannot tell which blocks lost their rows.
Healed(s, f) ==
    LET n == Lower(f.n, Len(f.data))
        valid == IF IsChange(s) THEN ValidBlocks(f, n) ELSE 0
    IN [n |-> n, data |-> Prefix(f.data, n), side |-> Prefix(f.side, valid),
        end |-> IF IsTx(s) THEN f.end ELSE IF IsChange(s) THEN valid ELSE Lower(f.end, n)]

\* Step 1, check_file_consistency, a segment at a time.
HealSegment ==
    /\ pc = "heal"
    /\ LET s == Head(job.segs) IN sf' = [sf EXCEPT ![s] = Healed(s, @)]
    /\ job' = [job EXCEPT !.segs = Tail(@)]
    /\ pc' = IF Len(job.segs) = 1 THEN "hashes" ELSE pc
    /\ UNCHANGED <<rocks, mdbx, pend, reader, left>>

HighestTx(f) == IF f.n = 0 THEN 0 ELSE f.n - 1

\* Step 2: what heal_transaction_hash_numbers leaves, and the unwind it asks for.
HashesUnwind(f, cp) ==
    IF cp # 0 /\ (f.end < cp \/ (f.end > cp /\ HighestTx(f) < NextTx(mdbx.bodies, cp)))
    THEN {f.end} ELSE {}

HealedHashes(f, cp) ==
    IF cp = 0 THEN {}
    ELSE IF f.end > cp
         THEN DeleteHashes(rocks.hashes, TxRows(f, NextTx(mdbx.bodies, cp), f.n))
         ELSE rocks.hashes

HealHashes ==
    /\ pc = "hashes"
    /\ LET f == sf["Transactions"]
           cp == mdbx.cp["TransactionLookup"]
       IN /\ rocks' = [rocks EXCEPT !.hashes = HealedHashes(f, cp)]
          /\ job' = [job EXCEPT !.targets = HashesUnwind(f, cp)]
    /\ pc' = "history"
    /\ UNCHANGED <<sf, mdbx, pend, reader, left>>

\* Variation: the history of the checkpoint block is cleared too.
HealedHistoryFromCheckpoint(f, cp) ==
    IF f.end <= cp THEN rocks.history
    ELSE IF cp = 0 THEN {}
    ELSE UnwindHistory(rocks.history, {<<c[1], cp>> : c \in ChangesIn(f, cp + 1, f.end)})

HealedHistory(f, cp) ==
    IF f.end <= cp THEN rocks.history
    ELSE IF cp = 0 THEN {}
    ELSE UnwindHistory(rocks.history, {<<c[1], cp + 1>> : c \in ChangesIn(f, cp + 1, f.end)})

HealHistory ==
    /\ pc = "history"
    /\ LET f == sf["AccountChangeSets"]
           cp == mdbx.cp["IndexAccountHistory"]
       IN /\ rocks' = [rocks EXCEPT !.history = HealedHistory(f, cp)]
          /\ job' = [job EXCEPT !.segs = Segments,
                                !.targets = @ \cup IF f.end < cp THEN {f.end} ELSE {}]
    /\ pc' = "static"
    /\ UNCHANGED <<sf, mdbx, pend, reader, left>>

\* Step 3: the last block whose transactions are all there, as far as MDBX knows.
CoveredBlock(s, f) ==
    IF IsTx(s) /\ f.n > 0 /\ f.end <= Tip
    THEN Max({b \in 0..f.end : b = 0 \/ LastTx(mdbx.bodies, b) <= f.n - 1})
    ELSE f.end

\* ensure_invariants: the rows pruned when the segment is ahead of its stage.
StaleRows(s, f, b, cp) ==
    CASE s = "Headers" -> b - cp
      [] IsTx(s) -> HighestTx(f) - LastTx(mdbx.bodies, cp)
      [] OTHER -> f.n - KeepChanges(f, cp)

CheckSegment ==
    /\ pc = "static" /\ job.segs # <<>>
    /\ LET s == Head(job.segs)
           f == sf[s]
           b == CoveredBlock(s, f)
           cp == mdbx.cp[StageOf(s)]
       IN /\ pc' = IF cp < b THEN "prune" ELSE pc
          /\ job' = [job EXCEPT
                       !.segs = Tail(@),
                       !.targets = @ \cup IF b < f.end \/ b < cp THEN {b} ELSE {},
                       !.items = IF cp < b
                                 THEN <<[seg |-> s, to |-> cp,
                                         keep |-> f.n - StaleRows(s, f, b, cp)]>>
                                 ELSE <<>>]
    /\ UNCHANGED <<sf, rocks, mdbx, pend, reader, left>>

\* Step 4, heal_chain_state_block_numbers, only if nothing is to be unwound.
HealChainState ==
    /\ pc = "static" /\ job.segs = <<>>
    /\ mdbx' = IF job.targets = {}
               THEN [mdbx EXCEPT !.fin = Lower(@, sf["Headers"].end)] ELSE mdbx
    /\ pc' = "decide"
    /\ UNCHANGED <<sf, rocks, job, pend, reader, left>>

-----------------------------------------------------------------------------
(* Launch: the unwinds it runs before the node starts.                      *)

\* Variation: only the Finish checkpoint is consulted.
PartialUnwindFromFinish == mdbx.partial

\* get_partial_trie_unwind_marker: the persisted marker is authoritative.
PartialUnwind == IF mdbx.marker # {} THEN mdbx.marker ELSE mdbx.partial

StorageUnwind ==
    LET t == IF job.targets = {} THEN {} ELSE {Min(job.targets)}
    IN {b \in t : \A p \in PartialUnwind : b < p}

Unwinds(targets, walk) == SetToSeq({[to |-> t, walk |-> walk] : t \in targets})

\* Variation: the unwind starts without a durable marker.
DecideUnmarked ==
    /\ pc = "decide"
    /\ pc' = IF 0 \in StorageUnwind THEN "failed"
             ELSE IF PartialUnwind \cup StorageUnwind = {} THEN "run" ELSE "unwind"
    /\ job' = IF pc' # "unwind" THEN Idle
              ELSE [Idle EXCEPT !.ret = "unwind",
                                !.queue = Unwinds(PartialUnwind, TRUE)
                                          \o Unwinds(StorageUnwind, FALSE)]
    /\ UNCHANGED <<sf, rocks, mdbx, pend, reader, left>>

\* The marker is durable before any stage unwinds.
Decide ==
    /\ pc = "decide"
    /\ pc' = IF 0 \in StorageUnwind THEN "failed"
             ELSE IF PartialUnwind \cup StorageUnwind = {} THEN "run" ELSE "unwind"
    /\ mdbx' = IF pc' = "unwind" THEN [mdbx EXCEPT !.marker = PartialUnwind] ELSE mdbx
    /\ job' = IF pc' # "unwind" THEN Idle
              ELSE [Idle EXCEPT !.ret = "unwind",
                                !.queue = Unwinds(PartialUnwind, TRUE)
                                          \o Unwinds(StorageUnwind, FALSE)]
    /\ UNCHANGED <<sf, rocks, pend, reader, left>>

\* What each stage's unwind to block k writes to MDBX, with its checkpoint and
\* the finalized number, in one transaction.
UnwoundStage(stage, k, walk) ==
    LET m == [mdbx EXCEPT !.cp[stage] = k, !.fin = Lower(@, k)] IN
    CASE stage = "Finish" -> [m EXCEPT !.partial = {}]
      [] stage = "MerkleUnwind" ->
            [m EXCEPT !.trie = k,
                      !.whole = walk \/ k = 0 \/ (@ /\ mdbx.trie = mdbx.cp[stage])]
      [] stage = "Bodies" -> [m EXCEPT !.bodies = Prefix(@, k)]
      [] OTHER -> m

UnwoundIndices(stage, k) ==
    CASE stage = "TransactionLookup" ->
            [rocks EXCEPT !.hashes = DeleteHashes(@, TxRows(sf["Transactions"],
                NextTx(mdbx.bodies, k), NextTx(mdbx.bodies, mdbx.cp[stage])))]
      [] stage = "IndexAccountHistory" ->
            [rocks EXCEPT !.history =
                UnwindHistory(@, ChangesIn(sf["AccountChangeSets"], k + 1, mdbx.cp[stage]))]
      [] OTHER -> rocks

\* The segments that stage unwinds prune.
PrunedBy(stage) ==
    CASE stage = "Headers" -> <<"Headers">>
      [] stage = "Bodies" -> <<"Transactions">>
      [] stage = "Execution" -> <<"Receipts", "AccountChangeSets">>
      [] OTHER -> <<>>

\* Variation: a stage that is at the target is unwound again.
StagesAtOrAbove(k) == SelectSeq(Stages, LAMBDA s : mdbx.cp[s] >= k)

\* The stages Pipeline::unwind has still to unwind, last one first.
StagesAbove(k) == SelectSeq(Stages, LAMBDA s : mdbx.cp[s] > k)

\* Pipeline::unwind: the stages above the target, last one first, each with an
\* unwind commit of its own.
UnwindStage ==
    /\ pc = "unwind"
    /\ LET u == Head(job.queue)
           stage == Head(StagesAbove(u.to))
       IN /\ StagesAbove(u.to) # <<>>
          /\ job' = [job EXCEPT
                       !.items = [i \in DOMAIN PrunedBy(stage) |-> Prune(PrunedBy(stage)[i], u.to)],
                       !.next = UnwoundStage(stage, u.to, u.walk),
                       !.batch = UnwoundIndices(stage, u.to)]
    /\ pc' = "unwindMdbx"
    /\ UNCHANGED <<sf, rocks, mdbx, pend, reader, left>>

\* The pipeline has reached its target: the partial unwind drops the marker.
FinishUnwind ==
    /\ pc = "unwind"
    /\ StagesAbove(Head(job.queue).to) = <<>>
    /\ mdbx' = IF Head(job.queue).walk THEN [mdbx EXCEPT !.marker = {}] ELSE mdbx
    /\ pc' = IF Len(job.queue) = 1 THEN "run" ELSE pc
    /\ job' = IF Len(job.queue) = 1 THEN Idle ELSE [job EXCEPT !.queue = Tail(@)]
    /\ UNCHANGED <<sf, rocks, pend, reader, left>>

-----------------------------------------------------------------------------
\* What the process does by itself, once it has work.
Work ==
    \/ \E s \in Segment : WriteSegment(s)
    \/ Finalize
    \/ \E table \in {"hashes", "history"} : CommitRocksDB(table) \/ UnwindRocksDB(table)
    \/ CommitMDBX
    \/ UnwindMDBX
    \/ \E frozen \in BOOLEAN : TruncateRows(frozen)
    \/ TruncateSidecar
    \/ CommitPrune
    \/ Launch
    \/ HealSegment
    \/ HealHashes
    \/ HealHistory
    \/ CheckSegment
    \/ HealChainState
    \/ Decide
    \/ UnwindStage
    \/ FinishUnwind

Next ==
    \/ Work
    \/ \E new \in BoundedSeq(Blocks, 2), q \in 0..MaxTip : SaveBlocks(new, q)
    \/ \E k \in 0..MaxTip : RemoveBlocksAbove(k) \/ SaveFinalizedBlock(k)
    \/ OpenReader
    \/ CloseReader
    \/ Crash

\* The process goes on with its work and a reader ends (reads are bounded by the
\* long-read-transaction timeout).
Fairness == WF_vars(Work) /\ WF_vars(CloseReader)

Spec == Init /\ [][Next]_vars /\ Fairness

-----------------------------------------------------------------------------
(* Properties.                                                              *)

JarType(f) ==
    /\ f.end \in 0..MaxTip /\ f.n \in Nat
    /\ Len(f.data) \in Nat /\ Len(f.side) \in 0..MaxTip

\* The shape of the three stores and of the process.
TypeOK ==
    /\ \A s \in Segment : JarType(sf[s])
    /\ mdbx.bodies \in BoundedSeq(Blocks, MaxTip)
    /\ mdbx.cp \in [Stage -> 0..MaxTip]
    /\ mdbx.trie \in 0..MaxTip /\ mdbx.fin \in 0..MaxTip /\ mdbx.whole \in BOOLEAN
    /\ mdbx.partial \in SUBSET (0..MaxTip) /\ mdbx.marker \in SUBSET (0..MaxTip)
    /\ pend \in SUBSET (0..MaxTip)

\* Whenever the node is up and idle, whatever was interrupted before, the three
\* stores describe the same chain: each segment holds exactly the rows of the
\* blocks MDBX has, RocksDB exactly their hashes and history, every stage is at
\* the tip, and no append has failed.  Unless a launch is still unwinding, the
\* finalized number on disk names a block on disk.  One crash is excluded: with
\* TornUnwind = FALSE none falls while an unwinding launch has cut the receipts
\* and not yet committed their header (UnwindRecovered shows what it leaves).
StoresAgree ==
    /\ TypeOK
    /\ pc # "failed"
    /\ job.ret = "run" => mdbx.fin <= Tip
    /\ pc = "run" =>
          /\ \A s \in Segment : sf[s] = Jar(s, mdbx.bodies)
          /\ rocks = [hashes |-> Hashes(mdbx.bodies), history |-> History(mdbx.bodies)]
          /\ \A s \in Stage : mdbx.cp[s] = Tip

\* wait_for_pre_commit_readers: as long as a read transaction is open, the static
\* files hold the rows of every block it sees, also while an unwind removes them.
ReaderSeesRows ==
    \A r \in reader : \A s \in Segment :
        LET rows == Rows(s, r.view)
        IN Len(rows) <= sf[s].n /\ IsPrefix(rows, sf[s].data)

\* A trie table that was written with a mask is never taken for a whole trie: in
\* every durable state the Finish checkpoint or the unwind marker says where the
\* frontier is, however often the partial unwind was interrupted.
TrieRecorded ==
    (~mdbx.whole \/ mdbx.trie < Tip) =>
        \/ mdbx.partial = {mdbx.trie}
        \/ \E p \in mdbx.marker : p <= mdbx.trie

\* A launch repairs without losing state: it never moves the trie frontier back, nor
\* drops the body of a block at or below it; and when it ends the trie is whole and
\* at the tip, and the marker is gone.
LaunchRepairs ==
    [][job.ret # "run" =>
          /\ mdbx'.trie >= mdbx.trie /\ Len(mdbx'.bodies) >= mdbx.trie
          /\ pc' = "run" => /\ mdbx'.whole /\ mdbx'.trie = Len(mdbx'.bodies)
                            /\ mdbx'.marker = {} /\ mdbx'.partial = {}]_vars

\* Every save, removal and launch comes to its end, after any crash.
Recovers == []<>(pc = "run")

-----------------------------------------------------------------------------
(* What the code says and does not do.                                      *)

\* ensure_invariants, on a segment ahead of its stage: "All we need to do is to
\* prune the extra static file rows."  The number of rows to prune is counted from
\* last_tx_num of the checkpoint block, which is 0 for a block after transaction 0
\* and also for a chain that has no transaction yet.
ExtraRowsPruned ==
    pc = "run" => \A s \in Segment : sf[s].n = Len(Rows(s, mdbx.bodies))

\* commit_unwind: "an interrupted unwind can be recovered by truncating static files
\* from checkpoints on the next startup", so that after it every segment ends at
\* the checkpoint of its stage.
UnwindRecovered ==
    pc = "run" => \A s \in Segment : sf[s].end = mdbx.cp[StageOf(s)]

=============================================================================
