# A TLA+ verification of CreditChain

CreditChain is an Ethereum execution client, a fork of Reth, with a testnet
faucet of its own. This directory models the parts of it whose correctness
depends on the order in which threads, tasks and crashes interleave:

* how executed blocks travel from the engine's memory to the database and what
  happens when a reorg, a payload job, a shutdown or a crash meets that journey;
* the engine's message handlers, its indexes and the buffer of disconnected blocks;
* staged sync, its unwinds, and the engine's view of its result;
* the three stores, what a crash leaves between them, and how a launch repairs it;
* execution extensions and their write-ahead log;
* the transaction pool while the chain moves under it;
* the network's table of peers against its sessions;
* the faucet's rate limiter and its drip handler.

The models are checked with TLC on small instances, and the safety results that
matter most are proved with TLAPS for every block tree and every configuration.
All paths below are relative to the repository's root.

## 1. The system and its parts

| Part | State | Operations that change it | Who it works with |
|---|---|---|---|
| Engine tree (`crates/engine/tree/src/tree/mod.rs`) | tree of executed blocks, canonical head, persistence frontiers, deferred handoff, backfill state | engine messages, `advance_persistence`, `on_persistence_complete`, `persist_until_complete` | persistence thread, payload jobs, orchestrator |
| Tree state (`tree/state.rs`) | blocks by hash, by number, by parent; overlays | `insert_executed`, `remove_until`, `reset` | engine tree |
| Block buffer (`tree/block_buffer.rs`) | buffered blocks, their children, an eviction queue | `insert_block`, `remove_block_with_children`, `remove_old_blocks` | engine tree, downloads |
| Persistence service (`persistence.rs`) | pending finalized and safe numbers; the database | `SaveBlocks`, `RemoveBlocksAbove`, `SaveFinalizedBlock`, `SaveSafeBlock` | engine tree, storage |
| Canonical in-memory state (`crates/chain-state`) | canonical blocks readers may ask for | `update_blocks`, `remove_persisted_blocks_until` | engine tree, RPC, pool |
| Payload builds (`payload_build.rs`, `crates/payload`) | leases, jobs | start, drop of a lease, resolve | engine tree |
| Invalid headers (`tree/invalid_headers.rs`) | LRU map with hit counts | insert, get (may evict) | engine tree, pipeline results |
| Orchestrator and backfill (`chain.rs`, `backfill.rs`, `engine.rs`, `download.rs`) | pipeline ownership, downloads in flight | start and finish of a run, download requests | engine tree, pipeline |
| Pipeline and stages (`crates/stages`) | a checkpoint per stage, detached-head attempts | execute, unwind, error handling | downloaders, storage, engine |
| Launch (`crates/node/builder/src/launch`) | none of its own | consistency checks, unwinding, resuming | storage, pipeline |
| Storage (`crates/storage`) | MDBX, static files, RocksDB | commits, consistency check | everything |
| ExEx (`crates/exex`) | notification buffer, write-ahead log, finished heights | send, finalize, backfill | engine, pipeline |
| Transaction pool (`crates/transaction-pool`) | sub-pools, sender info, limits | add, canonical update, reload, evict | network, RPC, payload builder |
| Network (`crates/net`) | peers, sessions, requests in flight | connect, disconnect, request, respond, time out | downloaders, pool |
| Pruner, static file producer (`crates/prune`, `crates/static-file`) | prune checkpoints, segments | prune, move | storage |
| Faucet (`services/faucet`) | rate limiter | `POST /drip` | an external node |
| EVM, consensus rules, trie, RPC, CLI, era files, discovery, codecs, metrics | data or tables | functions of their input | |

`PROJECT.json` gives every part its status and, for those that are not modelled,
the reason.

What makes this code hard to test:

* the engine thread, the persistence thread and payload jobs share the in-memory
  overlay, and the canonical head moves while a save is in flight;
* the database has two frontiers (block tip, and state/trie), and eviction,
  saving, unwinding, shutdown and restart each use one or both;
* the indexes of the tree are edited while they are walked;
* the pipeline commits chunk by chunk, in both directions, and a crash can leave
  the stages anywhere in between;
* a node on a side chain finds the fork point only by repeated unwinds;
* no transaction spans static files, RocksDB and MDBX;
* notifications of the chain reach the pool and the extensions late, out of step
  with the database, or not at all;
* a peer can dial us while we dial it, and commands arrive in the middle;
* the faucet reads the clock before it takes a lock, and a drip is four awaits
  under a timeout.

The `hazards` of `PROJECT.json` name the line where each of these bites and the
properties that cover it, and say where a property holds only with an exception.

## 2. Modules

| Module | Models |
|---|---|
| `BlockTree` | blocks, numbers, chains and fork points (constants with an assumption) |
| `BlockTreeTheorems` | lemmas about them |
| `EnginePersistence` | engine loop, persistence thread, payload leases, restart |
| `EnginePersistence_proofs` | that its steps preserve the inductive invariant (operators, engine steps, persistence results and commits), and the safety theorems |
| `MapOfSets` | `HashMap<_, HashSet<_>>` as the code edits it |
| `TreeState` | the three indexes and the overlays, with the real loops of `remove_until` |
| `BlockBuffer` | the buffer's four collections, with its real loops |
| `Pipeline`, `Pipeline_proofs` | staged sync, unwinding, launch; its theorems |
| `EngineTree` | the engine's message handlers with the buffer, the invalid headers, the forkchoice tracker and the backfill gate; around them downloader, orchestrator, persistence task and consensus client |
| `Storage` | static files, RocksDB and MDBX under saves, removals, readers and crashes; the launch's repairs |
| `ExExNotification`, `Wal`, `ExExHandle` | a chain notification; the write-ahead log, its files and its cache; one extension's handle and stream |
| `ExEx` | the forwarding task, the manager and the extensions together, with the node around them |
| `ExEx_proofs` | the manager's bookkeeping, proved for all constants |
| `TxPool`, `TxPoolMaintain` | the sub-pools and their bookkeeping; submissions and the maintenance task on top of them |
| `Network`, `Network_proofs` | peer table, sessions and the events between them; the theorems, with one lemma per method of the peer manager |
| `RateLimiter` | `check_and_record` |
| `Faucet`, `Faucet_proofs` | the drip handler on top of the limiter, and the node as far as the handler talks to it; the theorems about both |
| `MC*` | block trees, transactions and surroundings for TLC; `MCCollections` runs `TreeState` and `BlockBuffer` side by side |

### BlockTree

A block stands for its hash. `number` and `chain` are constants that are assumed
to form a tree: a chain has one block of every number, its members' chains are
its prefixes, and any two chains have a highest common block. That is what
linking headers by parent hash gives. Every walk along parent hashes in the code
becomes a set such as `ChainAbove(head, n)`.

### EnginePersistence

| Variable | Code |
|---|---|
| `tree`, `linked`, `head` | `TreeState`: `blocks_by_hash`, which blocks `parent_to_child` lists, `current_canonical_head` |
| `finalized` | finalized hash of the last valid forkchoice state |
| `mem` | `CanonicalInMemoryState` |
| `lastPersisted`, `lastTrie`, `rx`, `handoff` | `PersistenceState` and `pending_persisted_handoff` |
| `job`, `reply` | the request and the result in the two channels of the persistence thread |
| `disk`, `dbTip`, `dbTrie` | blocks in the database, the `Finish` checkpoint, its state/trie frontier |
| `builds`, `dropping`, `token` | active leases, leases inside `Drop`, the notification channel of capacity one |
| `pc` | where the engine thread is: `loop`, `handle`, `await`, `advance`, `terminating`, `terminated`, `failed` |

An iteration of `EngineApiTreeHandler::run` is a sequence of steps. `Receive`
takes a message, `InsertExecuted`, `CanonicalChainUpdate`, `ForkchoiceValid` and
`StartPayloadJob` are what handling it may do, in any number and order, and
`MessageHandled` ends it. `PersistenceComplete`, `PayloadBuildFinished` and
`AwaitPersistence` are the other events. `AdvancePersistence` ends the iteration
and `Terminate` is the shutdown loop. `ServiceSave`, `ServiceRemove` and
`ServiceReply` are the persistence thread, with the commit and the answer as
separate steps. `DropLease` and `NotifyFinished` are the two atomic operations
of dropping a lease. `Restart` can happen at any point.

Abstractions:

* What a message contains is left open, so the engine here does everything a
  message could make it do, and more. A block that fails to execute changes
  nothing here.
* Backfill is idle throughout; `EngineTree` has its gate on persistence.
* `Restart` does in one step what the launcher does with a pipeline unwind.
  `Pipeline` has the steps of such an unwind.
* A persistence thread that dies sets `pc` to `failed` at once, although the
  engine notices later. `EngineNeverFails` is stronger for it.
* The pruner is left out. The pending finalized number of the persistence service
  is in `Storage`.

### TreeState and BlockBuffer

These two keep the code's loops: `remove_by_hash`, the stack and the queue of the
walks, and the collections as they are while the loop runs. They use recursive
operators and are model-checked only. `WalksAsSpecified` compares the loops
of `TreeState` with the closed form that `EnginePersistence` uses, so the proofs
about the closed form apply to the loops on the instances that TLC covers. The
order in which the buffer visits siblings, which is that of a `HashSet`, is
fixed.

### EngineTree

A handler runs to its end on the engine thread, `advance_persistence` included,
and is one step: an operator from the engine's state to its next state. The
messages are `ForkchoiceUpdated`, `NewPayload`, `Receive` (downloaded blocks, the
start and the end of backfill) and `PersistenceComplete`. `PersistenceCommit`,
`Downloaded`, `PipelineStarts`, `PipelineReaches`, `PipelineRejects` and
`PipelineDetaches` are the parts around it, and `Switch` is the consensus client
changing its mind. The operators on the tree are those of `EnginePersistence`;
that its steps implement that module's is not shown.

`advance_persistence` starts the removal of a reorged branch whatever the backfill
state is. When a backfill run ends, the engine forgets the task it waits for, but
the request stays in the persistence thread's queue (`stray`) and is carried out
by number on whatever the database has become. `overlap` records that a run ended
with a task still to be carried out. What the engine promises from then on is not
stated: `EngineSound` (but for `SaveExclusive`), `AcceptedIsReachable` and
`HeadReachedUnlessStranded` except it, and `EngineTreeExclusive.cfg` shows what can
happen. `RejectedForCause` and `ValidUnlessDiskReorg` have no such exception.

`AlwaysProcess` and `UnwindCanonicalHeader` are the two settings of `TreeConfig` with
which a forkchoice update to a canonical ancestor moves the head back. Both are off
by default and in the run; `EngineTreeUnwind.cfg` has them on. A forkchoice state
with a zero head hash is among the messages.

Abstractions: the verdict on a block is a constant (`Bad`, `Malformed`); the state
trie frontier and payload jobs are left to `EnginePersistence`; the bound of the
invalid header cache is not reached, its hit count is.

### Storage

| Variable | Code |
|---|---|
| `sf` | per segment: rows, offsets sidecar and header of the jar on disk |
| `rocks` | transaction hash table and account history in RocksDB |
| `mdbx` | body indices, stage checkpoints, state trie with its partial frontier and marker, finalized number |
| `pc`, `job`, `pend`, `reader` | the step in progress and what it has still to write; the pending finalized number; an open read transaction |

`SaveBlocks`, `RemoveBlocksAbove` and `SaveFinalizedBlock` begin a task, `Work` does
its next write (or the next step of a launch), and `Crash` can come between any
two writes, also during a launch.

Abstractions: four of the six segments, one for each treatment; one jar per
segment, so no rollover; the genesis block holds no rows; the hashing stages are
part of `MerkleUnwind`; nothing is pruned; the marker of a partial trie unwind
keeps its target only. `TornUnwind` tells whether a crash may hit the receipts
that an unwinding launch truncates (see section 3).

### ExEx

`ExExNotification`, `Wal` and `ExExHandle` have the operators: what a notification
commits and reverts, what is logged, finalized and reloaded, and what a handle
skips and a stream passes on. In `ExEx` itself `Update`, `Finalize`, `Persist`, `PipelineCommit` and `PipelineUnwind` are the node,
`Forward` the forwarding task, `Poll` one poll of the manager, which happens only
when it has been woken, and `ExExStep` an extension with its stream. `Crash` keeps
the database, the log and the extensions' own heads; `CrashInPoll` stops in the
middle of what a poll does to the log.

An extension is the head it stores and what it reports as finished
(`Reporting`): its tip, the finalized block, or nothing. `Hardships` names what may
happen besides. The run allows `"lag"`, a broadcast channel that overflows. The
others can happen in the code, and each breaks a property when it is allowed, so
what the run shows holds as long as they do not happen:

| Hardship | What it is | Breaks |
|---|---|---|
| `"return"` | the chain takes up a block whose revert is still on its way to an extension | `WalCovers` (three updates) |
| `"catching up"` | persisted blocks are left before an extension has read up to where it was launched | `NotificationsFit`, `WalCovers` |
| `"unlogged"` | persisted blocks are left that the log does not have | `WalCovers` |
| `"overtaking"` | the pipeline sends while notifications of the tree wait | `NotificationsFit` |
| `"unpersisted"` | the pipeline starts while canonical blocks are only in memory | `NotificationsFit`, `HeightsTold` |
| `"stale disk"` | a block is finalized while the database is on a branch the chain has left | `WalCovers`; `NotificationsFit` (three updates) |

Each is the run's instance with that hardship added; "three updates" means one
extension and `MaxUpdates = 3`, an instance in which the properties hold without the
hardship. None of them breaks `ManagerSound`, which is proved whatever happens. The other
properties are stated of extensions that have been told of every reorg and while the
broadcast channel has lost nothing (`OnCourse`). `HeightsTold` further asks that the
block an extension reported last is still on its chain and no revert waits for it
(`UpToDate`). `InSyncUnlessDormant` excepts an extension that the manager has
something for without being woken (`Dormant`).

### TxPool and TxPoolMaintain

`TxPool` has every method that changes the pool as an operator from pool to pool.
`TxPoolMaintain` runs them: `Validate` and `Insert` are the two halves of a
submission, `Discard` is a removal, `ChainCommit` and `ChainReorg` are the chain,
whose notifications may be lost, and `OnCommit`, `OnReorg`, `ReinjectValidate`,
`ReinjectInsert`, `OnReloaded` and `OnStale` are the maintenance task. A reorg may
leave any number of blocks; one deeper than the task follows is skipped by it.

Abstractions: a sub-pool's size is its number of transactions; which of the worst
senders is evicted first is left open; priority fees, EIP-7702, blob storage and
listeners are left out. A world says which transactions are local; the setting
`no_local_exemptions` is the world in which none is. `misled` remembers the senders whose account the pool
learned from a read that a later block had overtaken; `FollowsChain` and
`QuietBlocksSettle` leave those out: they may keep the old account until a block
changes it.

### Network

The network is one task, so every handler is a step. `OnConnection`,
`IncomingEstablished`, `OutgoingEstablished`, `OutgoingConnectionError`,
`OutgoingPendingSessionClosed`, `IncomingPendingSessionClosed` and `SessionClosed`
are session events; `OnStateAction` takes an action that the peer manager has queued;
`PeerCommand`, `DisconnectPeer`, `SetNetworkState` and `PerformNetworkShutdown` are
commands; `Expire`, `Refill` and `Rotate` are timers.

Abstractions: no IP addresses, a few units of reputation, and no time, so that a
ban or a back-off runs out at any moment.

### Pipeline

A stage is the block it has processed up to. `Launch` resumes an interrupted run
and `LaunchUnwind` is an unwind that the storage check demands. `Start` and
`Evict` are the consensus client repeating its target. `ExecuteHeaders`,
`ExecuteStage`, `StageReached`, `DetachedHead`, `BlockError`,
`MissingStaticFileData` and `Finish` make up a run. `UnwindStage`, `UnwindNext`
and `UnwindDone` make up an unwind. `Crash` keeps what was committed.

Abstractions:

* The set `rejects` says which stage fails on which block.
* Recoverable stage errors retry the same step and change nothing; fatal errors
  end the node and are crashes.
* The safe number is treated as the finalized one is.
* Live sync between two runs is the subject of `EnginePersistence` and `EngineTree`.
* Prune checks, `move_to_static_files`, the reset of the Merkle stage's progress
  and `max_block` are left out.
* The gap that starts a run is at least one block (it is 32 in the code).

### RateLimiter and Faucet

Reading the clock (`Call`) and the critical section (`CheckAndRecord`) are two
steps; nothing awaits inside the critical section. `Faucet` puts the limiter into
the drip handler: nonce, fees and submission are separate steps, each can fail,
and the timeout layer can drop the handler at any of them. The node is modelled as
far as the handler talks to it: the pending nonce is the first one from the mined
ones on that the pool does not have, a submission is accepted, or replaces another
only for a higher fee, possibly after its handler is gone, and accepted transactions
are mined in the order of their nonces. The node is assumed not to drop what it has
accepted: no eviction, no reorg, no restart. The limiter's memory lasts as long as
the process, and so does the model.

## 3. Runs

Runs that must pass:

| Run | Properties | Shows |
|---|---|---|
| `persistence_masking` | `IInv`, `CanonicalExecutable` | With state/trie masking on two branches of equal height: the inductive invariant of the proof holds, so the engine never stops by itself, the database is one chain and shutdown persists the head; every canonical block can be executed on. |
| `persistence_buffer` | `CanonicalReadable`, `WorkResolved`, `TerminationCompletes` | With a memory buffer, a branch shorter than what is persisted, and two payload jobs: no canonical block becomes unreadable. A stale branch on disk is unwound, a deferred handoff is applied, and termination is acknowledged. |
| `collections` | `IndexesAgree`, `WalksAsSpecified`, `CollectionsAgree`, `ConnectedOut` | The loops of `remove_until` keep three indexes and the overlays in step and remove what the closed form says. The buffer's collections agree within its limit, and exactly the connected blocks come out, parents first. |
| `faucet` | `FaucetInv`, `LimitsExact`, `PaidWithinCooldown` | With calls served out of the order of their instants, the window limit holds up to the time spent waiting for the mutex and denials are justified. Handlers that share a nonce, time out or are replaced never pay a grant twice, pay within the cooldown, or leave a nonce gap (`NonceGapless`, a conjunct of `FaucetInv`). |
| `pipeline_sync` | `IInv`, `BadBlockUnwound`, `RunEnds`, `TargetReached` | With bad blocks, detached heads, lost data, launch unwinds and crashes: stages are prefixes of one chain, no rejected block stays, every run ends, and a node on a side chain gets to the chain that the consensus client insists on. |
| `engine_tree` | `EngineSound`, `RejectedForCause`, `AcceptedIsReachable`, `ValidUnlessDiskReorg`, `HeadReachedUnlessStranded` | Messages, downloads, backfill and persistence in any order: no save runs beside the pipeline, and INVALID and VALID have a cause. Until a removal outlasts a pipeline run, no canonical block is lost, no handler ends the engine, what was accepted can be made the head, and the head the consensus client insists on is reached unless a block of its chain stays buffered beside its executed parent. |
| `exex` | `ManagerSound`, `NotificationsFit`, `WalCovers`, `HeightsTold`, `InSyncUnlessDormant` | Two extensions with a buffer of two notifications and a crash anywhere, without the hardships of section 2 but `"lag"`: the manager's positions and wake-ups are in order, what each extension is told fits together, the log and the disk hold what each needs to go on, nothing is skipped or pruned too early, and each ends up at the head unless the manager sleeps on what it has for it. |
| `txpool` | `SubPoolsAgree`, `FollowsChain`, `QuietBlocksSettle`, `EvictsCleanly` | The places a transaction is kept in agree, the pool follows the accounts of the latest block, two quiet blocks file every transaction where it belongs, and eviction keeps the limits without orphans. |
| `network` | `SlotsCovered`, `ConnectedHasSession`, `PassingIsBacked`, `DisconnectingEnds`, `LosesSightOnlyOnDial` | Slot counters cover the table, an entry's state has behind it the session or dial that will end it, a peer to be disconnected ends up so, and a live session is lost from sight only by a dial that fails in its handshake. |
| `storage` | `StoresAgree`, `ReaderSeesRows`, `TrieRecorded`, `LaunchRepairs`, `Recovers` | Two crashes anywhere, also inside a recovery, but for one place (`TornUnwind = FALSE`: not while an unwinding launch has cut the receipts and not committed their header): after a launch the three stores describe the same chain, a reader finds the rows of its snapshot, a state trie that is not whole is marked so, and every launch completes. |

Runs that must find a violation, because the code does something else than its
comments say:

| Run | Comment | What happens |
|---|---|---|
| `network_slots` | `peers.rs:1316`: "Counter for currently occupied slots for active inbound connections." | A peer removed a second time while its session is closing loses its entry without giving its slot back. |
| `storage_first_tx` | `static_file/manager.rs:1718`: "All we need to do is to prune the extra static file rows." | `last_tx_num` saturates to 0 for a chain without transactions, one row too few is pruned, and the next save of transaction 0 fails. |

### Counterexamples kept beside the runs

These configurations are not among the runs. Each checks one property that fails;
the passing runs state what holds in its place.

| Configuration (module) | Fails | What happens | What holds |
|---|---|---|---|
| `EnginePersistenceTree.cfg` (`MCEnginePersistence`) | `TreeConnected`, from `state.rs:22` | `remove_by_hash` forgets the children of a block it evicts; a reorg puts the block back without them, and pruning leaves them without a parent. | `CanonicalExecutable` |
| `RateLimiterWindow.cfg` (`RateLimiter`) | `IpLimit`, from `limiter.rs:4` | A call that reads the clock first and takes the mutex last counts a history that the other call has pruned. | `LimitsExact` |
| `PipelineMemorized.cfg` (`MCPipeline`) | `MemorizedIsInvalid`, from `tree/mod.rs:1971` | The local head of a detached-head unwind is memorized too. | `TargetReached` |
| `PipelineHead.cfg` (`MCPipeline`) | `HeadIsPersisted`, from `tree/mod.rs:2025` | Later stages are below the unwind target that becomes the head. | `IInv`: it is the last header |
| `EngineTreeStranded.cfg` (`MCEngineTree`) | `HeadReached`, from `tree/mod.rs:2108` | Backfill ends at the parent of a buffered block; the engine keeps asking for that parent. | `HeadReachedUnlessStranded` |
| `EngineTreeExclusive.cfg` (`MCEngineTree`) | `RemovalHarmless` | One batch reorgs below the persisted tip and asks for backfill; the removal of the old branch outlasts the run and is applied to the chain the pipeline has left. | `EngineSound`: no save does, and nothing is lost before |
| `EngineTreeUnwind.cfg` (`MCEngineTree`) | `EngineSound`, with both settings on | The head moves back below persisted blocks, which are removed; a tree block on top of them has lost its parent, and the next block on it ends the engine. | `EngineSound` with the defaults |
| `EngineTreeSideChain.cfg` (`MCEngineTree`) | `ValidMeansCanonical`, from `tree/mod.rs:1379` | A block that only the database still has is answered VALID while another branch stays canonical. | `ValidUnlessDiskReorg` |
| `ExExReorg.cfg` (`MCExEx`) | `DroppedIsKnown`, from `notifications.rs:517` | A reorg to a chain not above the head at launch is dropped. | `NotificationsFit` of the others |
| `ExExSkips.cfg` (`MCExEx`) | `SkippedAlwaysProcessed`, from `ExExHandle::send` | After a revert that was sent but not handled, a commit is skipped by its number although it was never processed. | `HeightsTold` |
| `ExExDormant.cfg` (`MCExEx`) | `InSync` | One notification per extension is sent in a poll; with more in the buffer and no report to wake the manager, the next one waits. | `InSyncUnlessDormant` |
| `TxPoolPending.cfg` (`MCTxPool`) | `PendingPays`, from `transaction-pool/src/lib.rs:110` | Filling a nonce gap makes a transaction pending below the base fee. | `QuietBlocksSettle` |
| `StorageTornUnwind.cfg` (`MCStorage`) | `UnwindRecovered`, from `database/provider.rs:268` | With the feature `partial-persistence`, a crash while an unwinding launch cuts the receipts leaves the segment's header ahead. | `StoresAgree` for all other crashes |

`PipelineDeep.cfg` (`MCPipeline`) passes: the properties of `pipeline_sync` with a
fork point that takes three unwinds, and one fault.

### Bounds

* Block trees have five to fifteen blocks in two or three branches. That is enough
  for a save in flight on each side of a reorg, for a masked state/trie frontier
  with a block above it, for a branch that ends below what is persisted, and for a
  detached head that takes several unwinds to reach the fork point.
* `MaxBuilds` bounds payload jobs. Two of them are needed for a notification to
  coalesce with another.
* `MaxBlocks` is four for the buffer, fewer than the blocks that can arrive.
* `MaxFaults` bounds crashes, launch unwinds and lost data together. With two, a
  crash can hit the recovery from another fault.
* `UnwindDepth` and `MinGap` are one, so that small trees exercise them.
* `MaxTime`, `LockWait` and `MaxGrants` bound the limiter. The cooldown is shorter
  than the window, so that two recipients can exhaust the limit of one address,
  and the instance violates `IpLimit`, so the skew does occur in it.
* `MaxMoves` bounds payloads and changes of mind of the consensus client. The
  forkchoice states include those of `EngineTreeExclusive.cfg`, so the overlap of a
  removal and a backfill run occurs in `engine_tree`.
* `MaxUpdates` and `MaxCrashes` bound the chain's changes and the restarts in `ExEx`;
  a world of `TxPoolMaintain` bounds blocks, transactions and failed loads;
  `MaxStimuli` bounds commands, timers and incoming connections in `Network`, where
  the limits are one so that they are reached and `MaxLoss` is one, so that a loss of
  reputation is a ban (failed dials back off without one; the theorems hold for every
  `MaxLoss`); `MaxSaves`, `MaxRemoves`, `MaxCrashes`
  and `MaxTip` bound `Storage`.

Deadlock is checked for the persistence, collections, engine tree and storage runs.
It is not checked for the others, whose stimuli, blocks, time or faults are bounded
and which may stop when these are used up.

### Fairness

* `EnginePersistence`: the engine thread and the persistence thread keep running,
  and payload jobs end, since the builder gives up at its deadline. Messages and
  restarts are not guaranteed.
* `Pipeline`: the node comes up, the pipeline task keeps running, and the
  consensus client repeats its forkchoice updates. Faults need not happen.
* `EngineTree`: messages are handled, downloads are answered, persistence tasks and
  pipeline runs end, and the consensus client repeats its forkchoice update.
* `ExEx`: a manager that has been woken is polled, the forwarding task and the
  extensions go on while they can.
* `Network`: queued actions are handled, and a session that was told to disconnect
  ends, as it does once its last message is sent or the socket has failed.
* `Storage`: the process goes on with its work, and a read transaction ends, since
  long reads are cut off by a timeout.
* `Faucet` and `TxPoolMaintain` have safety properties only and assume none.

## 4. Proofs

All theorems hold for every block tree that satisfies `BlockTreeAssumption`, and
for every value of the other constants that satisfies the assumptions in the
modules. Those are the assertions of `TreeConfig` and the ranges of the constants.
For the pipeline they also say that the initial chain contains no rejected block
and that the header stage rejects nothing.

### EnginePersistence

`EnginePersistenceInvariant` proves `[]IInv`, and the type invariant,
`EngineNeverFails`, `DiskIsOneChain`, `CanonicalReadable`, `CanonicalExecutable`,
`HandoffExclusive` and `ShutdownComplete` follow from it. None of these is
inductive. Whether eviction keeps the canonical chain executable depends on what
the persistence thread is doing, and the engine's own frontiers lag behind the
database between a commit and its result. The invariant is therefore stated over
`DiskFrontier`, which is the result on its way to the engine if there is one, and
the engine's frontiers otherwise:

* the database is exactly the chain of the frontier block;
* the canonical chain consists of tree blocks on top of the state/trie frontier's
  chain;
* persisted blocks that are no longer canonical are still in the tree, so a reorg
  back to them finds them;
* the blocks in memory are canonical;
* a save in flight extends the database and its blocks are still in the tree;
* an unwind in flight removes nothing that the head rests on;
* at most one request is in flight, and a deferred handoff excludes it.

The proof has one lemma per action. Lemmas on `RemoveUntil`, `RemovePersisted`
and `SaveInput` say what eviction keeps and why the assertions of
`SaveBlocksInput::new` hold.

### Pipeline

`PipelineInvariant` proves an invariant that adds the control state to the
properties: during a run the stages before the current one are at the tip; during
an unwind the stages after the current one are at or below its target, the target
is not above the headers, and it is below the bad block unless that is block 1.
`OneChain`, `NothingRejected`, `FinalizedAndHead` and the action property
`BadBlockGone` follow.

### Faucet

`FaucetInvariant` proves `[]FaucetInv`, for any number of handlers and all values of
cooldown, window and limit. The limiter's half says that `address_last` is the
latest grant to a recipient although instants can be recorded out of order, and that
`ip_history` has every grant to an address that is not older than the window. The
handler's half says that no grant is in two places (a handler, the wire, the node's
pool, the chain), that no handler was told a nonce above the pending one, and that
the pool has every nonce between the mined ones and the pending one. From it follow

* `CooldownEnforced`: no two grants to a recipient are closer than the cooldown;
* `PaymentsCoolDown`: a grant is paid at most once, and payments keep the cooldown;
* `NoncesGapless`: no transaction of the faucet waits behind a missing nonce;
* `LimitsAreExact`, an action property: a window shorter than `IP_WINDOW` by the
  longest wait for the mutex holds at most `Limit` grants, and a call is refused
  only for grants that were made and still count.

### Network

`NetworkSlotsCovered`, `NetworkConnectedHasSession` and `NetworkCountersNatural`
hold for every set of peers and all limits. The invariant says that the counters of
active connections are at least the number of entries in the states they count,
that dials and pending incoming sessions are counted exactly, and that a connected
entry has a session of its direction. Equality does not hold for the former
(`network_slots`), and the inequality is what keeps the unsigned counters from
underflowing. There is a lemma for every method of the peer manager, which says
what it does to the counters and to the entries' states, and one step per event of
the network combines them.

A second invariant, `BackedInv`, is inductive relative to the first. It follows what
an entry in a passing state waits for: an entry being disconnected has a session
that was told so or an action in the queue that will tell it, an entry backed off is
on the list that lifts it, and a dial has its request, its attempt or its session.
The notion that carries it is `Orderly`, which relates the table before and after a
method of the peer manager. `NetworkDisconnectsAreTold` and
`NetworkLosesSightOnlyOnDial` hold for all limits. `NetworkPassingIsBacked` assumes
`PendingLimit = {}`, the default of `SessionLimits`: with a bound on pending outgoing
sessions a dial is dropped without telling the table.

### ExEx

`ManagerIsSound` proves `[]ManagerSound` for every block tree, set of extensions,
capacity and number of crashes, whatever the extensions report and whichever of the
`Hardships` happen. The invariant adds the types of the queues and `Awake`: a manager
that is neither woken nor listening to `handle_rx` has a full buffer. It is needed
for the last conjunct, since a notification that arrives wakes the manager only if
it listens.

What an extension is told (`NotificationsFit`, `WalCovers`, `HeightsTold`) is only
model-checked: it holds under conditions on what the node does meanwhile.

### Only model-checked

* All liveness properties, which need fairness.
* `TreeState`, `BlockBuffer` and `EngineTree`, which use recursive operators for the
  loops of the code.
* `TxPool` and `TxPoolMaintain`: what a fold over the transactions of a sender
  computes needs induction over data.
* `Storage`: rows are counted by flattening sequences of blocks, and the count of a
  chain would have to be proved by induction.
* In `ExEx`, everything but the manager's bookkeeping.

## 5. Further work

* That `EngineTree` implements `EnginePersistence`, whose theorems would carry over.
* A proof of what an extension is told, from conditions on the node.
* Rollover of static files, and the pruner beside the stores.
* The request fetcher and the downloaders' buffering of responses.

## 6. Not modelled

* The EVM, consensus rules and the state trie: what they compute is functional
  correctness of large data structures. The models take their verdict on a block
  as given.
* MDBX: a transaction is taken to be atomic and durable.
* RPC, CLI, configuration, era import, metrics and tracing: they keep no state
  that another part's correctness rests on.
* Discovery, encryption and wire codecs: encodings over an open network.
* The pruner and the static file producer are taken not to touch what the models
  relate, which holds as long as they work below the persisted tip.

* Block and transaction fetchers, and the scheduling inside the downloaders.
* What the parts that are modelled leave out is listed under each of them in
  section 2 and in the notes of `PROJECT.json`.

The models cover a small part of the repository's lines: the parts above are the
bulk of them.
