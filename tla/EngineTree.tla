----------------------------- MODULE EngineTree -----------------------------
(***************************************************************************)
(* The message handlers of the engine tree (EngineApiTreeHandler,          *)
(* crates/engine/tree/src/tree/mod.rs) with what they work on: the tree of *)
(* executed blocks, the buffer of disconnected ones, the invalid headers,  *)
(* the forkchoice tracker and the backfill state; and around it the        *)
(* downloader, the orchestrator that owns the pipeline, the persistence    *)
(* task and a consensus client that repeats its forkchoice updates.        *)
(*                                                                         *)
(* A handler runs to its end on the engine thread, advance_persistence     *)
(* included, and is one step.  Handlers are operators from the engine's    *)
(* state to its next state; EnginePersistence has the operators on the     *)
(* tree, and the steps inside persistence that are one step here.          *)
(***************************************************************************)
EXTENDS BlockTree, Sequences, SequencesExt, MapOfSets

CONSTANTS
  None,
  Bad,                       \* blocks that fail to execute
  Malformed,                 \* those of them that fail validate_block already
  Payloads,                  \* blocks the consensus client sends by newPayload
  Forkchoices,               \* its forkchoice states: head, safe and finalized
  MaxMoves,                  \* bound on its payloads and changes of mind
  MinGap,                    \* MIN_BLOCKS_FOR_PIPELINE_RUN
  BufferLimit,               \* TreeConfig::block_buffer_limit
  HitThreshold,              \* TreeConfig::invalid_header_hit_eviction_threshold
  BatchSize,                 \* TreeConfig::max_execute_block_batch_size
  PersistenceThreshold,      \* TreeConfig::persistence_threshold
  MemoryBlockBufferTarget,   \* TreeConfig::memory_block_buffer_target
  BackpressureThreshold,     \* TreeConfig::persistence_backpressure_threshold
  AlwaysProcess,             \* TreeConfig::always_process_payload_attributes_on_canonical_head
  UnwindCanonicalHeader      \* TreeConfig::unwind_canonical_header

VARIABLES
  tree,        \* TreeState::blocks_by_hash
  linked,      \* the blocks that parent_to_child lists under their parent
  head,        \* TreeState::current_canonical_head
  mem,         \* CanonicalInMemoryState: canonical blocks kept for readers
  finalized,   \* CanonicalInMemoryState: the finalized block
  safe,        \* CanonicalInMemoryState: the safe block
  heard,       \* ForkchoiceStateTracker: latest.is_some()
  syncing,     \* ForkchoiceStateTracker::last_syncing
  lastValid,   \* ForkchoiceStateTracker: finalized hash of last_valid
  buffer,      \* BlockBuffer, in the order of its queue
  invalid,     \* InvalidHeaderCache
  backfill,    \* backfill_sync_state
  persisted,   \* PersistenceState::last_persisted_block
  job,         \* the persistence task whose result the engine waits for
  stray,       \* tasks before it in the persistence thread's queue that nobody waits for
  down,        \* the persistence thread has ended with an error
  db,          \* the tip of the database
  incoming,    \* messages to the engine from the orchestrator and itself
  requests,    \* the downloader's requests in flight
  action,      \* a BackfillAction on its way to the orchestrator
  pipeline,    \* the target of the pipeline, while it runs
  reported,    \* blocks that the pipeline has reported as bad
  overlap,     \* a backfill run has ended before a persistence task asked for earlier
  failed,      \* the engine thread has ended with an error
  cl,          \* the forkchoice state the consensus client asks for
  moves        \* its payloads and changes of mind so far

vars == <<tree, linked, head, mem, finalized, safe, heard, syncing, lastValid, buffer, invalid,
          backfill, persisted, job, stray, down, db, incoming, requests, action, pipeline, reported,
          overlap, failed, cl, moves>>

\* what a handler reads and changes
Engine ==
  [tree |-> tree, linked |-> linked, head |-> head, mem |-> mem, finalized |-> finalized,
   safe |-> safe, heard |-> heard, syncing |-> syncing, lastValid |-> lastValid,
   buffer |-> buffer, invalid |-> invalid, backfill |-> backfill, persisted |-> persisted,
   job |-> job, stray |-> stray, db |-> db, incoming |-> incoming, requests |-> requests, action |-> action,
   failed |-> failed]

Become(s) ==
  /\ tree' = s.tree /\ linked' = s.linked /\ head' = s.head /\ mem' = s.mem
  /\ finalized' = s.finalized /\ safe' = s.safe
  /\ heard' = s.heard /\ syncing' = s.syncing /\ lastValid' = s.lastValid
  /\ buffer' = s.buffer /\ invalid' = s.invalid /\ backfill' = s.backfill
  /\ persisted' = s.persisted /\ job' = s.job /\ stray' = s.stray
  /\ db' = s.db
  /\ incoming' = s.incoming /\ requests' = s.requests /\ action' = s.action
  /\ failed' = s.failed

\* the operators on the tree
Tree(s) ==
  INSTANCE EnginePersistence WITH
    tree <- s.tree, linked <- s.linked, head <- s.head, finalized <- s.lastValid, mem <- s.mem,
    disk <- chain[s.db], lastPersisted <- s.persisted, lastTrie <- s.persisted,
    rx <- s.job # None, handoff <- None, job <- None, reply <- None, pc <- "handle",
    dbTip <- number[s.db], dbTrie <- number[s.db], builds <- 0, dropping <- 0, token <- FALSE,
    NumStateMaskingBlocks <- 0, SuppressDuringBuild <- FALSE, MaxBuilds <- 0

\* find_canonical_header: the canonical blocks in memory, then the database
Found(s, h) == h \in s.mem \cup chain[s.db]

\* sealed_header_by_hash, has_block_by_hash: the tree first
HasBlock(s, h) == h \in s.tree \/ Found(s, h)

----------------------------------------------------------------------------
(***************************************************************************)
(* The buffer, as BlockBuffer shows its collections to behave.             *)
(***************************************************************************)

Buffered(s) == ToSet(s.buffer)

\* insert_block
Buffer(s, b) ==
  [s EXCEPT !.buffer =
     IF b \in Buffered(s) THEN @
     ELSE Append(IF Len(@) >= BufferLimit /\ @ # <<>> THEN Tail(@) ELSE @, b)]

\* b and the buffered blocks that hang on it
Hanging(s, b) ==
  {h \in Buffered(s) : b \in chain[h] /\ ChainAbove(h, number[b]) \subseteq Buffered(s)}

Unbuffer(s, B) == [s EXCEPT !.buffer = SelectSeq(@, LAMBDA b : b \notin B)]

\* lowest_ancestor of a buffered block
LowestAncestor(s, b) ==
  CHOOSE a \in chain[b] : /\ ChainAbove(b, number[a] - 1) \subseteq Buffered(s)
                          /\ Parent(a) \notin Buffered(s)

LowestBufferedAncestorOr(s, b) ==
  IF b \in Buffered(s) THEN Parent(LowestAncestor(s, b)) ELSE b

ByNumber(B) == SetToSortSeq(B, LAMBDA a, b : number[a] < number[b])

----------------------------------------------------------------------------
(***************************************************************************)
(* InvalidHeaderCache: a hash with its invalid ancestor and a hit count.   *)
(***************************************************************************)

\* get: counts the hit, and evicts the entry when there have been too many
Get(c, h) ==
  IF h \notin DOMAIN c THEN [cache |-> c, hit |-> None]
  ELSE IF c[h].hits + 1 < HitThreshold
    THEN [cache |-> [c EXCEPT ![h].hits = @ + 1], hit |-> c[h].ancestor]
    ELSE [cache |-> Without(c, h), hit |-> None]

\* insert_with_invalid_ancestor, and insert for a block that is itself invalid
AddUnlessHit(got, h, a) ==
  IF got.hit # None THEN got.cache
  ELSE [x \in DOMAIN got.cache \cup {h} |->
          IF x = h THEN [ancestor |-> a, hits |-> 0] ELSE got.cache[x]]

InsertInvalid(c, h, a) == AddUnlessHit(Get(c, h), h, a)

\* the walk of latest_valid_hash_for_invalid_payload over invalid ancestors: `got`
\* is what the cache has for a hash, and `h` the hash if its block may be valid
RECURSIVE WalkInvalid(_, _, _)
WalkInvalid(s, got, h) ==
  IF got.hit # None
    THEN WalkInvalid(s, Get(got.cache, Parent(got.hit)), Parent(got.hit))
    ELSE [s |-> [s EXCEPT !.invalid = got.cache],
          hash |-> IF h # None /\ HasBlock(s, h) THEN h ELSE None]

\* latest_valid_hash_for_invalid_payload, prepare_invalid_response
LatestValid(s, parent) ==
  IF HasBlock(s, parent) THEN [s |-> s, hash |-> parent]
  ELSE WalkInvalid(s, Get(s.invalid, parent), None)

\* variation: remembers the parent of the invalid block
MemorizeParent(v, b, a) ==
  [s |-> [v.s EXCEPT !.invalid = InsertInvalid(@, b, Parent(a))],
   status |-> "INVALID", hash |-> v.hash]

\* on_invalid_new_payload, b a descendant of the invalid block a, and
\* on_insert_block_error, with a = b; v is the answer's latest valid block
Memorize(v, b, a) ==
  [s |-> [v.s EXCEPT !.invalid = InsertInvalid(@, b, a)], status |-> "INVALID", hash |-> v.hash]

Invalid(s, b, a) == Memorize(LatestValid(s, Parent(a)), b, a)

----------------------------------------------------------------------------
(***************************************************************************)
(* The canonical chain and the forkchoice state.                           *)
(***************************************************************************)

NewChainFork(s, h) == number[ForkPoint(s.head, Parent(h))]

\* on_new_head finds all of the new chain in the tree
HasNewChain(s, h) == h \in s.tree /\ ChainAbove(h, NewChainFork(s, h)) \subseteq s.tree

\* the blocks that are reorged out can be loaded
HasOldChain(s, h) == \A b \in ChainAbove(s.head, NewChainFork(s, h)) : HasBlock(s, b)

\* variation: does not put the reorged blocks back into the tree
UpdateChainNoReinsert(s, h) ==
  LET new == ChainAbove(h, NewChainFork(s, h))
      old == ChainAbove(s.head, NewChainFork(s, h))
  IN  [s EXCEPT !.head = h, !.mem = (@ \ old) \cup new]

\* variation: leaves the reorged blocks in memory
UpdateChainKeepsOld(s, h) ==
  LET new == ChainAbove(h, NewChainFork(s, h))
      old == ChainAbove(s.head, NewChainFork(s, h))
  IN  [s EXCEPT !.head = h,
                !.tree = @ \cup old,
                !.linked = @ \cup (old \ s.tree),
                !.mem = @ \cup new]

\* on_canonical_chain_update
UpdateChain(s, h) ==
  LET new == ChainAbove(h, NewChainFork(s, h))
      old == ChainAbove(s.head, NewChainFork(s, h))
  IN  [s EXCEPT !.head = h,
                !.tree = @ \cup old,
                !.linked = @ \cup (old \ s.tree),
                !.mem = (@ \ old) \cup new]

\* update_finalized_block and update_safe_block, which is skipped after an error
EnsureConsistent(s, f) ==
  LET known(h) == h = None \/ Found(s, h)
  IN  IF ~known(f.finalized) THEN s
      ELSE [s EXCEPT !.finalized = IF f.finalized = None THEN @ ELSE f.finalized,
                     !.safe = IF f.safe = None \/ ~known(f.safe) THEN @ ELSE f.safe]

IsConsistent(s, f) == \A h \in {f.finalized, f.safe} : h = None \/ Found(s, h)

\* set_latest
SetLatest(s, f, status) ==
  [s EXCEPT !.heard = TRUE,
            !.syncing = IF status = "VALID" THEN None ELSE IF status = "SYNCING" THEN f ELSE @,
            !.lastValid = IF status = "VALID" THEN f.finalized ELSE @]

\* on_canonicalized_sync_target with promote_sync_target_to_valid
Canonicalized(s, h) ==
  IF s.syncing = None \/ s.syncing.head # h THEN s
  ELSE LET t == EnsureConsistent(s, s.syncing)
       IN  IF IsConsistent(s, s.syncing)
             THEN [t EXCEPT !.syncing = None, !.lastValid = s.syncing.finalized]
             ELSE t

\* make_canonical; a lookup that fails ends the engine
MakeCanonical(s, h) ==
  IF HasNewChain(s, h) /\ ~HasOldChain(s, h) THEN [s EXCEPT !.failed = TRUE]
  ELSE Canonicalized(IF HasNewChain(s, h) THEN UpdateChain(s, h) ELSE s, h)

IsAnySyncTarget(s, b) ==
  s.syncing # None /\ b \in {s.syncing.head, s.syncing.safe, s.syncing.finalized}

----------------------------------------------------------------------------
(***************************************************************************)
(* Events to the orchestrator.                                             *)
(***************************************************************************)

\* variation: is pending although the action is dropped
EmitBackfillPending(s, t) ==
  IF s.job # None THEN [s EXCEPT !.backfill = "pending"]
  ELSE [s EXCEPT !.backfill = "pending", !.action = t]

\* emit_event for a BackfillAction: dropped while a persistence task runs
EmitBackfill(s, t) ==
  IF s.job # None THEN s ELSE [s EXCEPT !.backfill = "pending", !.action = t]

\* emit_event for a DownloadRequest, and the downloader's on_action
EmitDownload(s, h, count) == [s EXCEPT !.requests = @ \cup {[hash |-> h, count |-> count]}]

ExceedsThreshold(tip, n) == n > tip + MinGap

\* backfill_sync_target
BackfillTarget(s, tip, n, downloaded) ==
  LET target == s.syncing.finalized
      at == IF target # None /\ (target = downloaded \/ target \in Buffered(s))
              THEN number[target] ELSE n
  IN  IF s.syncing = None \/ ~ExceedsThreshold(tip, at) THEN None
      ELSE IF target = None THEN s.syncing.head
      ELSE IF Found(s, target) THEN None ELSE target

----------------------------------------------------------------------------
(***************************************************************************)
(* Inserting blocks.                                                       *)
(***************************************************************************)

\* the parent of the lowest buffered ancestor of b, before b itself is buffered
MissingAncestor(s, b) ==
  IF Parent(b) \in Buffered(s) THEN Parent(LowestAncestor(s, Parent(b))) ELSE Parent(b)

Result(s, status, hash) == [s |-> s, status |-> status, hash |-> hash]

\* variation: takes a buffered block for one that has been executed
InsertBuffered(s, b) ==
  IF b \in s.tree \cup Buffered(s) \/ (number[b] <= number[s.persisted] /\ Found(s, b))
    THEN Result(s, "SEEN", None)
  ELSE IF ~HasBlock(s, Parent(b))
    THEN Result(Buffer(s, b), "DISCONNECTED", MissingAncestor(s, b))
  ELSE IF b \in Bad
    THEN Invalid(s, b, b)
  ELSE Result([s EXCEPT !.tree = @ \cup {b}, !.linked = @ \cup {b}], "VALID", None)

\* insert_block_or_payload, and on_insert_block_error as all its callers do; with
\* DISCONNECTED the hash is the missing ancestor's
Insert(s, b) ==
  IF b \in s.tree \/ (number[b] <= number[s.persisted] /\ Found(s, b))
    THEN Result(s, "SEEN", None)
  ELSE IF ~HasBlock(s, Parent(b))
    THEN Result(Buffer(s, b), "DISCONNECTED", MissingAncestor(s, b))
  ELSE IF ~Tree(s)!StateAvailable(Parent(b))
    THEN Result([s EXCEPT !.failed = TRUE], "ERROR", None)
  ELSE IF b \in Bad
    THEN Invalid(s, b, b)
  ELSE Result([s EXCEPT !.tree = @ \cup {b}, !.linked = @ \cup {b}], "VALID", None)

\* one turn of the loop of try_connect_buffered_blocks, r the result for b
Connected(r, b) ==
  IF r.status = "VALID" /\ IsAnySyncTarget(r.s, b) THEN MakeCanonical(r.s, b) ELSE r.s

Connect(s, b) == IF s.failed THEN s ELSE Connected(Insert(s, b), b)

\* try_connect_buffered_blocks
TryConnect(s, b) ==
  LET blocks == Hanging(s, b)
  IN  FoldLeft(Connect, Unbuffer(s, blocks), ByNumber(blocks))

----------------------------------------------------------------------------
(***************************************************************************)
(* Downloaded blocks.                                                      *)
(***************************************************************************)

\* on_disconnected_downloaded_block, with the event handled
StartOrDownload(s, target, missing) ==
  IF target # None THEN [s |-> EmitBackfill(s, target), stop |-> TRUE]
  ELSE [s |-> EmitDownload(s, missing,
                           GreatestOf(SaturatingSub(number[missing], number[s.head]), 1)),
        stop |-> FALSE]

OnDisconnected(s, b, missing) ==
  StartOrDownload(s, BackfillTarget(s, number[s.head], number[missing], b), missing)

\* on towards the head of the sync target, after a target below it is canonical
TowardsHead(s, target) ==
  IF s.failed \/ s.head = target THEN s
  ELSE EmitDownload(s, LowestBufferedAncestorOr(s, target), 1)

\* on_valid_downloaded_block, with the event handled
OnValid(s, b) ==
  IF ~IsAnySyncTarget(s, b) THEN TryConnect(s, b)
  ELSE IF s.syncing.head = b THEN MakeCanonical(s, b)
  ELSE TowardsHead(TryConnect(MakeCanonical(s, b), b), s.syncing.head)

Go(s) == [s |-> s, stop |-> s.failed]

\* on_downloaded_block, after the lookup of invalid ancestors and after insert_block
OnInserted(r, b) ==
  IF r.status = "VALID" THEN Go(OnValid(r.s, b))
  ELSE IF r.status = "DISCONNECTED" THEN OnDisconnected(r.s, b, r.hash)
  ELSE Go(r.s)

OnLookedUp(s, hit, b) ==
  IF hit # None THEN Go(Invalid(s, b, hit).s)
  ELSE IF s.backfill # "idle" THEN Go(s)
  ELSE OnInserted(Insert(s, b), b)

Looked(s, got) == [s EXCEPT !.invalid = got.cache]

WithLookup(s, got, b) == OnLookedUp(Looked(s, got), got.hit, b)

\* on_downloaded_block
OnDownloadedBlock(s, b) == WithLookup(s, Get(s.invalid, LowestBufferedAncestorOr(s, b)), b)

\* on_downloaded: one batch of the blocks; the rest is sent round again, unless
\* a backfill run was asked for
SendRest(done, rest) ==
  IF done.stop \/ rest = <<>> THEN done.s
  ELSE [done.s EXCEPT !.incoming = Append(@, [type |-> "blocks", blocks |-> rest])]

OnDownloaded(s, blocks) ==
  LET step(acc, b) == IF acc.stop THEN acc ELSE OnDownloadedBlock(acc.s, b)
  IN  SendRest(FoldLeft(step, [s |-> s, stop |-> FALSE],
                        SubSeq(blocks, 1, LeastOf(BatchSize, Len(blocks)))),
               SubSeq(blocks, BatchSize + 1, Len(blocks)))

----------------------------------------------------------------------------
(***************************************************************************)
(* Requests of the consensus client.                                       *)
(***************************************************************************)

\* find_invalid_ancestor
OrAncestor(s, own, b) ==
  IF own.hit # None THEN own
  ELSE Get(own.cache, IF b \in Buffered(s) THEN LowestBufferedAncestorOr(s, b) ELSE Parent(b))

FindInvalidAncestor(s, b) == OrAncestor(s, Get(s.invalid, b), b)

\* try_insert_payload, r the result of the insertion
Failing(s) == Result(s, IF s.failed THEN "ERROR" ELSE "VALID", None)

Inserted(r, b) ==
  CASE r.status = "VALID" -> Failing(TryConnect(r.s, b))
    [] r.status = "SEEN" -> Result(r.s, "VALID", None)
    [] r.status = "DISCONNECTED" -> Result(r.s, "SYNCING", None)
    [] OTHER -> r

\* try_buffer_payload
TryBufferPayload(s, b) ==
  IF b \in Malformed THEN Invalid(s, b, b) ELSE Result(Buffer(s, b), "SYNCING", None)

\* the end of on_new_payload and its event; an error is the answer to the client
FinishPayload(r, b) ==
  IF r.status = "ERROR" THEN [r EXCEPT !.s.failed = FALSE]
  ELSE IF /\ r.status = "VALID"
          /\ r.s.syncing # None
          /\ r.s.syncing.head = b
          /\ r.s.head # b
    THEN [r EXCEPT !.s = MakeCanonical(@, b)]
  ELSE r

HandlePayload(s, hit, b) ==
  IF hit # None THEN Invalid(s, b, hit)
  ELSE FinishPayload(IF s.backfill = "idle" THEN Inserted(Insert(s, b), b)
                     ELSE TryBufferPayload(s, b), b)

CheckedPayload(s, got, b) == HandlePayload(Looked(s, got), got.hit, b)

\* on_new_payload
OnNewPayload(s, b) == CheckedPayload(s, FindInvalidAncestor(s, b), b)

\* handle_canonical_head and the end of apply_chain_update
Consistent(s, f) ==
  Result(EnsureConsistent(s, f), IF IsConsistent(s, f) THEN "VALID" ELSE "INVALID", None)

\* handle_missing_block
HandleMissing(s, f) ==
  LET target == IF ~s.heard /\ f.safe # None /\ ~Found(s, f.safe) THEN f.safe ELSE f.head
  IN  Result(EmitDownload(s, LowestBufferedAncestorOr(s, target), 1), "SYNCING", None)

\* update_latest_block_to_canonical_ancestor
UnwindTo(s, h) ==
  LET above == {b \in s.mem : number[b] \in number[h] + 1..number[s.head]}
      held == \E b \in s.mem : number[b] = number[h]
  IN  [s EXCEPT !.head = h,
                !.mem = IF number[h] < number[s.head] THEN (@ \ above) \cup {h}
                        ELSE IF held THEN @ ELSE @ \cup {h}]

\* apply_chain_update for a head that is found: below the finalized block it is refused,
\* else the canonical chain stays as it is, unless configured otherwise
ToFoundHead(s, h) ==
  IF ~AlwaysProcess /\ s.finalized # None /\ number[h] < number[s.finalized]
    THEN Result(s, "INVALID", None)
  ELSE Result(IF AlwaysProcess /\ UnwindCanonicalHeader THEN UnwindTo(s, h) ELSE s, "VALID", None)

\* on_forkchoice_updated without payload attributes, after the lookup
HandleForkchoice(s, hit, f) ==
  IF hit # None
    THEN Result(LatestValid(s, Parent(hit)).s, "INVALID", None)
  ELSE IF s.backfill # "idle" THEN Result(s, "SYNCING", None)
  ELSE IF s.head = f.head THEN Consistent(s, f)
  ELSE IF Found(s, f.head) THEN ToFoundHead(s, f.head)
  ELSE IF ~HasNewChain(s, f.head) THEN HandleMissing(s, f)
  ELSE IF ~HasOldChain(s, f.head) THEN Result(s, "ERROR", None)
  ELSE Consistent(UpdateChain(s, f.head), f)

CheckedForkchoice(s, got, f) == HandleForkchoice(Looked(s, got), got.hit, f)

\* on_forkchoice_updated; a zero head is refused at once
OnForkchoiceUpdated(s, f) ==
  IF f.head = None THEN Result(s, "INVALID", None)
  ELSE CheckedForkchoice(s, Get(s.invalid, LowestBufferedAncestorOr(s, f.head)), f)

----------------------------------------------------------------------------
(***************************************************************************)
(* The end of a backfill run.                                              *)
(***************************************************************************)

\* remove_old_blocks
RemoveOldBlocks(s, n) ==
  Unbuffer(s, UNION {Hanging(s, b) : b \in {a \in Buffered(s) : number[a] <= n}})

\* BlockchainProvider::block_hash: canonical blocks in memory hide the database's
BlockHash(s, n) ==
  IF \E b \in s.mem : number[b] = n THEN CHOOSE b \in s.mem : number[b] = n
  ELSE IF n <= number[s.db] THEN BlockAt(s.db, n) ELSE None

\* finish with the new head: the engine no longer waits for the task in progress, which the
\* persistence thread still has in its queue
Reset(s, tip) ==
  [s EXCEPT !.head = tip, !.persisted = tip, !.job = None,
            !.stray = IF s.job = None \/ s.job.done THEN @ ELSE Append(@, s.job)]

\* the house keeping of on_backfill_sync_finished at height n: T is what stays of the tree;
\* with nothing in memory any more, the new head is the database's block
ResetTo(s, n, T) ==
  LET t == [RemoveOldBlocks(s, n) EXCEPT !.tree = T, !.linked = Tree(s)!LinksAfter(T), !.mem = {}]
  IN  IF n <= number[s.db] THEN Reset(t, BlockAt(s.db, n)) ELSE t

AfterBackfill(s, ctrl, x) ==
  IF ctrl.unwind THEN ResetTo([s EXCEPT !.head = x], ctrl.height, {})
  ELSE ResetTo(s, ctrl.height, Tree([s EXCEPT !.lastValid = x])!RemoveUntil(s.persisted, x))

\* the end of on_backfill_sync_finished: what is left to do to reach the sync target
CloseGap(s, lowest) ==
  IF number[lowest] > number[s.head]
    THEN EmitDownload(s, Parent(lowest), number[lowest] - number[s.head])
    ELSE TryConnect(s, s.head)

AgainOrClose(s, again) ==
  IF again # None THEN EmitBackfill(s, again)
  ELSE IF s.syncing.head \notin Buffered(s) THEN EmitDownload(s, s.syncing.head, 1)
  ELSE CloseGap(s, LowestAncestor(s, s.syncing.head))

ContinueSync(s, ctrl) ==
  IF s.syncing = None \/ s.syncing.finalized = None THEN s
  ELSE AgainOrClose(s, IF ctrl.unwind \/ s.syncing.finalized \notin Buffered(s) THEN None
                       ELSE BackfillTarget(s, ctrl.height, number[s.syncing.finalized], None))

Finish(s, ctrl, x) == IF x = None THEN s ELSE ContinueSync(AfterBackfill(s, ctrl, x), ctrl)

\* on_backfill_sync_finished
OnBackfillFinished(s, ctrl) ==
  Finish([s EXCEPT !.backfill = "idle",
                   !.invalid = IF ctrl.unwind THEN InsertInvalid(@, ctrl.bad, ctrl.bad) ELSE @],
         ctrl, BlockHash(s, ctrl.height))

----------------------------------------------------------------------------
(***************************************************************************)
(* Persistence, one step for the thread and one for each end of the engine.*)
(***************************************************************************)

Start(s, op, to) ==
  [s EXCEPT !.job = [op |-> op, from |-> s.persisted, to |-> to, done |-> FALSE]]

\* remove_blocks
StartRemove(s) == Start(s, "remove", ForkPoint(s.head, s.persisted))

\* advance_persistence, at the end of every turn of the engine's loop
Advance(s) ==
  IF s.failed \/ s.job # None THEN s
  ELSE IF ~Tree(s)!WalkFinds(s.persisted) THEN [s EXCEPT !.failed = TRUE]
  ELSE IF Tree(s)!DiskReorg(s.persisted) THEN StartRemove(s)
  ELSE IF s.backfill = "idle" /\ Tree(s)!SaveWanted("threshold")
    THEN Start(s, "save", BlockAt(s.head, Tree(s)!NewTip("threshold")))
  ELSE s

\* on_new_persisted_block
Evict(s, p, T) ==
  [s EXCEPT !.tree = T, !.linked = Tree(s)!LinksAfter(T), !.mem = Tree(s)!RemovePersisted(p, p)]

OnNewPersisted(s, p) ==
  IF ~Tree(s)!WalkFinds(p) THEN [s EXCEPT !.failed = TRUE]
  ELSE IF Tree(s)!DiskReorg(p) THEN StartRemove(s)
  ELSE Evict(s, p, Tree(s)!RemoveUntil(p, p))

\* on_persistence_complete
OnPersistenceComplete(s) ==
  OnNewPersisted([s EXCEPT !.persisted = s.job.to, !.job = None], s.job.to)

----------------------------------------------------------------------------
(***************************************************************************)
(* The specification.                                                      *)
(***************************************************************************)

Init ==
  /\ tree = {} /\ linked = {} /\ head = Genesis /\ mem = {}
  /\ finalized = None /\ safe = None
  /\ heard = FALSE /\ syncing = None /\ lastValid = None
  /\ buffer = <<>> /\ invalid = EmptyMap /\ backfill = "idle"
  /\ persisted = Genesis /\ job = None /\ stray = <<>> /\ down = FALSE /\ db = Genesis
  /\ incoming = <<>> /\ requests = {} /\ action = None
  /\ failed = FALSE
  /\ pipeline = None /\ reported = {} /\ overlap = FALSE
  /\ cl \in Forkchoices /\ moves = 0

\* the engine takes a message: it has not failed and does not wait for persistence
MayReceive == ~failed /\ ~Tree(Engine)!ShouldBackpressure

\* one turn of the loop of the engine
Turn(s) == MayReceive /\ Become(Advance(s))

\* the engine after a message with the forkchoice state f
Track(r, f) == IF r.status = "ERROR" THEN r.s ELSE SetLatest(r.s, f, r.status)

Updated(s, f) == Advance(Track(OnForkchoiceUpdated(s, f), f))

ForkchoiceUpdated ==
  /\ MayReceive
  /\ Become(Updated(Engine, cl))
  /\ UNCHANGED <<down, pipeline, reported, overlap, cl, moves>>

NewPayload(b) ==
  /\ moves < MaxMoves
  /\ moves' = moves + 1
  /\ Turn(OnNewPayload(Engine, b).s)
  /\ UNCHANGED <<down, pipeline, reported, overlap, cl>>

\* a message from the orchestrator, or the rest of a batch
Receive ==
  LET s == [Engine EXCEPT !.incoming = Tail(@)]
      msg == Head(incoming)
  IN  /\ incoming # <<>>
      /\ Turn(CASE msg.type = "blocks" -> OnDownloaded(s, msg.blocks)
                [] msg.type = "started" -> [s EXCEPT !.backfill = "active"]
                [] msg.type = "finished" -> OnBackfillFinished(s, msg))
      /\ UNCHANGED <<down, pipeline, reported, overlap, cl, moves>>

\* try_poll_persistence: the result has come, or never will
PersistenceComplete ==
  /\ ~failed
  /\ job # None
  /\ job.done \/ down
  /\ Become(IF job.done THEN Advance(OnPersistenceComplete(Engine))
            ELSE [Engine EXCEPT !.failed = TRUE])
  /\ UNCHANGED <<down, pipeline, reported, overlap, cl, moves>>

\* the tip of the database after a task: blocks are removed by number, and saved only on
\* the tip they were meant for
TipAfter(task) ==
  IF task.op = "save" THEN IF db = task.from THEN task.to ELSE None
  ELSE IF number[task.to] <= number[db] THEN BlockAt(db, number[task.to]) ELSE None

\* PersistenceService::run: the next task is carried out, or ends the thread
PersistenceCommit ==
  LET tip == TipAfter(IF stray # <<>> THEN Head(stray) ELSE job)
  IN  /\ ~down
      /\ stray # <<>> \/ (job # None /\ ~job.done)
      /\ down' = (tip = None)
      /\ db' = IF tip = None THEN db ELSE tip
      /\ IF stray # <<>> THEN stray' = Tail(stray) /\ UNCHANGED job
         ELSE /\ job' = IF tip = None THEN job ELSE [job EXCEPT !.to = tip, !.done = TRUE]
              /\ UNCHANGED stray
      /\ UNCHANGED <<tree, linked, head, mem, finalized, safe, heard, syncing, lastValid, buffer,
                     invalid, backfill, persisted, incoming, requests, action, pipeline, reported,
                     overlap, failed, cl, moves>>

\* the blocks that BasicBlockDownloader gets for a request
Blocks(r) == ChainAbove(r.hash, number[r.hash] - r.count)

\* BasicBlockDownloader::poll: some of the requests are complete, and the engine
\* gets the blocks of all of them at once
Downloaded(R) ==
  /\ R # {} /\ R \subseteq requests
  /\ Turn(OnDownloaded([Engine EXCEPT !.requests = @ \ R], ByNumber(UNION {Blocks(r) : r \in R})))
  /\ UNCHANGED <<down, pipeline, reported, overlap, cl, moves>>

\* EngineHandler::poll clears the downloader, PipelineSync spawns the pipeline
PipelineStarts ==
  /\ action # None
  /\ action' = None
  /\ pipeline' = action
  /\ requests' = {}
  /\ incoming' = Append(incoming, [type |-> "started"])
  /\ UNCHANGED <<tree, linked, head, mem, finalized, safe, heard, syncing, lastValid, buffer,
                 invalid, backfill, persisted, job, stray, down, db, reported, overlap, failed, cl,
                 moves>>

\* the pipeline ends, its database at x; bad is the block that made it unwind
PipelineEnds(x, bad) ==
  /\ pipeline' = None
  /\ db' = x
  /\ reported' = reported \cup ({bad} \ {None})
  /\ overlap' = (overlap \/ (job # None /\ ~job.done) \/ stray # <<>>)
  /\ incoming' = Append(incoming, [type |-> "finished", height |-> number[x],
                                   unwind |-> bad # None, bad |-> bad])
  /\ UNCHANGED <<tree, linked, head, mem, finalized, safe, heard, syncing, lastValid, buffer,
                 invalid, backfill, persisted, job, stray, down, requests, action, failed, cl, moves>>

BadAhead == ChainAbove(pipeline, number[db]) \cap Bad

\* it has reached its target
PipelineReaches ==
  /\ pipeline # None
  /\ db \in chain[pipeline]
  /\ BadAhead = {}
  /\ PipelineEnds(pipeline, None)

\* a block on the way is not valid: the blocks before it may have been committed
PipelineRejects ==
  /\ pipeline # None
  /\ db \in chain[pipeline]
  /\ \E b \in BadAhead :
       /\ \A c \in BadAhead : number[b] <= number[c]
       /\ \E x \in ChainAbove(Parent(b), number[db] - 1) : PipelineEnds(x, b)

\* the local tip is not an ancestor of the target: unwind, but not below block 1,
\* and report the tip
PipelineDetaches ==
  /\ pipeline # None
  /\ db \notin chain[pipeline]
  /\ \E x \in chain[db] : /\ number[x] \in 1..GreatestOf(number[db] - 1, 1)
                          /\ PipelineEnds(x, db)

\* the consensus client changes its mind
Switch ==
  /\ moves < MaxMoves
  /\ moves' = moves + 1
  /\ cl' \in Forkchoices \ {cl}
  /\ UNCHANGED <<tree, linked, head, mem, finalized, safe, heard, syncing, lastValid, buffer,
                 invalid, backfill, persisted, job, stray, down, db, incoming, requests, action,
                 pipeline, reported, overlap, failed>>

Next ==
  \/ ForkchoiceUpdated
  \/ \E b \in Payloads : NewPayload(b)
  \/ Receive
  \/ PersistenceComplete
  \/ PersistenceCommit
  \/ \E R \in SUBSET requests : Downloaded(R)
  \/ PipelineStarts
  \/ PipelineReaches
  \/ PipelineRejects
  \/ PipelineDetaches
  \/ Switch

(***************************************************************************)
(* Weak fairness of every step but NewPayload and Switch: the engine, the  *)
(* pipeline and the persistence thread go on, each request to the network  *)
(* is answered, and the consensus client repeats its forkchoice update.    *)
(* But for the last, a step stays enabled until it is taken and is not     *)
(* enabled right after, so that its fairness is []<>(it is not enabled);   *)
(* WF_vars(ForkchoiceUpdated) is written out with what enables a step that *)
(* changes something.  TLC is slow to evaluate ENABLED.                    *)
(***************************************************************************)
Fairness ==
  /\ []<>(failed \/ incoming = <<>>)
  /\ \A h \in Block : []<>(failed \/ h \notin {r.hash : r \in requests})
  /\ []<>(down \/ (stray = <<>> /\ (job = None \/ job.done)))
  /\ []<>(failed \/ job = None \/ ~(job.done \/ down))
  /\ []<>(action = None)
  /\ []<>(pipeline = None)
  /\ \/ []<>~(MayReceive /\ Updated(Engine, cl) # Engine)
     \/ []<><<ForkchoiceUpdated>>_vars

Spec == Init /\ [][Next]_vars /\ Fairness

----------------------------------------------------------------------------

Task == [op : {"save", "remove"}, from : Block, to : Block, done : BOOLEAN]

Message ==
  [type : {"blocks"}, blocks : Seq(Block)] \cup [type : {"started"}]
  \cup [type : {"finished"}, height : Nat, unwind : BOOLEAN, bad : Block \cup {None}]

TypeOK ==
  /\ tree \subseteq Block \ {Genesis} /\ linked \subseteq tree /\ mem \subseteq Block
  /\ {head, persisted, db} \subseteq Block
  /\ {finalized, safe, lastValid, action, pipeline} \subseteq Block \cup {None}
  /\ heard \in BOOLEAN /\ failed \in BOOLEAN
  /\ syncing \in Forkchoices \cup {None} /\ cl \in Forkchoices
  /\ buffer \in Seq(Block) /\ Len(buffer) <= BufferLimit
  /\ \A h \in DOMAIN invalid : invalid[h] \in [ancestor : Block, hits : 0..HitThreshold - 1]
  /\ backfill \in {"idle", "pending", "active"}
  /\ job \in Task \cup {None} /\ stray \in Seq(Task) /\ {down, overlap} \subseteq BOOLEAN
  /\ \A i \in DOMAIN incoming : incoming[i] \in Message
  /\ requests \subseteq [hash : Block, count : Nat \ {0}]
  /\ reported \subseteq Block
  /\ moves \in 0..MaxMoves

\* While no backfill run is going on, every canonical block is in the tree or in
\* the database, through reorgs, evictions, disk reorgs, unwinds and resets.
CanonicalKnown ==
  (backfill = "idle" /\ job = None) => chain[head] \subseteq tree \cup chain[db]

\* No save runs beside the pipeline: of the persistence tasks, only the removal of a
\* reorged branch may (advance_persistence starts it whatever the backfill state is).
SaveExclusive == (pipeline # None /\ job # None) => job.op = "remove"

\* The pipeline and a save never share the database.  Unless a removal was still to be
\* carried out when a backfill run ended, no canonical block is lost to their changes, so
\* that no lookup of a canonical or persisted block fails in a handler that passes the
\* error on, which would end the engine; nor does the persistence thread end.
EngineSound ==
  TypeOK /\ SaveExclusive /\ (overlap \/ (CanonicalKnown /\ ~failed /\ ~down /\ stray = <<>>))

\* The same without the exception: the removal is carried out by number, on whatever the
\* database has become, and the engine has taken the end of the run for its end.
RemovalHarmless == CanonicalKnown /\ ~failed

\* A payload is answered INVALID only if a block of its chain fails to execute or
\* has been reported by the pipeline, and then with a latest valid hash, if any,
\* on its chain below the first such block.
RejectedForCause ==
  \A b \in Payloads :
    LET r == OnNewPayload(Engine, b)
    IN  r.status = "INVALID" =>
          /\ chain[b] \cap (Bad \cup reported) # {}
          /\ r.hash # None => /\ r.hash \in chain[b]
                              /\ BlockAt(b, number[r.hash] + 1) \in Bad \cup reported

\* A payload that is answered VALID can be made the head at once: a forkchoice update to it
\* is not answered SYNCING or with an error, unless a removal was still to be carried out
\* when a backfill run ended.
AcceptedIsReachable ==
  \A b \in Payloads : overlap \/
    LET r == OnNewPayload(Engine, b)
    IN  /\ r.status # "ERROR"
        /\ r.status = "VALID" =>
             OnForkchoiceUpdated(r.s, [head |-> b, safe |-> None, finalized |-> None]).status
               \notin {"SYNCING", "ERROR"}

\* A forkchoice update that is answered VALID leaves its head on the canonical
\* chain.
ValidMeansCanonical ==
  \A f \in Forkchoices :
    LET r == OnForkchoiceUpdated(Engine, f)
    IN  r.status = "VALID" => f.head \in chain[r.s.head]

\* The same, but for a block of the database that the canonical chain has left and
\* the persistence task has not removed yet.
ValidUnlessDiskReorg ==
  \A f \in Forkchoices :
    LET r == OnForkchoiceUpdated(Engine, f)
    IN  r.status = "VALID" => \/ f.head \in chain[r.s.head]
                              \/ f.head \in chain[db] \ chain[head]

Targets == {f \in Forkchoices : f.head # None}

Hopeless(f) == chain[f.head] \cap (Bad \cup reported) # {}

\* a block on the chain of f is buffered although its parent has been executed
Stranded(f) == \E b \in Buffered(Engine) \cap chain[f.head] : HasBlock(Engine, Parent(b))

\* If the consensus client stays with a forkchoice state, its head becomes
\* canonical, unless a block on its chain is bad or was reported as bad: after
\* any downloads, backfill runs, unwinds and persistence tasks, some of them for
\* an earlier forkchoice state.
HeadReached ==
  \A f \in Targets : <>[](cl = f) => <>(f.head \in chain[head] \/ Hopeless(f))

\* The same, unless from some point on a block of its chain is buffered for good although its
\* parent has been executed, or a removal was still to be carried out when a backfill run
\* ended.
HeadReachedUnlessStranded ==
  \A f \in Targets :
    <>[](cl = f) => \/ <>(f.head \in chain[head] \/ Hopeless(f) \/ overlap)
                    \/ <>[]Stranded(f)
=============================================================================
