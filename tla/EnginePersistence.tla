------------------------- MODULE EnginePersistence -------------------------
(***************************************************************************)
(* How the engine tree and the persistence service move executed blocks    *)
(* from memory to disk: the engine thread of EngineApiTreeHandler::run     *)
(* (crates/engine/tree/src/tree/mod.rs), the persistence thread of         *)
(* PersistenceService::run (crates/engine/tree/src/persistence.rs) and the *)
(* payload jobs that hold a PayloadBuildLease.                             *)
(*                                                                         *)
(* What an engine message contains is left open here: while it handles a   *)
(* message the engine may insert executed blocks, move the canonical head, *)
(* record a finalized block and start payload jobs, in any order the       *)
(* guards of those operations allow.  A block whose execution fails leaves *)
(* this state alone.  Backfill sync is idle throughout; Pipeline has it.   *)
(***************************************************************************)
EXTENDS BlockTree

CONSTANTS
  None,                      \* Option::None
  PersistenceThreshold,      \* TreeConfig::persistence_threshold
  MemoryBlockBufferTarget,   \* TreeConfig::memory_block_buffer_target
  NumStateMaskingBlocks,     \* TreeConfig::num_state_masking_blocks
  BackpressureThreshold,     \* TreeConfig::persistence_backpressure_threshold
  SuppressDuringBuild,       \* TreeConfig::suppress_persistence_during_build
  MaxBuilds                  \* bound on the payload jobs alive at once

VARIABLES
  \* the tree, owned by the engine thread
  tree,            \* TreeState::blocks_by_hash
  linked,          \* the blocks that parent_to_child lists under their parent
  head,            \* TreeState::current_canonical_head
  finalized,       \* finalized hash of the last VALID forkchoice state
  mem,             \* CanonicalInMemoryState: canonical blocks kept for readers
  pc,              \* where the engine thread is in its loop
  \* PersistenceState
  lastPersisted,   \* last_persisted_block
  lastTrie,        \* last_state_trie_persisted_block
  rx,              \* rx.is_some(): a persistence task is in progress
  handoff,         \* pending_persisted_handoff
  \* the persistence thread and its channels
  job,             \* the PersistenceAction it has to perform
  reply,           \* the PersistenceResult in the engine's receiver
  \* the database
  disk,            \* blocks on disk
  dbTip,           \* block number of the Finish checkpoint
  dbTrie,          \* its partial_state_trie frontier
  \* payload jobs
  builds,          \* PayloadBuildTracker::active
  dropping,        \* leases between fetch_sub and try_send
  token            \* a notification is in payload_build_finished

treeVars == <<tree, linked, head, finalized, mem>>
persistVars == <<lastPersisted, lastTrie, rx, handoff>>
dbVars == <<disk, dbTip, dbTrie>>
buildVars == <<builds, dropping, token>>
vars == <<tree, linked, head, finalized, mem, pc, lastPersisted, lastTrie, rx, handoff,
          job, reply, disk, dbTip, dbTrie, builds, dropping, token>>

Result == [block : Block, trie : Block]

Job == [op : {"save"}, blocks : SUBSET Block, prevTip : Nat, prevTrie : Nat,
        newTip : Nat, newTrie : Nat]
       \cup [op : {"remove"}, newTip : Nat]
       \cup [op : {"reply"}, result : Result]

(***************************************************************************)
(* TreeConfig asserts the two relations between the thresholds.            *)
(***************************************************************************)
ASSUME ConfigAssumption ==
  /\ PersistenceThreshold \in Nat
  /\ MemoryBlockBufferTarget \in Nat
  /\ NumStateMaskingBlocks \in Nat
  /\ BackpressureThreshold \in Nat
  /\ BackpressureThreshold > PersistenceThreshold
  /\ NumStateMaskingBlocks = 0
       \/ NumStateMaskingBlocks + MemoryBlockBufferTarget < PersistenceThreshold
  /\ SuppressDuringBuild \in BOOLEAN
  /\ MaxBuilds \in Nat
  /\ None \notin Block \cup Result \cup Job

----------------------------------------------------------------------------
(***************************************************************************)
(* Lookups.                                                                *)
(***************************************************************************)

\* what the BlockchainProvider finds by hash: memory first, then the database
Readable == mem \cup disk

\* sealed_header_by_hash, canonical_block_by_hash: tree first, then the provider
Known == tree \cup Readable

\* the block with number n in the database
DiskBlock(n) == CHOOSE b \in disk : number[b] = n

\* TreeState::is_canonical: walk the tree from the head until `b` is met
IsCanonical(b) == b \in chain[head] /\ ChainAbove(head, number[b]) \subseteq tree

----------------------------------------------------------------------------
(***************************************************************************)
(* find_disk_reorg walks the canonical chain and the persisted chain back  *)
(* to their common ancestor; `p` is the last persisted block.              *)
(***************************************************************************)

DiskReorg(p) == p \notin chain[head]

\* every block whose header the two walks look up is found
WalkFinds(p) ==
  LET fork == number[ForkPoint(head, p)]
  IN  ChainAbove(head, fork) \cup ChainAbove(p, fork) \subseteq Known

\* remove_blocks: ask the persistence thread to unwind the disk to number n
RemoveBlocks(p) ==
  LET n == number[ForkPoint(head, p)]
  IN  IF n < number[p]
        THEN job' = [op |-> "remove", newTip |-> n] /\ rx' = TRUE
        ELSE UNCHANGED job /\ rx' = FALSE

----------------------------------------------------------------------------
(***************************************************************************)
(* get_save_blocks_input for PersistTarget::Head and ::Threshold.          *)
(***************************************************************************)

NewTip(target) ==
  IF target = "head" THEN number[head]
  ELSE SaturatingSub(number[head], MemoryBlockBufferTarget)

NewTrie(target) ==
  IF target = "head" THEN number[head]
  ELSE GreatestOf(SaturatingSub(NewTip(target), NumStateMaskingBlocks), number[lastTrie])

SaveWanted(target) ==
  IF target = "head"
    THEN number[head] # number[lastPersisted] \/ number[head] # number[lastTrie]
    ELSE /\ ~(SuppressDuringBuild /\ builds > 0)
         /\ SaturatingSub(number[head], number[lastPersisted]) > PersistenceThreshold
         /\ NewTip(target) > number[lastPersisted]

\* the blocks met by walking the tree from the head, within the two frontiers
SaveBlocks(target) ==
  {b \in chain[head] : /\ ChainAbove(head, number[b] - 1) \subseteq tree
                       /\ number[b] > number[lastTrie]
                       /\ number[b] <= NewTip(target)}

SaveInput(target) ==
  [op |-> "save", blocks |-> SaveBlocks(target),
   prevTip |-> number[lastPersisted], prevTrie |-> number[lastTrie],
   newTip |-> NewTip(target), newTrie |-> NewTrie(target)]

\* the assertions of SaveBlocksInput::new
SaveInputValid(j) ==
  /\ j.prevTrie <= j.prevTip
  /\ j.prevTip <= j.newTip
  /\ j.prevTrie <= j.newTrie
  /\ j.prevTip < j.newTip \/ j.prevTrie < j.newTrie
  /\ j.newTrie <= j.newTip
  /\ {number[b] : b \in j.blocks} = (j.prevTrie + 1)..j.newTip

----------------------------------------------------------------------------
(***************************************************************************)
(* TreeState::remove_until and what it is made of.                         *)
(***************************************************************************)

\* remove_canonical_until: the canonical blocks up to the state/trie frontier t
RemovedCanonical(p, t) ==
  IF IsCanonical(p)
    THEN {b \in chain[head] : /\ ChainAbove(head, number[b] - 1) \subseteq tree
                              /\ number[b] <= number[t]}
    ELSE {}

\* prune_finalized_sidechains: all below f, and the other blocks at f's height
\* with the descendants that parent_to_child leads to
PrunedSidechains(T, f) ==
  {b \in T : \/ number[b] < number[f]
             \/ \E a \in chain[b] \cap T : /\ number[a] = number[f]
                                           /\ a # f
                                           /\ ChainAbove(b, number[a]) \subseteq T \cap linked}

\* variation: the finalized block is not capped by the state/trie frontier
RemoveUntilUncapped(p, t) ==
  LET T == tree \ RemovedCanonical(p, t)
  IN  IF finalized = None \/ finalized \notin Readable
        THEN T
        ELSE T \ PrunedSidechains(T, finalized)

\* remove_before and TreeState::remove_until
RemoveUntil(p, t) ==
  LET T == tree \ RemovedCanonical(p, t)
      f == IF number[t] < number[finalized] THEN t ELSE finalized
  IN  IF finalized = None \/ finalized \notin Readable
        THEN T
        ELSE T \ PrunedSidechains(T, f)

\* remove_by_hash forgets the children of every block it removes
LinksAfter(T) == {b \in linked \cap T : Parent(b) \notin tree \ T}

\* variation: off by one
RemovePersistedOneMore(p, t) ==
  IF p \in mem
    THEN {b \in mem : number[b] > LeastOf(number[t], number[p]) + 1}
    ELSE mem

\* CanonicalInMemoryState::remove_persisted_blocks_until
RemovePersisted(p, t) ==
  IF p \in mem
    THEN {b \in mem : number[b] > LeastOf(number[t], number[p])}
    ELSE mem

(***************************************************************************)
(* on_new_persisted_block, with p and t the two persisted frontiers.  The  *)
(* engine goes on at `next`; reth_newPayload (next = "handle") ignores the *)
(* error that ends the loop elsewhere.                                     *)
(***************************************************************************)
OnNewPersistedBlock(p, t, next) ==
  IF WalkFinds(p)
    THEN /\ pc' = next
         /\ \/ /\ DiskReorg(p)
               /\ RemoveBlocks(p)
               /\ UNCHANGED <<tree, linked, mem>>
            \/ /\ ~DiskReorg(p)
               /\ tree' = RemoveUntil(p, t)
               /\ linked' = LinksAfter(RemoveUntil(p, t))
               /\ mem' = RemovePersisted(p, t)
               /\ rx' = FALSE
               /\ UNCHANGED job
    ELSE /\ pc' = IF next = "handle" THEN next ELSE "failed"
         /\ rx' = FALSE
         /\ UNCHANGED <<tree, linked, mem, job>>

\* on_persisted_handoff: a handoff that is not the current frontier is stale
OnPersistedHandoff(r, p, t, next) ==
  IF r.block # p \/ r.trie # t
    THEN pc' = next /\ rx' = FALSE /\ UNCHANGED <<tree, linked, mem, job>>
    ELSE OnNewPersistedBlock(p, t, next)

\* finish_persistence: record the frontiers the result reports
FinishPersistence ==
  /\ reply # None
  /\ lastPersisted' = reply.block
  /\ lastTrie' = reply.trie
  /\ reply' = None

\* on_persistence_complete: evict now, or leave it until the payload jobs are done
OnPersistenceComplete(next) ==
  /\ FinishPersistence
  /\ IF builds > 0
       THEN /\ handoff' = reply
            /\ rx' = FALSE
            /\ pc' = next
            /\ UNCHANGED <<tree, linked, mem, job>>
       ELSE /\ OnPersistedHandoff(reply, reply.block, reply.trie, next)
            /\ UNCHANGED handoff
  /\ UNCHANGED <<head, finalized, disk, dbTip, dbTrie, builds, dropping, token>>

----------------------------------------------------------------------------
(***************************************************************************)
(* The engine loop: EngineApiTreeHandler::run.                             *)
(***************************************************************************)

ShouldBackpressure ==
  /\ rx
  /\ SaturatingSub(SaturatingSub(number[head], number[lastPersisted]),
                   MemoryBlockBufferTarget) >= BackpressureThreshold

\* the incoming channel is only read when nothing with a higher priority is ready
MayReceive ==
  /\ pc = "loop"
  /\ reply = None
  /\ ~token
  /\ handoff = None
  /\ ~ShouldBackpressure

\* an engine message arrives; reth_newPayload first waits for persistence
Receive ==
  /\ MayReceive
  /\ pc' \in {"handle", "await", "terminating"}
  /\ UNCHANGED <<treeVars, persistVars, job, reply, dbVars, buildVars>>

\* try_poll_persistence, wait_for_persistence_event and wait_for_event
PersistenceComplete ==
  /\ pc = "loop"
  /\ OnPersistenceComplete("advance")

\* on_payload_build_finished
PayloadBuildFinished ==
  /\ pc = "loop"
  /\ token
  /\ reply = None
  /\ ~ShouldBackpressure
  /\ token' = FALSE
  /\ IF builds > 0 \/ handoff = None
       THEN pc' = "advance" /\ UNCHANGED <<tree, linked, mem, rx, handoff, job>>
       ELSE /\ handoff' = None
            /\ OnPersistedHandoff(handoff, lastPersisted, lastTrie, "advance")
  /\ UNCHANGED <<head, finalized, lastPersisted, lastTrie, reply, dbVars, builds, dropping>>

\* the wait_for_persistence half of reth_newPayload
AwaitPersistence ==
  /\ pc = "await"
  /\ \/ rx /\ OnPersistenceComplete("handle")
     \/ /\ ~rx
        /\ pc' = "handle"
        /\ UNCHANGED <<treeVars, persistVars, job, reply, dbVars, buildVars>>

----------------------------------------------------------------------------
(***************************************************************************)
(* What handling a message may do to the tree.                             *)
(***************************************************************************)

\* a state provider for b: the tree's blocks down to one the provider finds
StateAvailable(b) ==
  \E a \in chain[b] \cap Readable : ChainAbove(b, number[a]) \subseteq tree

\* insert_block_or_payload for a block that executes, for which it needs the state of its
\* parent; InsertExecutedBlock, of a block that was built here and for which only its number
\* is looked at
InsertExecuted(b) ==
  /\ pc = "handle"
  /\ b # Genesis
  /\ b \notin tree
  /\ \/ /\ number[b] > number[lastPersisted] \/ b \notin Readable
        /\ StateAvailable(Parent(b))
     \/ number[b] > number[head]
  /\ tree' = tree \cup {b}
  /\ linked' = linked \cup {b}
  /\ UNCHANGED <<head, finalized, mem, pc, persistVars, job, reply, dbVars, buildVars>>

\* variation: does not put the reorged blocks back into the tree
CanonicalChainUpdateNoReinsert(h) ==
  LET fork == number[ForkPoint(head, Parent(h))]
      new == ChainAbove(h, fork)
      old == ChainAbove(head, fork)
  IN  /\ pc = "handle"
      /\ h # Genesis
      /\ new \subseteq tree
      /\ head' = h
      /\ mem' = (mem \ old) \cup new
      /\ UNCHANGED <<tree, linked, pc, finalized, persistVars, job, reply, dbVars, buildVars>>

\* on_new_head and on_canonical_chain_update for the head h; a lookup that fails
\* ends the thread when make_canonical is the caller
CanonicalChainUpdate(h) ==
  LET fork == number[ForkPoint(head, Parent(h))]
      new == ChainAbove(h, fork)
      old == ChainAbove(head, fork)
  IN  /\ pc = "handle"
      /\ h # Genesis
      /\ new \subseteq tree
      /\ IF old \subseteq Known
           THEN /\ head' = h
                /\ tree' = tree \cup old
                /\ linked' = linked \cup (old \ tree)
                /\ mem' = (mem \ old) \cup new
                /\ UNCHANGED pc
           ELSE pc' = "failed" /\ UNCHANGED <<head, tree, linked, mem>>
      /\ UNCHANGED <<finalized, persistVars, job, reply, dbVars, buildVars>>

\* set_latest with a VALID forkchoice state
ForkchoiceValid(f) ==
  /\ pc = "handle"
  /\ finalized' = f
  /\ UNCHANGED <<tree, linked, head, mem, pc, persistVars, job, reply, dbVars, buildVars>>

\* process_payload_attributes
StartPayloadJob ==
  /\ pc = "handle"
  /\ builds + dropping < MaxBuilds
  /\ builds' = builds + 1
  /\ UNCHANGED <<treeVars, pc, persistVars, job, reply, dbVars, dropping, token>>

MessageHandled ==
  /\ pc = "handle"
  /\ pc' = "advance"
  /\ UNCHANGED <<treeVars, persistVars, job, reply, dbVars, buildVars>>

----------------------------------------------------------------------------
(***************************************************************************)
(* advance_persistence, at the end of every iteration of the loop.         *)
(***************************************************************************)

\* persist_blocks; a lookup that fails or a SaveBlocksInput::new that panics
\* ends the engine thread
PersistBlocks(target, next) ==
  IF WalkFinds(lastPersisted) /\ SaveInputValid(SaveInput(target))
    THEN job' = SaveInput(target) /\ rx' = TRUE /\ pc' = next
    ELSE pc' = "failed" /\ UNCHANGED <<job, rx>>

UnwindDisk(next) ==
  IF WalkFinds(lastPersisted)
    THEN RemoveBlocks(lastPersisted) /\ pc' = next
    ELSE pc' = "failed" /\ UNCHANGED <<job, rx>>

AdvanceBusy ==
  /\ pc = "advance"
  /\ handoff # None \/ rx
  /\ pc' = "loop"
  /\ UNCHANGED <<treeVars, persistVars, job, reply, dbVars, buildVars>>

AdvanceRemove ==
  /\ pc = "advance"
  /\ handoff = None /\ ~rx
  /\ DiskReorg(lastPersisted)
  /\ UnwindDisk("loop")
  /\ UNCHANGED <<treeVars, lastPersisted, lastTrie, handoff, reply, dbVars, buildVars>>

AdvanceSave ==
  /\ pc = "advance"
  /\ handoff = None /\ ~rx
  /\ ~DiskReorg(lastPersisted)
  /\ SaveWanted("threshold")
  /\ PersistBlocks("threshold", "loop")
  /\ UNCHANGED <<treeVars, lastPersisted, lastTrie, handoff, reply, dbVars, buildVars>>

AdvanceNothing ==
  /\ pc = "advance"
  /\ handoff = None /\ ~rx
  /\ ~DiskReorg(lastPersisted)
  /\ ~SaveWanted("threshold")
  /\ pc' = IF WalkFinds(lastPersisted) THEN "loop" ELSE "failed"
  /\ UNCHANGED <<treeVars, persistVars, job, reply, dbVars, buildVars>>

AdvancePersistence == AdvanceBusy \/ AdvanceRemove \/ AdvanceSave \/ AdvanceNothing

----------------------------------------------------------------------------
(***************************************************************************)
(* persist_until_complete, the loop that Terminate runs.                   *)
(***************************************************************************)

\* variation: the receiver is not taken
TerminateWaitKeepsRx ==
  /\ pc = "terminating"
  /\ rx
  /\ FinishPersistence
  /\ UNCHANGED <<treeVars, pc, rx, handoff, job, dbVars, buildVars>>

TerminateWait ==
  /\ pc = "terminating"
  /\ rx
  /\ FinishPersistence
  /\ rx' = FALSE
  /\ UNCHANGED <<treeVars, pc, handoff, job, dbVars, buildVars>>

TerminateRemove ==
  /\ pc = "terminating"
  /\ ~rx
  /\ DiskReorg(lastPersisted)
  /\ UnwindDisk("terminating")
  /\ UNCHANGED <<treeVars, lastPersisted, lastTrie, handoff, reply, dbVars, buildVars>>

TerminateSave ==
  /\ pc = "terminating"
  /\ ~rx
  /\ ~DiskReorg(lastPersisted)
  /\ SaveWanted("head")
  /\ PersistBlocks("head", "terminating")
  /\ UNCHANGED <<treeVars, lastPersisted, lastTrie, handoff, reply, dbVars, buildVars>>

TerminateDone ==
  /\ pc = "terminating"
  /\ ~rx
  /\ ~DiskReorg(lastPersisted)
  /\ ~SaveWanted("head")
  /\ pc' = IF WalkFinds(lastPersisted) THEN "terminated" ELSE "failed"
  /\ UNCHANGED <<treeVars, persistVars, job, reply, dbVars, buildVars>>

Terminate == TerminateWait \/ TerminateRemove \/ TerminateSave \/ TerminateDone

----------------------------------------------------------------------------
(***************************************************************************)
(* The persistence thread.  A failed request ends it, and the engine stops *)
(* when it finds the channel closed.                                       *)
(***************************************************************************)

\* on_save_blocks; DatabaseProvider::save_blocks checks the frontiers first
ServiceSave ==
  /\ job # None
  /\ job.op = "save"
  /\ IF dbTip = job.prevTip /\ dbTrie = job.prevTrie
       THEN LET saved == {b \in job.blocks : number[b] > job.prevTip}
                block == CHOOSE b \in job.blocks : number[b] = job.newTip
                trie == IF job.newTrie > job.prevTrie
                          THEN CHOOSE b \in job.blocks : number[b] = job.newTrie
                          ELSE DiskBlock(job.newTrie)
            IN  /\ disk' = disk \cup saved
                /\ dbTip' = job.newTip
                /\ dbTrie' = job.newTrie
                /\ job' = [op |-> "reply", result |-> [block |-> block, trie |-> trie]]
                /\ UNCHANGED pc
       ELSE job' = None /\ pc' = "failed" /\ UNCHANGED dbVars
  /\ UNCHANGED <<treeVars, persistVars, reply, buildVars>>

\* on_remove_blocks_above
ServiceRemove ==
  /\ job # None
  /\ job.op = "remove"
  /\ IF \E b \in disk : number[b] = job.newTip
       THEN LET partial == LeastOf(dbTrie, job.newTip)
            IN  /\ disk' = {b \in disk : number[b] <= job.newTip}
                /\ dbTip' = job.newTip
                /\ dbTrie' = partial
                /\ job' = [op |-> "reply", result |->
                             [block |-> DiskBlock(job.newTip), trie |-> DiskBlock(partial)]]
                /\ UNCHANGED pc
       ELSE job' = None /\ pc' = "failed" /\ UNCHANGED dbVars
  /\ UNCHANGED <<treeVars, persistVars, reply, buildVars>>

\* the result is sent after the commit
ServiceReply ==
  /\ job # None
  /\ job.op = "reply"
  /\ reply' = job.result
  /\ job' = None
  /\ UNCHANGED <<treeVars, pc, persistVars, dbVars, buildVars>>

PersistenceService == ServiceSave \/ ServiceRemove \/ ServiceReply

----------------------------------------------------------------------------
(***************************************************************************)
(* Payload jobs: Drop for PayloadBuildLease, in its two atomic steps.      *)
(***************************************************************************)

\* variation: compares the value after the subtraction
DropLeaseSilent ==
  /\ builds > 0
  /\ builds' = builds - 1
  /\ dropping' = IF builds = 0 THEN dropping + 1 ELSE dropping
  /\ UNCHANGED <<treeVars, pc, persistVars, job, reply, dbVars, token>>

DropLease ==
  /\ builds > 0
  /\ builds' = builds - 1
  /\ dropping' = IF builds = 1 THEN dropping + 1 ELSE dropping
  /\ UNCHANGED <<treeVars, pc, persistVars, job, reply, dbVars, token>>

NotifyFinished ==
  /\ dropping > 0
  /\ dropping' = dropping - 1
  /\ token' = TRUE
  /\ UNCHANGED <<treeVars, pc, persistVars, job, reply, dbVars, builds>>

----------------------------------------------------------------------------
(***************************************************************************)
(* Starting the node: spawn_new starts from the best block on disk.  After *)
(* a crash the launcher first unwinds the database to the state/trie       *)
(* frontier of the Finish checkpoint.                                      *)
(***************************************************************************)

StartFrom(b) ==
  /\ disk = chain[b] /\ dbTip = number[b] /\ dbTrie = number[b]
  /\ tree = {} /\ linked = {} /\ mem = {} /\ finalized = None
  /\ head = b /\ lastPersisted = b /\ lastTrie = b
  /\ rx = FALSE /\ handoff = None /\ job = None /\ reply = None
  /\ builds = 0 /\ dropping = 0 /\ token = FALSE
  /\ pc = "loop"

Init == StartFrom(Genesis)

\* the process stops at any point and is started again
Restart ==
  LET best == DiskBlock(dbTrie)
  IN  /\ disk' = {b \in disk : number[b] <= dbTrie}
      /\ dbTip' = dbTrie /\ dbTrie' = dbTrie
      /\ tree' = {} /\ linked' = {} /\ mem' = {} /\ finalized' = None
      /\ head' = best /\ lastPersisted' = best /\ lastTrie' = best
      /\ rx' = FALSE /\ handoff' = None /\ job' = None /\ reply' = None
      /\ builds' = 0 /\ dropping' = 0 /\ token' = FALSE
      /\ pc' = "loop"

\* the steps the engine thread takes whatever messages arrive
EngineLoop ==
  \/ PersistenceComplete
  \/ PayloadBuildFinished
  \/ AwaitPersistence
  \/ MessageHandled
  \/ AdvancePersistence
  \/ Terminate

Next ==
  \/ EngineLoop
  \/ Receive
  \/ \E b \in Block : InsertExecuted(b)
  \/ \E h \in Block : CanonicalChainUpdate(h)
  \/ \E f \in Block \cup {None} : ForkchoiceValid(f)
  \/ StartPayloadJob
  \/ PersistenceService
  \/ DropLease
  \/ NotifyFinished
  \/ Restart

Spec == Init /\ [][Next]_vars

(***************************************************************************)
(* The engine thread and the persistence thread keep running, and payload  *)
(* jobs end (the builder gives up at its deadline).  Messages, restarts    *)
(* and what messages ask for are never guaranteed.                         *)
(***************************************************************************)
FairSpec ==
  /\ Spec
  /\ WF_vars(EngineLoop)
  /\ WF_vars(PersistenceService)
  /\ WF_vars(DropLease)
  /\ WF_vars(NotifyFinished)

----------------------------------------------------------------------------
(***************************************************************************)
(* Types.                                                                  *)
(***************************************************************************)
TypeOK ==
  /\ tree \subseteq Block
  /\ linked \subseteq tree
  /\ head \in Block
  /\ finalized \in Block \cup {None}
  /\ mem \subseteq Block
  /\ pc \in {"loop", "handle", "await", "advance", "terminating", "terminated", "failed"}
  /\ lastPersisted \in Block
  /\ lastTrie \in Block
  /\ rx \in BOOLEAN
  /\ handoff \in Result \cup {None}
  /\ job \in Job \cup {None}
  /\ reply \in Result \cup {None}
  /\ disk \subseteq Block
  /\ dbTip \in Nat
  /\ dbTrie \in Nat
  /\ builds \in Nat
  /\ dropping \in Nat
  /\ token \in BOOLEAN

----------------------------------------------------------------------------
(***************************************************************************)
(* Safety.                                                                 *)
(***************************************************************************)

(***************************************************************************)
(* The engine thread never stops by itself: find_disk_reorg and on_new_head*)
(* always find the headers they walk over, SaveBlocksInput::new never      *)
(* panics, and the persistence thread never finds its frontiers moved or   *)
(* the block to unwind to missing.                                         *)
(***************************************************************************)
EngineNeverFails == pc # "failed"

(***************************************************************************)
(* The database holds exactly the chain of one block, the Finish           *)
(* checkpoint's: saves and unwinds never leave a gap or blocks of two      *)
(* branches, whatever reorgs happen while they are in flight.              *)
(***************************************************************************)
DiskIsOneChain ==
  \E tip \in disk : /\ number[tip] = dbTip
                    /\ disk = chain[tip]
                    /\ dbTrie <= dbTip

(***************************************************************************)
(* Every canonical block can be read, from memory or from disk: eviction   *)
(* after a save (remove_persisted_blocks_until) and unwinding the disk     *)
(* after a reorg never lose a block of the canonical chain.                *)
(***************************************************************************)
CanonicalReadable == chain[head] \subseteq mem \cup disk

(***************************************************************************)
(* The state of every canonical block can be built: the block is executed  *)
(* in the tree, or on disk below the state/trie frontier.  Eviction, which *)
(* prunes by height and by branch, and unwinding the disk never leave a    *)
(* hole in the canonical chain.                                            *)
(***************************************************************************)
CanonicalExecutable ==
  \A b \in chain[head] : b \in tree \/ (b \in disk /\ number[b] <= dbTrie)

(***************************************************************************)
(* Every executed block in the tree is connected: its parent is in the     *)
(* tree too, or on disk.  ("This only stores blocks that are connected to  *)
(* the canonical chain", TreeState.)  A block that was evicted and put     *)
(* back by a reorg has lost its children in parent_to_child, and pruning   *)
(* it later leaves them behind.                                            *)
(***************************************************************************)
TreeConnected == \A b \in tree : Parent(b) \in tree \cup disk

(***************************************************************************)
(* A deferred handoff is never overtaken: while it waits for payload jobs  *)
(* no persistence task starts, and it is still about the current frontiers *)
(* (the debug_assert of on_persistence_complete).                          *)
(***************************************************************************)
HandoffExclusive ==
  handoff # None => /\ ~rx
                    /\ handoff = [block |-> lastPersisted, trie |-> lastTrie]

(***************************************************************************)
(* When Terminate is acknowledged the canonical chain is on disk up to the *)
(* head, state and trie included, even if a reorg, a save or a handoff was *)
(* under way.                                                              *)
(***************************************************************************)
ShutdownComplete ==
  pc = "terminated" => disk = chain[head] /\ dbTip = dbTrie

----------------------------------------------------------------------------
(***************************************************************************)
(* The inductive invariant behind them.                                    *)
(***************************************************************************)

\* what the database holds: the engine's frontiers, or those of a result that
\* the engine has not received yet
DiskFrontier ==
  IF reply # None THEN reply
  ELSE IF job # None /\ job.op = "reply" THEN job.result
  ELSE [block |-> lastPersisted, trie |-> lastTrie]

\* one request at a time is in flight, and the engine waits for it
OneRequest ==
  /\ rx <=> job # None \/ reply # None
  /\ job = None \/ reply = None

\* the database is the chain of its frontier block
DiskMatchesFrontier ==
  /\ disk = chain[DiskFrontier.block]
  /\ dbTip = number[DiskFrontier.block]
  /\ dbTrie = number[DiskFrontier.trie]
  /\ DiskFrontier.trie \in chain[DiskFrontier.block]

\* a save in flight extends the disk, and its blocks are still in the tree
SaveExtendsDisk ==
  job # None /\ job.op = "save" =>
    /\ job.prevTip = dbTip /\ job.prevTrie = dbTrie
    /\ job.prevTrie <= job.newTrie /\ job.newTrie <= job.newTip
    /\ job.blocks \subseteq tree
    /\ \E tip \in job.blocks : /\ number[tip] = job.newTip
                               /\ lastPersisted \in chain[tip]
                               /\ job.blocks = ChainAbove(tip, job.prevTrie)

\* an unwind in flight takes nothing the canonical chain relies on
RemoveKeepsNeeded ==
  job # None /\ job.op = "remove" =>
    /\ job.newTip <= dbTip
    /\ ChainAbove(head, job.newTip) \subseteq mem
    /\ ChainAbove(head, job.newTip) \subseteq tree

\* the canonical chain rests on the disk's state/trie frontier
HeadOnFrontier == chain[head] \subseteq tree \cup chain[DiskFrontier.trie]

\* blocks on disk that are no longer canonical are still in the tree
StaleDiskInTree == chain[DiskFrontier.block] \ chain[head] \subseteq tree

(***************************************************************************)
(* Saves, unwinds, evictions and reorgs leave the tree, memory and the     *)
(* database in this relation to each other, at every step of every thread. *)
(***************************************************************************)
IInv ==
  /\ TypeOK
  /\ pc # "failed"
  /\ OneRequest
  /\ DiskMatchesFrontier
  /\ SaveExtendsDisk
  /\ RemoveKeepsNeeded
  /\ HeadOnFrontier
  /\ StaleDiskInTree
  /\ mem \subseteq chain[head]
  /\ CanonicalReadable
  /\ HandoffExclusive
  /\ pc = "terminating" => handoff = None
  /\ pc = "terminated" => ~rx /\ lastPersisted = head /\ lastTrie = head
  /\ Genesis \notin tree

----------------------------------------------------------------------------
(***************************************************************************)
(* Liveness.                                                               *)
(***************************************************************************)

(***************************************************************************)
(* A persisted branch that the canonical chain has left is unwound: the    *)
(* disk joins the canonical chain again however often the head moves.      *)
(***************************************************************************)
DiskReorgResolved == DiskReorg(lastPersisted) ~> ~DiskReorg(lastPersisted)

(***************************************************************************)
(* A deferred handoff is applied: the coalesced notification of the last   *)
(* payload job is never lost, so the engine does not wait for it forever.  *)
(***************************************************************************)
HandoffApplied == handoff # None ~> handoff = None

(***************************************************************************)
(* No persistence work waits forever, neither the unwind of a stale branch *)
(* (advance_persistence) nor a handoff put off by a payload job.           *)
(***************************************************************************)
WorkResolved == DiskReorgResolved /\ HandoffApplied

(***************************************************************************)
(* Terminate is always acknowledged.                                       *)
(***************************************************************************)
TerminationCompletes == pc = "terminating" ~> pc # "terminating"
=============================================================================
