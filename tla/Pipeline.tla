------------------------------ MODULE Pipeline ------------------------------
(***************************************************************************)
(* Staged sync: the pipeline that backfills a large gap, and the engine's  *)
(* view of its result.  A run executes the stages in order, each until it  *)
(* has caught up with the one before it, committing after every chunk of   *)
(* blocks; an error of a block, a target that does not attach to the local *)
(* headers or missing static file data unwinds the stages in reverse       *)
(* order, again with a commit per chunk.  The node can crash between any   *)
(* two commits.                                                            *)
(*                                                                         *)
(* A stage is the block it has processed up to: its data is the chain of   *)
(* that block, its checkpoint the block's number.  The safe block number   *)
(* is treated by the code as the finalized one is, so one stands for both. *)
(***************************************************************************)
EXTENDS BlockTree

CONSTANTS
  NumStages,    \* the stages are 1 (Headers) .. NumStages (Finish)
  UnwindDepth,  \* BEACON_CONSENSUS_REORG_UNWIND_DEPTH
  MinGap,       \* MIN_BLOCKS_FOR_PIPELINE_RUN
  rejects,      \* <<i, b>>: stage i fails on block b
  Targets,      \* the blocks the consensus client points at
  Local,        \* what the node has synced to at the start
  MaxFaults,    \* bound on crashes, lost static file data, launch unwinds
  LosesData,    \* whether static files can lose data
  None

Stages == 1..NumStages

ASSUME PipelineAssumption ==
  /\ NumStages \in Nat /\ NumStages >= 2
  /\ UnwindDepth \in Nat \ {0}
  /\ MinGap \in Nat \ {0}
  /\ rejects \subseteq (2..NumStages) \X Block
  /\ Targets \subseteq Block
  /\ Local \in Block
  /\ MaxFaults \in Nat
  /\ LosesData \in BOOLEAN
  /\ None \notin Block /\ None \notin Nat
  /\ \A i \in Stages, b \in chain[Local] : <<i, b>> \notin rejects

VARIABLES
  stage,       \* the block each stage has processed up to      (database)
  finalized,   \* last finalized block number, or None          (database)
  pc,          \* "launch", "idle", "run" or "unwind"
  at,          \* the stage that is executing or unwinding
  target,      \* the tip of the run
  unwind,      \* the target and the bad block of the unwind
  attempts,    \* detached_head_attempts
  detached,    \* last_detached_head_unwind_target
  head,        \* the engine's canonical head = its last persisted block
  invalid,     \* the engine's invalid header cache
  faults       \* crashes, losses and launch unwinds so far

control == <<pc, at, target, unwind>>
engine == <<head, invalid>>
vars == <<stage, finalized, control, attempts, detached, engine, faults>>

NoUnwind == [to |-> 0, bad |-> None]

TypeOK ==
  /\ stage \in [Stages -> Block]
  /\ finalized \in Nat \cup {None}
  /\ pc \in {"launch", "idle", "run", "unwind"}
  /\ at \in 0..NumStages + 1
  /\ target \in Block \cup {None}
  /\ unwind \in [to : Nat, bad : Block \cup {None}]
  /\ attempts \in Nat
  /\ detached \in Block \cup {None}
  /\ head \in Block
  /\ invalid \subseteq Block
  /\ faults \in Nat

Init ==
  /\ stage = [i \in Stages |-> Local]
  /\ finalized \in (0..number[Local]) \cup {None}
  /\ pc = "launch"
  /\ at = 0
  /\ target = None
  /\ unwind = NoUnwind
  /\ attempts = 0
  /\ detached = None
  /\ head = Local
  /\ invalid = {}
  /\ faults = 0

Checkpoint(i) == number[stage[i]]

-----------------------------------------------------------------------------
(***************************************************************************)
(* The start of a run.                                                     *)
(***************************************************************************)

Spawn(t) ==
  /\ pc' = "run"
  /\ at' = 1
  /\ target' = t
  /\ UNCHANGED <<stage, finalized, unwind, attempts, detached, engine, faults>>

Consistent == \A i \in Stages : Checkpoint(i) >= Checkpoint(1)

\* The node comes up.  A run that was interrupted leaves some stage below the
\* first one, and is resumed with the last header as its target.
Launch ==
  /\ pc = "launch"
  /\ IF Consistent
     THEN /\ pc' = "idle"
          /\ UNCHANGED <<stage, finalized, at, target, unwind, attempts, detached, engine, faults>>
     ELSE Spawn(stage[1])

\* The storage check at launch found an inconsistency: unwind before anything
\* else.  No block is to blame.
LaunchUnwind(n) ==
  /\ pc = "launch"
  /\ faults < MaxFaults
  /\ 0 < n /\ n < Checkpoint(1)
  /\ faults' = faults + 1
  /\ pc' = "unwind"
  /\ at' = NumStages
  /\ unwind' = [to |-> n, bad |-> None]
  /\ UNCHANGED <<stage, finalized, target, attempts, detached, engine>>

\* The consensus client points at t, which is too far ahead of the head for
\* live sync.  Of the blocks on its chain only t itself is looked up in the
\* invalid header cache: its ancestors are not known yet.
Start(t) ==
  /\ pc = "idle"
  /\ t \in Targets
  /\ t \notin invalid
  /\ number[t] > number[head] + MinGap
  /\ Spawn(t)

\* The consensus client keeps asking for a target in the invalid header cache:
\* the entry is hit once too often and evicted.
Evict(t) ==
  /\ t \in Targets \cap invalid
  /\ invalid' = invalid \ {t}
  /\ UNCHANGED <<stage, finalized, control, attempts, detached, head, faults>>

-----------------------------------------------------------------------------
(***************************************************************************)
(* Executing the stages.                                                   *)
(***************************************************************************)

\* Headers come from the tip down to the local head, which has to be the parent
\* of the lowest one (or the tip itself: then there is no gap to close).
Attached == stage[1] \in chain[target]

ExecuteHeaders ==
  /\ pc = "run" /\ at = 1
  /\ Attached
  /\ stage' = [stage EXCEPT ![1] = target]
  /\ at' = 2
  /\ UNCHANGED <<finalized, pc, target, unwind, attempts, detached, engine, faults>>

BeginUnwindForward(to, bad) ==
  /\ pc' = "unwind"
  /\ at' = 1
  /\ unwind' = [to |-> to, bad |-> bad]
  /\ UNCHANGED <<stage, finalized, target, engine>>

BeginUnwind(to, bad) ==
  /\ pc' = "unwind"
  /\ at' = NumStages
  /\ unwind' = [to |-> to, bad |-> bad]
  /\ UNCHANGED <<stage, finalized, target, engine>>

NextAttemptNotCounted == attempts

\* The lowest downloaded header is not a child of the local head: the head is
\* on another chain than the target.  Unwinding is repeated from where the last
\* attempt ended, and goes deeper each time.  (The genesis block attaches to every
\* chain, so that block 1 is there to unwind to.)
NextAttempt == IF detached = stage[1] THEN attempts + 1 ELSE 1

DetachedTarget ==
  GreatestOf(1, SaturatingSub(Checkpoint(1), UnwindDepth * NextAttempt))

DetachedHead ==
  /\ pc = "run" /\ at = 1
  /\ ~Attached
  /\ attempts' = NextAttempt
  /\ detached' = BlockAt(stage[1], DetachedTarget)
  /\ BeginUnwind(DetachedTarget, stage[1])
  /\ UNCHANGED faults

\* The blocks of the local headers that stage i handles when it goes to n.
Chunk(i, n) == {b \in chain[stage[1]] : Checkpoint(i) < number[b] /\ number[b] <= n}

Rejected(i, n) == {b \in Chunk(i, n) : <<i, b>> \in rejects}

\* One call of Stage::execute and its commit.  The stage goes as far as its
\* thresholds allow; once it has reached the stage before it, it is done.
ExecuteStage(n) ==
  /\ pc = "run" /\ at \in 2..NumStages
  /\ Checkpoint(at) < n /\ n <= Checkpoint(at - 1)
  /\ Rejected(at, n) = {}
  /\ stage' = [stage EXCEPT ![at] = BlockAt(stage[1], n)]
  /\ at' = IF n = Checkpoint(at - 1) THEN at + 1 ELSE at
  /\ UNCHANGED <<finalized, pc, target, unwind, attempts, detached, engine, faults>>

\* The stage is already where the one before it is.
StageReached ==
  /\ pc = "run" /\ at \in 2..NumStages
  /\ Checkpoint(at) >= Checkpoint(at - 1)
  /\ at' = at + 1
  /\ UNCHANGED <<stage, finalized, pc, target, unwind, attempts, detached, engine, faults>>

BlockErrorOffByOne(n) ==
  /\ pc = "run" /\ at \in 2..NumStages
  /\ Checkpoint(at) < n /\ n <= Checkpoint(at - 1)
  /\ \E b \in Rejected(at, n) : BeginUnwind(number[b], b)
  /\ UNCHANGED <<attempts, detached, faults>>

\* The stage fails on a block and its transaction is dropped: unwind to where
\* the stage was.  (Senders and execution name the first block they fail on,
\* the Merkle stage the last one of the chunk whose root is wrong.)
BlockError(n) ==
  /\ pc = "run" /\ at \in 2..NumStages
  /\ Checkpoint(at) < n /\ n <= Checkpoint(at - 1)
  /\ \E b \in Rejected(at, n) : BeginUnwind(Checkpoint(at), b)
  /\ UNCHANGED <<attempts, detached, faults>>

\* Static files end below block n, which the stage expects to find there.
MissingStaticFileData(n) ==
  /\ LosesData
  /\ pc = "run" /\ at \in 2..NumStages
  /\ faults < MaxFaults
  /\ 0 < n /\ n <= Checkpoint(at - 1)
  /\ BeginUnwind(n - 1, BlockAt(stage[1], n))
  /\ faults' = faults + 1
  /\ UNCHANGED <<attempts, detached>>

\* The last stage is done: the run ends at its checkpoint, which becomes the
\* engine's head.
Finish ==
  /\ pc = "run" /\ at = NumStages + 1
  /\ pc' = "idle"
  /\ at' = 0
  /\ target' = None
  /\ head' = stage[NumStages]
  /\ UNCHANGED <<stage, finalized, unwind, attempts, detached, invalid, faults>>

-----------------------------------------------------------------------------
(***************************************************************************)
(* Unwinding.                                                              *)
(***************************************************************************)

\* The finalized number never stays above what a stage has been unwound to, and
\* is written if there was none.
LowerFinalized(n) == IF finalized = None \/ n < finalized THEN n ELSE finalized

UnwindStage(n) ==
  /\ pc = "unwind" /\ at \in Stages
  /\ unwind.to <= n /\ n < Checkpoint(at)
  /\ stage' = [stage EXCEPT ![at] = BlockAt(stage[at], n)]
  /\ finalized' = LowerFinalized(n)
  /\ UNCHANGED <<control, attempts, detached, engine, faults>>

UnwindNextWaits ==
  /\ pc = "unwind" /\ at \in Stages
  /\ Checkpoint(at) = unwind.to
  /\ at' = at - 1
  /\ UNCHANGED <<stage, finalized, pc, target, unwind, attempts, detached, engine, faults>>

UnwindNext ==
  /\ pc = "unwind" /\ at \in Stages
  /\ Checkpoint(at) <= unwind.to
  /\ at' = at - 1
  /\ UNCHANGED <<stage, finalized, pc, target, unwind, attempts, detached, engine, faults>>

\* All stages are done.  At launch the node goes on coming up; otherwise the
\* engine memorizes the bad block and takes the header at the unwind target for
\* its head.
UnwindDone ==
  /\ pc = "unwind" /\ at = 0
  /\ IF unwind.bad = None
     THEN /\ pc' = "launch"
          /\ head' = stage[NumStages]
          /\ UNCHANGED invalid
     ELSE /\ pc' = "idle"
          /\ head' = BlockAt(stage[1], unwind.to)
          /\ invalid' = invalid \cup {unwind.bad}
  /\ target' = None
  /\ unwind' = NoUnwind
  /\ UNCHANGED <<stage, finalized, at, attempts, detached, faults>>

\* The process ends.  The database keeps what was committed; everything else is
\* lost, and the next launch starts as Init does, from the database's Finish block.
Crash ==
  /\ faults < MaxFaults
  /\ faults' = faults + 1
  /\ pc' = "launch"
  /\ at' = 0
  /\ target' = None
  /\ unwind' = NoUnwind
  /\ attempts' = 0
  /\ detached' = None
  /\ head' = stage[NumStages]
  /\ invalid' = {}
  /\ UNCHANGED <<stage, finalized>>

Run ==
  \/ ExecuteHeaders
  \/ DetachedHead
  \/ StageReached
  \/ \E n \in 0..Checkpoint(1) : ExecuteStage(n) \/ BlockError(n)
  \/ Finish
  \/ \E n \in 0..Checkpoint(1) : UnwindStage(n)
  \/ UnwindNext
  \/ UnwindDone

Next ==
  \/ Launch
  \/ \E t \in Targets : Start(t) \/ Evict(t)
  \/ Run
  \/ \E n \in 0..Checkpoint(1) : MissingStaticFileData(n) \/ LaunchUnwind(n)
  \/ Crash

\* The node comes up and the pipeline task keeps running; the consensus client
\* repeats its forkchoice updates.  Faults need not happen.
Fairness ==
  /\ WF_vars(Launch)
  /\ WF_vars(Run)
  /\ \A t \in Targets : WF_vars(Start(t)) /\ WF_vars(Evict(t))

Spec == Init /\ [][Next]_vars

FairSpec == Spec /\ Fairness

-----------------------------------------------------------------------------
(***************************************************************************)
(* Properties.                                                             *)
(***************************************************************************)

\* Whatever was interrupted, retried or unwound, the data of every stage is a
\* prefix of the data of the stages before it: no stage keeps blocks of a chain
\* that the headers have left (Pipeline::unwind goes in reverse order, and the
\* target of a stage is the checkpoint of the one before it).
StagesOnOneChain ==
  \A i, j \in Stages : i < j => stage[j] \in chain[stage[i]]

\* No stage has committed a block that it rejects, not even when the block was
\* in a chunk with good ones or was evicted from the invalid header cache and
\* tried again (execute_stage_to_completion drops the transaction).
RejectedNotCommitted ==
  \A i \in Stages : \A b \in chain[stage[i]] : <<i, b>> \notin rejects

\* The persisted finalized number always has a header, also between the commits
\* of an unwind and after a crash there (Pipeline::unwind lowers it in the
\* transaction that lowers the checkpoint).
FinalizedHasHeader ==
  finalized # None => finalized <= Checkpoint(1)

\* While the pipeline is idle the engine's head is the last header in the
\* database (on_backfill_sync_finished reads it at the backfill height).
HeadIsLastHeader ==
  pc = "idle" => head = stage[1]

\* What the control state says about the stages: a run has brought the stages
\* before the current one to the tip, an unwind the stages after it to its
\* target or below.
ControlInv ==
  /\ pc = "run" =>
       /\ at >= 1
       /\ target \in Block
       /\ \A j \in Stages : j < at /\ at > 1 => stage[j] = stage[1]
  /\ pc = "unwind" =>
       /\ at <= NumStages
       /\ unwind.to <= Checkpoint(1)
       /\ \A j \in Stages : j > at => Checkpoint(j) <= unwind.to
       /\ unwind.bad # None /\ number[unwind.bad] > 1 => unwind.to < number[unwind.bad]
  /\ pc = "launch" => head = stage[NumStages]

\* The inductive invariant: whatever was interrupted, retried or unwound, the stages
\* are prefixes of one chain, none of them has a block that it rejects, the finalized
\* number has a header and an idle engine the last header as its head; with what the
\* control state says, each of which Pipeline::unwind and run_loop rely on.
IInv ==
  /\ TypeOK
  /\ StagesOnOneChain
  /\ RejectedNotCommitted
  /\ FinalizedHasHeader
  /\ HeadIsLastHeader
  /\ ControlInv

\* When the engine memorizes a bad block no stage has it any more, except for
\* block 1, below which a detached head is never unwound (on_stage_error).
BadBlockUnwound ==
  [][UnwindDone /\ unwind.bad # None /\ number[unwind.bad] > 1
       => \A i \in Stages : unwind.bad \notin chain[stage[i]]]_vars

\* Every run ends: by reaching its target or by an unwind.
RunEnds == pc \in {"run", "unwind"} ~> pc = "idle"

Good(t) == \A i \in Stages, b \in chain[t] : <<i, b>> \notin rejects

\* The pipeline has done its part: the engine is on the chain of t with everything
\* persisted, or on another chain that is long enough, for live sync to go on.
InSync(t) ==
  /\ pc = "idle"
  /\ number[t] <= number[head] + MinGap
  /\ head \in chain[t] => stage[NumStages] = head

\* A node on a side chain gets to within live-sync distance of a target that the
\* consensus client insists on, if its blocks are good and the chains fork at
\* block 1 or above: a detached head is unwound again and again, and crashes,
\* losses and launch unwinds only delay it (on_stage_error).
TargetReached ==
  \A t \in {x \in Targets : Good(x)} : ~<>[](target \in {None, t} /\ ~InSync(t))

\* mod.rs:1971 and invalid_headers.rs:11: what the pipeline reports is memorized
\* as an invalid block.
MemorizedIsInvalid ==
  \A b \in invalid : \E i \in Stages, a \in chain[b] : <<i, a>> \in rejects

\* mod.rs:2025: after backfill sync the canonical height and the persisted height
\* are the same, that is, the last stage has processed the head.
HeadIsPersisted ==
  pc = "idle" => stage[NumStages] = head
=============================================================================
