--------------------------- MODULE Pipeline_proofs ---------------------------
(***************************************************************************)
(* Pipeline for every block tree, number of stages, unwind depth and       *)
(* number of faults.                                                       *)
(***************************************************************************)
EXTENDS Pipeline, BlockTreeTheorems, TLAPS

-----------------------------------------------------------------------------

\* The stages are processed up to blocks of the headers' chain.
LEMMA StageFacts ==
  ASSUME IInv, NEW i \in Stages
  PROVE  /\ 1 \in Stages /\ NumStages \in Stages
         /\ stage[i] \in Block
         /\ stage[i] \in chain[stage[1]]
         /\ Checkpoint(i) \in Nat
         /\ Checkpoint(i) <= Checkpoint(1)
<1>1. /\ 1 \in Stages /\ NumStages \in Stages
      /\ stage[i] \in Block /\ stage[1] \in Block
  BY PipelineAssumption DEF IInv, TypeOK, Stages
<1>2. stage[i] \in chain[stage[1]]
  <2>1. CASE i = 1
    BY <1>1, <2>1, ChainFacts
  <2>2. CASE i # 1
    BY <1>1, <2>2, PipelineAssumption DEF IInv, StagesOnOneChain, Stages
  <2> QED BY <2>1, <2>2
<1> QED
  BY <1>1, <1>2, ChainFacts DEF Checkpoint

\* A stage that has caught up with the headers is where they are.
LEMMA CaughtUp ==
  ASSUME IInv, NEW i \in Stages, Checkpoint(i) >= Checkpoint(1)
  PROVE  stage[i] = stage[1]
<1>1. /\ 1 \in Stages
      /\ stage[i] \in chain[stage[1]] /\ stage[1] \in Block
      /\ Checkpoint(i) = Checkpoint(1)
  BY StageFacts DEF IInv, TypeOK, Stages
<1> QED BY <1>1, ChainFacts DEF Checkpoint

LEMMA InitIInv == Init => IInv
<1> SUFFICES ASSUME Init PROVE IInv
  OBVIOUS
<1> USE PipelineAssumption, BlockTreeAssumption DEF Init
<1>1. TypeOK
  BY DEF TypeOK, NoUnwind, Stages
<1>2. StagesOnOneChain
  BY ChainFacts DEF StagesOnOneChain, Stages
<1>3. RejectedNotCommitted
  BY DEF RejectedNotCommitted, Stages
<1>4. FinalizedHasHeader
  BY DEF FinalizedHasHeader, Checkpoint, Stages
<1>5. HeadIsLastHeader /\ ControlInv
  BY DEF HeadIsLastHeader, ControlInv, Stages
<1> QED BY <1>1, <1>2, <1>3, <1>4, <1>5 DEF IInv

-----------------------------------------------------------------------------
(***************************************************************************)
(* Steps that leave the stages and the finalized number alone: only what   *)
(* is said of the control state and the head is to be shown.               *)
(***************************************************************************)

LEMMA StagesUnchanged ==
  ASSUME IInv, UNCHANGED <<stage, finalized>>,
         TypeOK', HeadIsLastHeader', ControlInv'
  PROVE  IInv'
BY DEF IInv, StagesOnOneChain, RejectedNotCommitted, FinalizedHasHeader, Checkpoint

LEMMA LaunchStep == IInv /\ Launch => IInv'
<1> SUFFICES ASSUME IInv, Launch PROVE IInv'
  OBVIOUS
<1>0. 1 \in Stages /\ NumStages \in Stages
  BY PipelineAssumption DEF Stages
<1>1. CASE Consistent
  <2>1. stage[NumStages] = stage[1]
    BY <1>0, <1>1, CaughtUp DEF Consistent
  <2> QED
    BY <1>1, <2>1, StagesUnchanged
    DEF Launch, IInv, TypeOK, HeadIsLastHeader, ControlInv, engine
<1>2. CASE ~Consistent
  BY <1>0, <1>2, StagesUnchanged, PipelineAssumption
  DEF Launch, Spawn, IInv, TypeOK, HeadIsLastHeader, ControlInv, Stages, engine
<1> QED BY <1>1, <1>2

LEMMA LaunchUnwindStep ==
  ASSUME IInv, NEW n \in Nat, LaunchUnwind(n) PROVE IInv'
<1>1. TypeOK' /\ HeadIsLastHeader'
  BY PipelineAssumption DEF LaunchUnwind, IInv, TypeOK, HeadIsLastHeader, engine
<1>2. n <= Checkpoint(1)
  BY StageFacts, PipelineAssumption DEF LaunchUnwind, Stages
<1>3. ControlInv'
  BY <1>2, PipelineAssumption DEF LaunchUnwind, ControlInv, Checkpoint, Stages
<1> QED BY <1>1, <1>3, StagesUnchanged DEF LaunchUnwind

LEMMA StartStep ==
  ASSUME IInv, NEW t \in Targets, Start(t) PROVE IInv'
BY StagesUnchanged, PipelineAssumption
DEF Start, Spawn, IInv, TypeOK, HeadIsLastHeader, ControlInv, Stages, engine

LEMMA EvictStep ==
  ASSUME IInv, NEW t \in Targets, Evict(t) PROVE IInv'
BY StagesUnchanged
DEF Evict, control, IInv, TypeOK, HeadIsLastHeader, ControlInv, Checkpoint

LEMMA StageReachedStep == IInv /\ StageReached => IInv'
<1> SUFFICES ASSUME IInv, StageReached PROVE IInv'
  OBVIOUS
<1>1. TypeOK' /\ HeadIsLastHeader'
  BY PipelineAssumption DEF StageReached, IInv, TypeOK, HeadIsLastHeader, engine
<1>2. stage[at] = stage[1]
  <2>1. at \in Stages /\ at - 1 \in Stages
    BY PipelineAssumption DEF StageReached, Stages
  <2>2. stage[at - 1] = stage[1]
    BY <2>1 DEF StageReached, IInv, ControlInv, Stages
  <2> QED BY <2>1, <2>2, CaughtUp DEF StageReached, Checkpoint
<1>3. ControlInv'
  BY <1>2, PipelineAssumption DEF StageReached, IInv, TypeOK, ControlInv, Stages
<1> QED BY <1>1, <1>3, StagesUnchanged DEF StageReached

LEMMA FinishStep == IInv /\ Finish => IInv'
<1> SUFFICES ASSUME IInv, Finish PROVE IInv'
  OBVIOUS
<1>1. stage[NumStages] = stage[1] /\ stage[NumStages] \in Block
  BY PipelineAssumption DEF Finish, IInv, TypeOK, ControlInv, Stages
<1>2. TypeOK' /\ HeadIsLastHeader' /\ ControlInv'
  BY <1>1, PipelineAssumption DEF Finish, IInv, TypeOK, HeadIsLastHeader, ControlInv
<1> QED BY <1>2, StagesUnchanged DEF Finish

LEMMA UnwindNextStep == IInv /\ UnwindNext => IInv'
<1> SUFFICES ASSUME IInv, UnwindNext PROVE IInv'
  OBVIOUS
<1>1. TypeOK' /\ HeadIsLastHeader'
  BY PipelineAssumption DEF UnwindNext, IInv, TypeOK, HeadIsLastHeader, Stages, engine
<1>2. ControlInv'
  BY PipelineAssumption DEF UnwindNext, IInv, TypeOK, ControlInv, Checkpoint, Stages
<1> QED BY <1>1, <1>2, StagesUnchanged DEF UnwindNext

LEMMA UnwindDoneStep == IInv /\ UnwindDone => IInv'
<1> SUFFICES ASSUME IInv, UnwindDone PROVE IInv'
  OBVIOUS
<1>0. /\ 1 \in Stages /\ NumStages \in Stages
      /\ stage[1] \in Block /\ stage[NumStages] \in Block
  BY PipelineAssumption DEF IInv, TypeOK, Stages
<1>1. unwind.to = Checkpoint(1) /\ unwind.to \in Nat
  BY <1>0, StageFacts, PipelineAssumption DEF UnwindDone, IInv, TypeOK, ControlInv, Stages
<1>2. BlockAt(stage[1], unwind.to) = stage[1]
  BY <1>0, <1>1, BlockAtFacts, ChainFacts DEF Checkpoint
<1>3. TypeOK'
  BY <1>0, <1>2, PipelineAssumption DEF UnwindDone, IInv, TypeOK, NoUnwind
<1>4. HeadIsLastHeader' /\ ControlInv'
  BY <1>2 DEF UnwindDone, HeadIsLastHeader, ControlInv
<1> QED BY <1>3, <1>4, StagesUnchanged DEF UnwindDone

LEMMA CrashStep == IInv /\ Crash => IInv'
<1> SUFFICES ASSUME IInv, Crash PROVE IInv'
  OBVIOUS
<1>1. TypeOK' /\ HeadIsLastHeader' /\ ControlInv'
  BY PipelineAssumption
  DEF Crash, IInv, TypeOK, HeadIsLastHeader, ControlInv, NoUnwind, Stages
<1> QED BY <1>1, StagesUnchanged DEF Crash

-----------------------------------------------------------------------------
(***************************************************************************)
(* The beginning of an unwind.                                             *)
(***************************************************************************)

LEMMA BeginUnwindStep ==
  ASSUME IInv, pc = "run",
         NEW to \in Nat, NEW bad \in Block, BeginUnwind(to, bad),
         attempts' \in Nat, detached' \in Block \cup {None}, faults' \in Nat,
         to <= Checkpoint(1), number[bad] > 1 => to < number[bad]
  PROVE  IInv'
<1>1. TypeOK' /\ HeadIsLastHeader'
  BY PipelineAssumption DEF BeginUnwind, IInv, TypeOK, HeadIsLastHeader, engine
<1>2. ControlInv'
  BY PipelineAssumption DEF BeginUnwind, ControlInv, Checkpoint, Stages
<1> QED BY <1>1, <1>2, StagesUnchanged DEF BeginUnwind

LEMMA PositiveProduct ==
  ASSUME NEW d \in Nat, NEW k \in Nat, d >= 1, k >= 1
  PROVE  d * k \in Nat /\ d * k >= 1
<1>1. d * k \in Nat
  OBVIOUS
<1>2. d * k # 0
  OBVIOUS
<1> QED BY <1>1, <1>2

\* Every attempt goes back by at least one block, unless block 1 is reached.
LEMMA DetachedTargetFacts ==
  ASSUME IInv, pc = "run", ~Attached
  PROVE  /\ NextAttempt \in Nat
         /\ DetachedTarget \in Nat
         /\ DetachedTarget <= Checkpoint(1)
         /\ Checkpoint(1) > 1 => DetachedTarget < Checkpoint(1)
<1>1. NextAttempt \in Nat /\ NextAttempt >= 1
  BY DEF NextAttempt, IInv, TypeOK
<1>2. UnwindDepth * NextAttempt \in Nat /\ UnwindDepth * NextAttempt >= 1
  <2>2. UnwindDepth \in Nat /\ UnwindDepth >= 1
    BY PipelineAssumption
  <2> QED BY <1>1, <2>2, PositiveProduct
<1>3. Checkpoint(1) \in Nat /\ Checkpoint(1) >= 1
  <2>1. 1 \in Stages /\ stage[1] \in Block /\ target \in Block
    BY PipelineAssumption DEF IInv, TypeOK, ControlInv, Stages
  <2>2. stage[1] # Genesis
    BY <2>1, ChainFacts DEF Attached
  <2>3. Checkpoint(1) # 0
    <3>1. number[Genesis] = 0 /\ Genesis \in chain[stage[1]] /\ stage[1] \in chain[stage[1]]
      BY <2>1, BlockTreeAssumption
    <3> QED BY <2>1, <2>2, <3>1, ChainFacts DEF Checkpoint
  <2> QED BY <2>1, <2>3, ChainFacts DEF Checkpoint
<1> HIDE DEF NextAttempt
<1> DEFINE m == UnwindDepth * NextAttempt
           c == Checkpoint(1)
<1>4. m \in Nat /\ m >= 1 /\ c \in Nat /\ c >= 1
  BY <1>2, <1>3
<1>5. DetachedTarget = GreatestOf(1, SaturatingSub(c, m))
  BY DEF DetachedTarget
<1> HIDE DEF m, c
<1>6. /\ DetachedTarget \in Nat
      /\ DetachedTarget <= c
      /\ c > 1 => DetachedTarget < c
  BY <1>4, <1>5 DEF GreatestOf, SaturatingSub
<1> QED BY <1>1, <1>6 DEF c

LEMMA DetachedHeadStep == IInv /\ DetachedHead => IInv'
<1> SUFFICES ASSUME IInv, DetachedHead PROVE IInv'
  OBVIOUS
<1>1. stage[1] \in Block
  BY PipelineAssumption DEF IInv, TypeOK, Stages
<1>2. /\ NextAttempt \in Nat
      /\ DetachedTarget \in Nat
      /\ DetachedTarget <= Checkpoint(1)
      /\ Checkpoint(1) > 1 => DetachedTarget < Checkpoint(1)
  BY DetachedTargetFacts DEF DetachedHead
<1>3. BlockAt(stage[1], DetachedTarget) \in Block
  BY <1>1, <1>2, BlockAtFacts DEF Checkpoint
<1>4. /\ pc = "run" /\ BeginUnwind(DetachedTarget, stage[1])
      /\ attempts' \in Nat /\ detached' \in Block \cup {None} /\ faults' \in Nat
  BY <1>2, <1>3 DEF DetachedHead, IInv, TypeOK
<1> QED BY <1>1, <1>2, <1>4, BeginUnwindStep DEF Checkpoint

LEMMA BlockErrorStep ==
  ASSUME IInv, NEW n \in Nat, BlockError(n) PROVE IInv'
<1>1. PICK b \in Rejected(at, n) : BeginUnwind(Checkpoint(at), b)
  BY DEF BlockError
<1>2. at \in Stages
  BY PipelineAssumption DEF BlockError, Stages
<1>3. /\ b \in chain[stage[1]] /\ Checkpoint(at) < number[b]
      /\ Checkpoint(at) \in Nat /\ Checkpoint(at) <= Checkpoint(1)
      /\ stage[1] \in Block
  BY <1>2, StageFacts DEF Rejected, Chunk
<1>4. b \in Block
  BY <1>3, ChainFacts
<1>5. /\ pc = "run"
      /\ attempts' \in Nat /\ detached' \in Block \cup {None} /\ faults' \in Nat
  BY DEF BlockError, IInv, TypeOK
<1> QED BY <1>1, <1>3, <1>4, <1>5, BeginUnwindStep

LEMMA MissingStaticFileDataStep ==
  ASSUME IInv, NEW n \in Nat, MissingStaticFileData(n) PROVE IInv'
<1>1. at - 1 \in Stages /\ 1 \in Stages
  BY PipelineAssumption DEF MissingStaticFileData, Stages
<1>2. /\ stage[1] \in Block /\ Checkpoint(1) \in Nat
      /\ n <= Checkpoint(1) /\ n > 0
  BY <1>1, StageFacts DEF MissingStaticFileData
<1>3. BlockAt(stage[1], n) \in Block /\ number[BlockAt(stage[1], n)] = n
  BY <1>2, BlockAtFacts DEF Checkpoint
<1>4. /\ pc = "run" /\ BeginUnwind(n - 1, BlockAt(stage[1], n))
      /\ attempts' \in Nat /\ detached' \in Block \cup {None} /\ faults' \in Nat
  BY DEF MissingStaticFileData, IInv, TypeOK
<1>5. n - 1 \in Nat /\ n - 1 <= Checkpoint(1) /\ n - 1 < n
  BY <1>2
<1> QED BY <1>3, <1>4, <1>5, BeginUnwindStep

-----------------------------------------------------------------------------
(***************************************************************************)
(* Steps that move a stage.                                                *)
(***************************************************************************)

LEMMA ExecuteHeadersStep == IInv /\ ExecuteHeaders => IInv'
<1> SUFFICES ASSUME IInv, ExecuteHeaders PROVE IInv'
  OBVIOUS
<1>0. /\ 1 \in Stages
      /\ stage \in [Stages -> Block] /\ stage[1] \in Block
      /\ target \in Block /\ stage[1] \in chain[target]
      /\ stage' = [stage EXCEPT ![1] = target]
  BY PipelineAssumption DEF ExecuteHeaders, Attached, IInv, TypeOK, ControlInv, Stages
<1>1. chain[stage[1]] \subseteq chain[target] /\ number[stage[1]] <= number[target]
      /\ number[stage[1]] \in Nat /\ number[target] \in Nat
  BY <1>0, ChainFacts
<1>2. TypeOK' /\ HeadIsLastHeader'
  BY <1>0, PipelineAssumption DEF ExecuteHeaders, IInv, TypeOK, HeadIsLastHeader, engine
<1>3. StagesOnOneChain'
  BY <1>0, <1>1 DEF IInv, StagesOnOneChain, Stages
<1>4. RejectedNotCommitted'
  <2>1. \A b : <<1, b>> \notin rejects
    BY PipelineAssumption
  <2> QED BY <1>0, <2>1 DEF IInv, RejectedNotCommitted, Stages
<1>5. FinalizedHasHeader'
  BY <1>0, <1>1 DEF ExecuteHeaders, IInv, TypeOK, FinalizedHasHeader, Checkpoint
<1>6. ControlInv'
  BY <1>0 DEF ExecuteHeaders, ControlInv, Stages
<1> QED BY <1>2, <1>3, <1>4, <1>5, <1>6 DEF IInv

LEMMA ExecuteStageStep ==
  ASSUME IInv, NEW n \in Nat, ExecuteStage(n) PROVE IInv'
<1> DEFINE b == BlockAt(stage[1], n)
<1>0. /\ at \in Stages /\ at - 1 \in Stages /\ 1 \in Stages /\ at # 1 /\ at \in Nat
      /\ stage \in [Stages -> Block] /\ stage[1] \in Block
      /\ stage[at - 1] = stage[1]
      /\ stage[at] \in chain[stage[1]]
      /\ Checkpoint(at) \in Nat /\ Checkpoint(at) < n /\ n <= Checkpoint(1)
      /\ stage' = [stage EXCEPT ![at] = b]
  <2>1. /\ at \in Stages /\ at - 1 \in Stages /\ 1 \in Stages /\ at # 1 /\ at \in Nat
        /\ stage \in [Stages -> Block] /\ stage[1] \in Block
    BY PipelineAssumption DEF ExecuteStage, IInv, TypeOK, Stages
  <2>2. stage[at - 1] = stage[1]
    BY <2>1 DEF ExecuteStage, IInv, ControlInv, Stages
  <2> QED BY <2>1, <2>2, StageFacts DEF ExecuteStage, Checkpoint
<1>1. b \in chain[stage[1]] /\ b \in Block /\ number[b] = n
  BY <1>0, BlockAtFacts DEF Checkpoint
<1> HIDE DEF b
<1>2. stage[at] \in chain[b]
  BY <1>0, <1>1, ChainFacts DEF Checkpoint
<1>3. chain[stage[at]] \subseteq chain[b] /\ chain[b] \subseteq chain[stage[1]]
  BY <1>0, <1>1, <1>2, ChainFacts
<1>4. TypeOK' /\ HeadIsLastHeader'
  BY <1>0, <1>1, PipelineAssumption
  DEF ExecuteStage, IInv, TypeOK, HeadIsLastHeader, engine, Stages
<1>5. StagesOnOneChain'
  <2> SUFFICES ASSUME NEW i \in Stages, NEW j \in Stages, i < j
               PROVE  stage'[j] \in chain[stage'[i]]
    BY DEF StagesOnOneChain
  <2>1. CASE j = at
    <3>1. stage[i] = stage[1]
      BY <2>1 DEF ExecuteStage, IInv, ControlInv, Stages
    <3> QED BY <1>0, <1>1, <2>1, <3>1 DEF Stages
  <2>2. CASE i = at
    BY <1>0, <1>3, <2>2 DEF IInv, StagesOnOneChain, Stages
  <2>3. CASE i # at /\ j # at
    BY <1>0, <2>3 DEF IInv, StagesOnOneChain
  <2> QED BY <2>1, <2>2, <2>3
<1>6. RejectedNotCommitted'
  <2>1. ASSUME NEW a \in chain[b] PROVE <<at, a>> \notin rejects
    <3>1. a \in chain[stage[1]] /\ number[a] \in Nat /\ number[a] <= n
      BY <1>1, <1>3, <2>1, ChainFacts
    <3>2. CASE number[a] <= Checkpoint(at)
      <4>1. a \in chain[stage[at]]
        BY <1>0, <3>1, <3>2, ChainFacts DEF Checkpoint
      <4> QED BY <1>0, <4>1 DEF IInv, RejectedNotCommitted
    <3>3. CASE Checkpoint(at) < number[a]
      BY <3>1, <3>3 DEF ExecuteStage, Rejected, Chunk
    <3> QED BY <1>0, <3>1, <3>2, <3>3
  <2> QED BY <1>0, <2>1 DEF IInv, RejectedNotCommitted
<1>7. FinalizedHasHeader'
  BY <1>0 DEF ExecuteStage, IInv, FinalizedHasHeader, Checkpoint
<1>8. ControlInv'
  <2>1. n = Checkpoint(at - 1) => b = stage[1]
    BY <1>0, <1>1, ChainFacts DEF Checkpoint
  <2> QED BY <1>0, <2>1 DEF ExecuteStage, IInv, ControlInv, Stages
<1> QED BY <1>4, <1>5, <1>6, <1>7, <1>8 DEF IInv

LEMMA UnwindStageStep ==
  ASSUME IInv, NEW n \in Nat, UnwindStage(n) PROVE IInv'
<1> DEFINE b == BlockAt(stage[at], n)
<1>0. /\ at \in Stages /\ at \in Nat /\ 1 \in Stages
      /\ stage \in [Stages -> Block] /\ stage[at] \in Block
      /\ Checkpoint(at) \in Nat /\ Checkpoint(at) <= Checkpoint(1) /\ Checkpoint(1) \in Nat
      /\ unwind.to \in Nat /\ unwind.to <= n /\ n < Checkpoint(at)
      /\ stage' = [stage EXCEPT ![at] = b]
  BY StageFacts, PipelineAssumption DEF UnwindStage, IInv, TypeOK, Stages
<1>1. b \in chain[stage[at]] /\ b \in Block /\ number[b] = n
  BY <1>0, BlockAtFacts DEF Checkpoint
<1> HIDE DEF b
<1>2. chain[b] \subseteq chain[stage[at]]
  BY <1>0, <1>1, ChainFacts
<1>3. LowerFinalized(n) \in Nat /\ LowerFinalized(n) <= n
  BY PipelineAssumption DEF LowerFinalized, IInv, TypeOK
<1>4. TypeOK' /\ HeadIsLastHeader'
  BY <1>0, <1>1, <1>3 DEF UnwindStage, IInv, TypeOK, HeadIsLastHeader, engine, control
<1>5. StagesOnOneChain'
  <2> SUFFICES ASSUME NEW i \in Stages, NEW j \in Stages, i < j
               PROVE  stage'[j] \in chain[stage'[i]]
    BY DEF StagesOnOneChain
  <2>0. stage[j] \in chain[stage[i]] /\ stage[i] \in Block /\ stage[j] \in Block
    BY <1>0 DEF IInv, StagesOnOneChain
  <2>1. CASE j = at
    <3>1. chain[stage[j]] \subseteq chain[stage[i]]
      BY <2>0, ChainFacts
    <3> QED BY <1>0, <1>1, <2>1, <3>1 DEF Stages
  <2>2. CASE i = at
    <3>1. number[stage[j]] <= unwind.to
      BY <1>0, <2>2 DEF UnwindStage, IInv, ControlInv, Checkpoint, Stages
    <3>2. number[stage[j]] <= number[b] /\ number[stage[j]] \in Nat
      BY <1>0, <1>1, <2>0, <3>1, ChainFacts
    <3>3. stage[j] \in chain[b]
      BY <1>0, <1>1, <2>0, <2>2, <3>2, ChainFacts
    <3> QED BY <1>0, <2>2, <3>3 DEF Stages
  <2>3. CASE i # at /\ j # at
    BY <1>0, <2>0, <2>3
  <2> QED BY <2>1, <2>2, <2>3
<1>6. RejectedNotCommitted'
  BY <1>0, <1>2 DEF IInv, RejectedNotCommitted
<1>7. FinalizedHasHeader'
  <2>1. n <= Checkpoint(1)'
    BY <1>0, <1>1 DEF Checkpoint
  <2>2. Checkpoint(1)' \in Nat
    BY <1>0, <1>1 DEF Checkpoint
  <2> QED BY <1>3, <2>1, <2>2 DEF UnwindStage, FinalizedHasHeader
<1>8. ControlInv'
  BY <1>0, <1>1 DEF UnwindStage, control, IInv, ControlInv, Checkpoint, Stages
<1> QED BY <1>4, <1>5, <1>6, <1>7, <1>8 DEF IInv

LEMMA NextIInv == IInv /\ [Next]_vars => IInv'
<1> SUFFICES ASSUME IInv, [Next]_vars PROVE IInv'
  OBVIOUS
<1>0. Checkpoint(1) \in Nat
  BY StageFacts, PipelineAssumption DEF Stages
<1>1. CASE Launch
  BY <1>1, LaunchStep
<1>2. CASE \E t \in Targets : Start(t) \/ Evict(t)
  BY <1>2, StartStep, EvictStep
<1>3. CASE Run
  <2>1. CASE \E n \in 0..Checkpoint(1) : ExecuteStage(n) \/ BlockError(n)
    BY <1>0, <2>1, ExecuteStageStep, BlockErrorStep
  <2>2. CASE \E n \in 0..Checkpoint(1) : UnwindStage(n)
    BY <1>0, <2>2, UnwindStageStep
  <2> QED
    BY <1>3, <2>1, <2>2, ExecuteHeadersStep, DetachedHeadStep, StageReachedStep,
       FinishStep, UnwindNextStep, UnwindDoneStep DEF Run
<1>4. CASE \E n \in 0..Checkpoint(1) : MissingStaticFileData(n) \/ LaunchUnwind(n)
  BY <1>0, <1>4, MissingStaticFileDataStep, LaunchUnwindStep
<1>5. CASE Crash
  BY <1>5, CrashStep
<1>6. CASE UNCHANGED vars
  BY <1>6 DEF vars, control, engine, IInv, TypeOK, StagesOnOneChain, RejectedNotCommitted,
              FinalizedHasHeader, HeadIsLastHeader, ControlInv, Checkpoint
<1> QED BY <1>1, <1>2, <1>3, <1>4, <1>5, <1>6 DEF Next

\* The inductive invariant holds in every run of the pipeline (mod.rs, run_loop
\* and unwind), whatever fails and whenever the node crashes.
THEOREM PipelineInvariant == Spec => []IInv
BY InitIInv, NextIInv, PTL DEF Spec

\* No stage keeps blocks of a chain that the stages before it have left
\* (Pipeline::unwind, execute_stage_to_completion).
THEOREM OneChain == Spec => []StagesOnOneChain
<1>1. IInv => StagesOnOneChain
  BY DEF IInv
<1> QED BY <1>1, PipelineInvariant, PTL

\* No stage keeps a block that it rejects (on_stage_error).
THEOREM NothingRejected == Spec => []RejectedNotCommitted
<1>1. IInv => RejectedNotCommitted
  BY DEF IInv
<1> QED BY <1>1, PipelineInvariant, PTL

\* The finalized number in the database has a header, and an idle pipeline
\* leaves the engine with the last header for its head (Pipeline::unwind,
\* on_backfill_sync_finished).
THEOREM FinalizedAndHead == Spec => []FinalizedHasHeader /\ []HeadIsLastHeader
<1>1. IInv => FinalizedHasHeader /\ HeadIsLastHeader
  BY DEF IInv
<1> QED BY <1>1, PipelineInvariant, PTL

\* A bad block above block 1 is in no stage when the engine memorizes it
\* (on_stage_error, on_backfill_sync_finished).
THEOREM BadBlockGone == Spec => BadBlockUnwound
<1> DEFINE Gone == UnwindDone /\ unwind.bad # None /\ number[unwind.bad] > 1
                     => \A i \in Stages : unwind.bad \notin chain[stage[i]]
<1>1. IInv => Gone
  <2> SUFFICES ASSUME IInv, UnwindDone, unwind.bad # None, number[unwind.bad] > 1,
                      NEW i \in Stages, unwind.bad \in chain[stage[i]]
               PROVE  FALSE
    OBVIOUS
  <2>1. /\ Checkpoint(i) <= unwind.to /\ unwind.to < number[unwind.bad]
        /\ unwind.to \in Nat /\ unwind.bad \in Block
    BY DEF UnwindDone, IInv, TypeOK, ControlInv, Stages
  <2>2. stage[i] \in Block /\ Checkpoint(i) \in Nat
    BY StageFacts
  <2>3. number[unwind.bad] <= Checkpoint(i) /\ number[unwind.bad] \in Nat
    BY <2>1, <2>2, ChainFacts DEF Checkpoint
  <2> QED BY <2>1, <2>2, <2>3
<1>2. Gone => [Gone]_vars
  OBVIOUS
<1> QED BY <1>1, <1>2, PipelineInvariant, PTL DEF BadBlockUnwound
=============================================================================
