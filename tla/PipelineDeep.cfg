SPECIFICATION FairSpec
CONSTANTS
  Block <- DeepBlock
  number <- DeepNumber
  chain <- DeepChain
  Genesis = 0
  NumStages = 3
  UnwindDepth = 1
  MinGap = 1
  rejects <- DeepRejects
  Targets = {11, 14}
  Local = 5
  MaxFaults = 1
  LosesData = TRUE
  None = None
INVARIANTS
  IInv
PROPERTIES
  BadBlockUnwound
  RunEnds
  TargetReached
CHECK_DEADLOCK FALSE
