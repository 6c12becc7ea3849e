SPECIFICATION FairSpec
CONSTANTS
  Block <- ForkedBlock
  number <- ForkedNumber
  chain <- ForkedChain
  Genesis = 0
  NumStages = 3
  UnwindDepth = 1
  MinGap = 1
  rejects <- ForkedRejects
  Targets = {7, 10}
  Local = 3
  MaxFaults = 2
  LosesData = TRUE
  None = None
INVARIANTS
  IInv
PROPERTIES
  BadBlockUnwound
  RunEnds
  TargetReached
CHECK_DEADLOCK FALSE
