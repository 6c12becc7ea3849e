SPECIFICATION Spec
CONSTANTS
  Block <- StraightBlock
  number <- StraightNumber
  chain <- StraightChain
  Genesis = 0
  NumStages = 3
  UnwindDepth = 1
  MinGap = 1
  rejects <- StraightRejects
  Targets = {4}
  Local = 0
  MaxFaults = 0
  LosesData = FALSE
  None = None
INVARIANTS
  HeadIsPersisted
