SPECIFICATION Spec
CONSTANTS
  Block <- ForkedBlock
  number <- ForkedNumber
  chain <- ForkedChain
  Genesis = 0
  NumStages = 3
  UnwindDepth = 1
  MinGap = 1
  rejects <- ForkedRejects
  Targets = {7}
  Local = 3
  MaxFaults = 0
  LosesData = FALSE
  None = None
INVARIANTS
  MemorizedIsInvalid
