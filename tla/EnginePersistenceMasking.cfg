SPECIFICATION Spec
CONSTANTS
  None = None
  Block <- TwoBranchesBlock
  Genesis = 0
  number <- TwoBranchesNumber
  chain <- TwoBranchesChain
  PersistenceThreshold = 2
  MemoryBlockBufferTarget = 0
  NumStateMaskingBlocks = 1
  BackpressureThreshold = 3
  SuppressDuringBuild = FALSE
  MaxBuilds = 1
INVARIANTS
  IInv
  CanonicalExecutable
