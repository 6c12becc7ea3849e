SPECIFICATION Spec
CONSTANTS
  None = None
  Block <- ShortBlock
  Genesis = 0
  number <- ShortNumber
  chain <- ShortChain
  PersistenceThreshold = 0
  MemoryBlockBufferTarget = 0
  NumStateMaskingBlocks = 0
  BackpressureThreshold = 1
  SuppressDuringBuild = FALSE
  MaxBuilds = 0
INVARIANTS
  TreeConnected
