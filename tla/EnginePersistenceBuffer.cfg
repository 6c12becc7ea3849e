SPECIFICATION FairSpec
CONSTANTS
  None = None
  Block <- UnevenBlock
  Genesis = 0
  number <- UnevenNumber
  chain <- UnevenChain
  PersistenceThreshold = 0
  MemoryBlockBufferTarget = 1
  NumStateMaskingBlocks = 0
  BackpressureThreshold = 1
  SuppressDuringBuild = TRUE
  MaxBuilds = 2
INVARIANTS
  CanonicalReadable
PROPERTIES
  WorkResolved
  TerminationCompletes
