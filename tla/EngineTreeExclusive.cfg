SPECIFICATION Spec
CONSTANTS
  None = None
  Block <- ForkedBlock
  Genesis = 0
  number <- ForkedNumber
  chain <- ForkedChain
  Bad <- ForkedBad
  Malformed <- NoBlock
  Payloads <- NoBlock
  Forkchoices <- AllForkchoices
  MaxMoves = 2
  MinGap = 1
  BufferLimit = 3
  HitThreshold = 2
  BatchSize = 2
  PersistenceThreshold = 1
  MemoryBlockBufferTarget = 0
  BackpressureThreshold = 2
  AlwaysProcess = FALSE
  UnwindCanonicalHeader = FALSE
INVARIANT
  RemovalHarmless
