SPECIFICATION Spec
CONSTANTS
  None = None
  Block <- ForkedBlock
  Genesis = 0
  number <- ForkedNumber
  chain <- ForkedChain
  Bad <- ForkedBad
  Malformed <- ForkedMalformed
  Payloads <- ForkedPayloads
  Forkchoices <- AllForkchoices
  MaxMoves = 2
  MinGap = 1
  BufferLimit = 3
  HitThreshold = 2
  BatchSize = 2
  PersistenceThreshold = 1
  MemoryBlockBufferTarget = 0
  BackpressureThreshold = 3
  AlwaysProcess = FALSE
  UnwindCanonicalHeader = FALSE
INVARIANTS
  EngineSound
  RejectedForCause
  AcceptedIsReachable
  ValidUnlessDiskReorg
PROPERTY
  HeadReachedUnlessStranded
