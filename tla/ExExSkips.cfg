SPECIFICATION Spec
CONSTANTS
  None = None
  Block <- Blocks
  Genesis = 0
  number <- Numbers
  chain <- Chains
  ExExes = {1}
  Capacity = 2
  Lag = 0
  Reporting <- Reports1
  Hardships = {"lag"}
  MaxUpdates = 3
  MaxCrashes = 1
INVARIANT SkippedAlwaysProcessed
CHECK_DEADLOCK FALSE
