SPECIFICATION Spec
CONSTANTS
  None = None
  Block <- Blocks
  Genesis = 0
  number <- Numbers
  chain <- Chains
  ExExes = {1}
  Capacity = 1
  Lag = 0
  Reporting <- Reports1
  Hardships = {"lag"}
  MaxUpdates = 2
  MaxCrashes = 1
INVARIANT DroppedIsKnown
CHECK_DEADLOCK FALSE
