SPECIFICATION Spec
CONSTANTS
  None = None
  Block <- Blocks
  Genesis = 0
  number <- Numbers
  chain <- Chains
  ExExes = {1}
  Capacity = 3
  Lag = 0
  Reporting <- Silent
  Hardships = {"lag"}
  MaxUpdates = 2
  MaxCrashes = 1
PROPERTY InSync
CHECK_DEADLOCK FALSE
