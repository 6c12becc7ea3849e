SPECIFICATION Spec
CONSTANTS
  None = None
  Block <- Blocks
  Genesis = 0
  number <- Numbers
  chain <- Chains
  ExExes = {1, 2}
  Capacity = 2
  Lag = 0
  Reporting <- Reports1
  Hardships = {"lag"}
  MaxUpdates = 2
  MaxCrashes = 1
INVARIANTS
  ManagerSound
  NotificationsFit
  WalCovers
  HeightsTold
PROPERTY InSyncUnlessDormant
CHECK_DEADLOCK FALSE
