CONSTANTS
  Request = {r1, r2}
  Ip = {ip1}
  Address = {a1, a2}
  Limit = 2
  Window = 2
  Cooldown = 1
  LockWait = 1
  MaxTime = 3
  MaxGrants = 3
  None = None
  Fee = {1, 2}
SPECIFICATION Spec
INVARIANTS
  FaucetInv
  PaidWithinCooldown
PROPERTIES
  LimitsExact
CHECK_DEADLOCK FALSE
