CONSTANTS
  Request = {r1, r2}
  Ip = {ip1, ip2}
  Address = {a1, a2}
  Limit = 2
  Window = 2
  Cooldown = 1
  LockWait = 1
  MaxTime = 4
  MaxGrants = 5
  None = None
SPECIFICATION LimiterSpec
INVARIANT IpLimit
CHECK_DEADLOCK FALSE
