SPECIFICATION VerifySpec
CONSTANTS
  Ips = {i1, i2}
  Devices = {d1, d2}
  Capacity = 2
  Limit = 2
  Lockout = 3
  PruneInterval = 1
  Lag = 1
  None = None
  MaxTime = 6
SYMMETRY VerifySymmetry
INVARIANTS VerifyTypeOK  LockedForCause
PROPERTIES LockHolds
CHECK_DEADLOCK FALSE
