SPECIFICATION FairSpec
CONSTANTS
  Procs = {p1, p2}
  Updates = {u1, u2, u3}
  MaxBackups = 2
  Bootstrapped = FALSE
  MaxCrashes = 1
  Free = Free
  Orphan = Orphan
  NoUpdate = NoUpdate
PROPERTIES
  LockReleased
CHECK_DEADLOCK FALSE
