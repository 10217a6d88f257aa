SPECIFICATION Spec
CONSTANTS
  Procs = {p1, p2, p3}
  Updates = {u1, u2, u3, u4}
  MaxBackups = 2
  Bootstrapped = TRUE
  MaxCrashes = 3
  Free = Free
  Orphan = Orphan
  NoUpdate = NoUpdate
SYMMETRY Symmetry
INVARIANTS
  TypeOK
  MutualExclusion
  DurableIsCommitted
PROPERTIES
  ImplementsAtomicStore
CHECK_DEADLOCK FALSE
