\* Every request comes to an end: the system may stop.
CHECK_DEADLOCK FALSE
SPECIFICATION Spec
CONSTANTS
  Reqs = {r1, r2, r3}
  Names = {n1, n2}
  Socks = {s1}
  NoJob = NoJob
  MaxBuffer = 2
  MaxProgress = 2
SYMMETRY Symmetry
INVARIANTS
  TypeOK
  OneJobPerName
  LockLeaksOnlyByUpgrade
  StreamGapFree
  WatcherHasVerdict
