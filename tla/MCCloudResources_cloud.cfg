\* The bounds on ups, faults and crashes stop the system.
CHECK_DEADLOCK FALSE
SPECIFICATION Spec
CONSTANTS
  MaxUps = 3
  MaxFaults = 2
  MaxCrashes = 1
INVARIANTS
  TypeOK
  RollbackLeavesSshRuleOnly
  AwsUpSparesExisting
  DestroyResumes
  AdoptTracksAll
PROPERTY DestroyInOrder
