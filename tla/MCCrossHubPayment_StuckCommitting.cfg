SPECIFICATION Spec
CONSTANTS
  Coordinator = origin
  Participants = {p1}
  NumSigners = 1
  CanEvict = FALSE
  MaxCrashes = 0
  MaxGiveUps = 0
  MaxDiskFaults = 0
CHECK_DEADLOCK FALSE
INVARIANTS
  CommittingIsRetried
