SPECIFICATION FairSpec
CONSTANTS
  Coordinator = origin
  Participants = {p1}
  NumSigners = 1
  CanEvict = FALSE
  MaxCrashes = 2
  MaxGiveUps = 2
  MaxDiskFaults = 0
CHECK_DEADLOCK FALSE
PROPERTIES
  CommitCompletes
  AbortCompletes
  PreparedResolves
