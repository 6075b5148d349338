SPECIFICATION Spec
CONSTANTS
  Coordinator = origin
  Participants = {p1, p2}
  NumSigners = 2
  CanEvict = TRUE
  MaxCrashes = 1
  MaxGiveUps = 1
  MaxDiskFaults = 0
SYMMETRY ParticipantSymmetry
\* A payment may end, with nothing left to do.
CHECK_DEADLOCK FALSE
INVARIANTS
  ExactlyOnce
  SettledEverywhere
  ImageRestorable
  CommitApplicable
  
