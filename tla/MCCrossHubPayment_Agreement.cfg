SPECIFICATION Spec
CONSTANTS
  Coordinator = origin
  Participants = {p1, p2}
  NumSigners = 1
  CanEvict = TRUE
  MaxCrashes = 1
  MaxGiveUps = 1
  MaxDiskFaults = 1
CHECK_DEADLOCK FALSE
INVARIANTS
  DecisionAgreement
  CommitNeedsEveryone
  InductiveInv
PROPERTIES
  JournalStepsValid
  ImplementsAtomicCommitment
