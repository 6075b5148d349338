\* Journal: one coordinated and one participated transaction, every kind of fault.
\* Snapshot: two checkpointed requests and the periodic save, on both builds.
SPECIFICATION MCSpec
CONSTANTS
  Coordinated = {c}
  Participated = {p}
  MaxRecords = 5
  MaxQueue = 2
  MaxFaults = 2
  MaxReplayFaults = 1
  MaxCrashes = 1
  Requests = {r, s}
  Loop = loop
  Targets = {"unix", "windows"}
  PowerCuts = TRUE
  MaxVersion = 3
  MaxFiles = 6
  MaxAbandoned = 0
  MaxIoFaults = 2
  MaxOutages = 2
INVARIANTS
  JournalMirrored
  ServesConfirmed
  DecisionFinal
  SnapshotDurable
CHECK_DEADLOCK FALSE
