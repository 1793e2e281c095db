SPECIFICATION FairSpec
CONSTANTS
  Sizes <- MCSizes
  MaxRev = 2
  ChunkSize = 2
  MaxRuns = 2
  MaxFaults = 1
INVARIANTS
  TypeOK
  ResumeSkipsOnlySent
  FinishedIsWhole
PROPERTIES
  PendingReachesService
CHECK_DEADLOCK FALSE
