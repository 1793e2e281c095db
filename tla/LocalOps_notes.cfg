SPECIFICATION FairSpec
CONSTANTS
  Ops <- NoteOps
  Kind <- NoteKind
  Path <- NotePath
  From <- NoteFrom
  MaxUploads = 1
  MaxDrops = 1
  MaxStalls = 0
  MaxRemote = 1
  Refusals = FALSE
INVARIANTS
  TypeOK
PROPERTIES
  OperationsEndOnceConnected
  ReadLoopProceeds
CHECK_DEADLOCK FALSE
