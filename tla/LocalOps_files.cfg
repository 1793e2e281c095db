SPECIFICATION Spec
CONSTANTS
  Ops <- FileOps
  Kind <- FileKind
  Path <- FilePath
  From <- FilePath
  MaxUploads = 1
  MaxDrops = 2
  MaxStalls = 2
  MaxRemote = 0
  Refusals = TRUE
INVARIANTS
  OvercommitBounded
CHECK_DEADLOCK FALSE
