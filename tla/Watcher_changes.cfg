SPECIFICATION FairSpec
CONSTANTS
  Files = {"a", "b", ".t"}
  Dirs = {"d"}
  DirOf <- MCDirOf
  Staging = {".t"}
  MaxChanges = 3
  MaxOverflows = 1
  MaxCallbacks = 2
INVARIANTS
  TypeOK
  
  WatchesFollowVault
PROPERTIES
  
  CloseEnds
CHECK_DEADLOCK FALSE
