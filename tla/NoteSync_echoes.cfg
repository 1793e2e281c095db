\* One edit against two remote changes, with a rename.
CONSTANTS
  Paths = {"a", "b"}
  Contents <- MCContents
  Renames <- MCRename
  Kinds <- MCAll
  MaxRemote = 2
  MaxEdits = 1
  MaxCalls = 2
SPECIFICATION FairSpec
INVARIANTS
  TypeOK
PROPERTIES
  
  EditsSurviveDelete
  
CHECK_DEADLOCK FALSE
