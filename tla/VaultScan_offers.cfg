SPECIFICATION FairSpec
CONSTANTS
  Cases <- MCOffers
  MaxEdits = 1
  MaxDrops = 1
  MaxOthers = 1
  MaxRestarts = 1
INVARIANTS
  TypeOK
  
  OfflineDeletionReported

  
CHECK_DEADLOCK FALSE
