SPECIFICATION FairSpec
CONSTANTS
  MaxRounds = 2
  PageTotals <- ThreePages
  Window = 2
INVARIANTS
  TypeOK
  
  
  
PROPERTIES
  
  RoundCompletes
CHECK_DEADLOCK FALSE
