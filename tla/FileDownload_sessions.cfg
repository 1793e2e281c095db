SPECIFICATION FairSpec
CONSTANTS
  N = 3
  Path <- TwoOfA
  Chunks <- LastEmpty
  Paged = {1, 3}
  MaxSlots = 1
  MaxDrops = 1
  MaxStalls = 1
  MaxFaults = 1
INVARIANTS
  TypeOK
  DiskIsWhole
  BaseMatchesDisk
  SlotsReturned
PROPERTIES
  CancelledNeverCommits
  NeverGoesBack
  DownloadsEnd
CHECK_DEADLOCK FALSE
