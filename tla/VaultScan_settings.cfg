\* A setting that no edit is waiting for.
SPECIFICATION Spec
CONSTANTS
  Cases <- MCSettings
  MaxEdits = 1
  MaxDrops = 1
  MaxOthers = 1
  MaxRestarts = 1
PROPERTIES
  DeletesAreOfMissing
CHECK_DEADLOCK FALSE
