SPECIFICATION Spec
CONSTANTS
  MaxRounds = 2
  MaxConns = 2
  MaxOverflows = 1
  ReconnectMaxAttempts = 1
  ModuleOrder <- TwoModules
  ManualSyncEnabled = FALSE
INVARIANTS
  TypeOK
  RoundIsDriven
  RoundOnItsConnection
PROPERTIES
  StaleRoundHarmless
  RecoveryStaysQueued
CHECK_DEADLOCK FALSE
