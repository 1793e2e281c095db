SPECIFICATION Spec
CONSTANTS
  MaxRounds = 2
  MaxConns = 2
  MaxOverflows = 1
  ReconnectMaxAttempts = 1
  ModuleOrder <- TwoModules
  ManualSyncEnabled = FALSE
INVARIANT
  OverflowRescanStarted
CHECK_DEADLOCK FALSE
