SPECIFICATION Spec
CONSTANTS
  MaxDraws = 2
  MaxStored = 0
  MaxHistory = 3
  MaxFaults = 0
  DrawsFail = FALSE
  MayLogout = TRUE
  MayShutdown = FALSE
CHECK_DEADLOCK FALSE
INVARIANTS FinalSave
