SPECIFICATION Spec
CONSTANTS
  MaxDraws = 2
  MaxStored = 1
  MaxHistory = 2
  MaxFaults = 1
  DrawsFail = TRUE
  MayLogout = FALSE
  MayShutdown = TRUE
CHECK_DEADLOCK FALSE
INVARIANTS HistoryDurable InsertedOnce SavingEnds
