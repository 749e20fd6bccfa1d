SPECIFICATION FairSpec
CONSTANTS
  MaxDraws = 2
  MaxStored = 0
  MaxHistory = 2
  MaxFaults = 0
  DrawsFail = TRUE
  MayLogout = TRUE
  MayShutdown = FALSE
CHECK_DEADLOCK FALSE
INVARIANTS OneSaveInFlight NothingForgotten 
PROPERTIES DrawReachesDatabase
