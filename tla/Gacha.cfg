SPECIFICATION Spec
CONSTANTS
  Handlers = {h1, h2}
  t1 = t1
  t2 = t2
  NoTrace = none
  Traces = {t2, none}
  Draws <- DrawsOf
  PoolId <- PoolIdOf
  Files <- FilesOf
  NoKey = nokey
  SoftPity = 1
  HardPity = 2
  Money = 2
  MaxRequests = 4
  MaxFaults = 2
  MayExpire = TRUE
SYMMETRY Symmetry
CHECK_DEADLOCK FALSE
INVARIANTS OncePerTrace LockHasHandler WeightIsShare
PROPERTIES ImplementsPurchase PoolServes RefusedRightly
