SPECIFICATION FairSpec
CONSTANTS
  Loaders = {l1, l2}
  RedisConns = {r1}
  MySQLConns = {m1, m2}
  MaxSpins = 1
  MaxDraws = 1
  MaxLoads = 2
  MaxFaults = 1
  Worker = w
  None = none
INVARIANTS RedisConserved SettledLoadIsComplete
PROPERTIES LoadEnds 
CHECK_DEADLOCK FALSE
