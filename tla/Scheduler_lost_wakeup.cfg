SPECIFICATION Spec
CONSTANTS
  Actors = {a1}
  Producers = {p1, p2}
  w1 = w1
  w2 = w2
  Workers = {w1, w2}
  Home <- SameShard
  SoftLimit = 2
  MaxMailbox = 3
  MaxReady = 1
  BudgetUnit = 1
  WeakStores = TRUE
  MaxPosts = 2
  None = None
  NoTask = NoTask
SYMMETRY Symmetry
INVARIANTS NoLostWakeup
