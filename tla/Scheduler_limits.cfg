SPECIFICATION Spec
CONSTANTS
  Actors = {a1, a2}
  Producers = {p1, p2, p3}
  w1 = w1
  w2 = w2
  Workers = {w1, w2}
  Home <- SameShard
  SoftLimit = 4
  MaxMailbox = 1
  MaxReady = 0
  BudgetUnit = 1
  WeakStores = TRUE
  MaxPosts = 1
  None = None
  NoTask = NoTask
SYMMETRY Symmetry
INVARIANTS OneClaim
PROPERTIES ImplementsFifo
