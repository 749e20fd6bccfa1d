SPECIFICATION Spec
CONSTANTS
  Threads = {t1, t2, t3}
  Nodes = {n1, n2, n3}
  CacheSize = 1
  None = None
CHECK_DEADLOCK FALSE
INVARIANTS OwnedOnce
SYMMETRY Symmetry
CONSTRAINT NotReused
