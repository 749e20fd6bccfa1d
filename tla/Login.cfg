SPECIFICATION Spec
CONSTANTS
  Sids = {s1, s2}
  Conns = {c1, c2}
  Logins = {p1, p2, p3}
  Objects = {o1, o2, o3}
  MaxPackets = 3
  None = None
SYMMETRY Symmetry
CHECK_DEADLOCK FALSE
INVARIANTS LoggedInIsMapped ReplacedIsSaved IndexIsCurrent LoginIsReachable RequestRunsInItsActor
