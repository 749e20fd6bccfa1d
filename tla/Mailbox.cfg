SPECIFICATION Spec
CONSTANTS
  Producers = {p1, p2}
  Nodes = {n1, n2, n3}
  MaxMailbox = 2
  Budgets = {1, 2}
  MaxPosts = 4
  None = None
INVARIANTS NoUseAfterRelease SizeCoversQueue
PROPERTIES ImplementsFifo PopLeavesNothing AdmittedIsDelivered
