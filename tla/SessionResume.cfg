SPECIFICATION Spec
SYMMETRY Symmetry
CONSTANTS
  a = a
  b = b
  Requests = {r1, r2, r3}
  Models = {a, b}
  None = None
  Unread = Unread
  Asks <- MCAsks
  MaxOpen = 2
  MaxRestarts = 1
INVARIANTS
  ClientContextReachesAgent
  ResumedSessionHasItsModel
PROPERTIES
  MemoryLossIsExplained
