SPECIFICATION Spec
CONSTANTS
  Req = {r1, r2}
  Conv = {c1}
  Model = {m1}
  MaxAgents = 1
  ChanCap = 1
  Nobody = Nobody
  Shutdown = Shutdown
SYMMETRY Symmetry
INVARIANT HealthReportsActiveSessions
