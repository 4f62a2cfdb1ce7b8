SPECIFICATION FairSpec
CONSTANTS
  Req = {r1, r2}
  Conv = {c1}
  Model = {m1, m2}
  MaxAgents = 1
  ChanCap = 1
  Nobody = Nobody
  Shutdown = Shutdown
PROPERTIES
  DeliversPrompts
  EveryPromptSettles
  WorkersRetire
