SPECIFICATION Spec
CONSTANTS
  Req = {r1, r2, r3}
  Conv = {c1}
  Model = {m1, m2}
  MaxAgents = 1
  ChanCap = 1
  Nobody = Nobody
  Shutdown = Shutdown
SYMMETRY Symmetry
INVARIANTS
  PromptReachesItsOwnAgent
  AwaitedPromptIsOwned
  PromptIsNotDuplicated
  MappedWorkerIsNotDoomed
  ActiveRowHasKeeper
