SPECIFICATION Spec
CHECK_DEADLOCK FALSE
CONSTANTS
  Starts = {s1, s2}
  Foreground = {f, g}
  Stops = {t1, t2}
  MaxRuns = 3
  None = None
  Torn = Torn
INVARIANTS
  LostPidfileIsExplained
  StartNamesTheServer
PROPERTIES
  StopLeavesNothing
  CommandsEnd
