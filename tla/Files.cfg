SPECIFICATION Spec
CHECK_DEADLOCK FALSE
CONSTANTS
  NumFiles = 3
  Limits = {1, 2}
  MaxClock = 2
  MaxListed = 3
  MaxBusy = 1
INVARIANTS
  AnsweredFilesResolve
  PagesCoverStableFiles
