SPECIFICATION Spec
CONSTANTS
  Turns = 2
  MaxChunks = 2
INVARIANTS
  TimelyChunksAreNotDropped
  ChunksKeepOrder
  LeaksOnlyFromUndrainedTurns
  TranscriptIsWhatWasAnswered
PROPERTY
  TurnsEnd
