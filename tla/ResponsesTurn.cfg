SPECIFICATION FairSpec
CONSTANTS
  a = a
  b = b
  ToolNames = {a, b}
  Unnamed = Unnamed
  ToolIds = {t1, t2}
  Requests <- MCRequests
  Replies <- MCReplies
  MaxToolSteps = 2
  MaxEvents = 3
INVARIANTS
  StreamTellsTheAnswer
  EventsPointAtTheirItems
  ToldIsDone
  EffectsKeepOrder
  LimitCutsOff
  SchemaHoldsOfText
PROPERTY
  TurnsComplete
