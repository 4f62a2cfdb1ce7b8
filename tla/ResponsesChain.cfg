SPECIFICATION Spec
CONSTANTS
  Req = {r1, r2, r3}
  None = None
  Outcomes = {"completed", "incomplete"}
INVARIANTS RowsFollowCreates AnsweredIsServed CompletedOutputsReach OnlyAncestorsAreGiven
SYMMETRY Symmetry
