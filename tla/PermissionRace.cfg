SPECIFICATION Spec
CONSTANTS
  Perm = {p1, p2, p3}
  AutoApproved = {p3}
  Option = {allow, reject}
  Nothing = Nothing
  Cancelled = Cancelled
INVARIANT AcceptedOptionReachesAgent
