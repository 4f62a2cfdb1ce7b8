SPECIFICATION WsFairSpec
CONSTANTS
  Req = {r1, r2}
  None = None
  Outcomes = {"completed"}
  Conn = {c1, c2}
INVARIANT ImplicitSeesItsPrevious
PROPERTY RepliesCome
