SPECIFICATION Spec
CONSTANTS
  Producers = {p1}
  Consumers = {c1, c2}
  Gating = {}
  W = 3
  BufferSize = 2
  Kinds = {"multi"}
  MaxClaim = 2
  Nothing = Nothing
INVARIANT ResumedOnTarget
CHECK_DEADLOCK FALSE
