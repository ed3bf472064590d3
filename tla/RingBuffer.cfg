SPECIFICATION Spec
CONSTANTS
  Producers = {p1, p2}
  Consumers = {c1}
  Gating = {c1}
  W = 3
  BufferSize = 2
  Kinds = {"single", "multi"}
  MaxClaim = 2
  Nothing = Nothing
INVARIANTS
  ResumedOnTarget
  UnreadIsIntact
  NothingIsMissed
