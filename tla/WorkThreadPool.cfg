CONSTANTS
  Workers = {w1, w2, w3}
  Producers = {p1, p2}
  Tasks = {k1, k2, k3}
  None = None
SPECIFICATION FairSpec
INVARIANTS
  NoUnderflow
  NoTaskAbandoned
PROPERTIES
  QueuedTaskStarts
  JoinReturns
CHECK_DEADLOCK FALSE
