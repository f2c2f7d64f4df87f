CONSTANTS
  Workers = {w1, w2}
  Producers = {p1}
  Tasks = {k1}
  None = None
SPECIFICATION FairSpec
PROPERTY
  StopEndsAllWorkers
CHECK_DEADLOCK FALSE
