CONSTANTS
  Threads = {t1, t2}
  Messages = {m1, m2, m3}
SPECIFICATION FairSpec
INVARIANTS
  OneInstance
  AllIsWritten
PROPERTY
  LogDrains
CHECK_DEADLOCK FALSE
