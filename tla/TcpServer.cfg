CONSTANTS
  ThreadNums = {0, 2}
  MaxThreads = 2
  MaxConns = 3
  Fds = {0, 1, 2}
SPECIFICATION FairSpec
INVARIANTS
  TypeOK
  ActiveIsLive
  NoDanglingChannel
  ReportedAtEnd
PROPERTIES
  LivesRefined
  AcceptsWhenFree
  DestructorReturns
CHECK_DEADLOCK FALSE
