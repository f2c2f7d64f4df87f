CONSTANTS
  BufferSize = 4
  Sizes = {1, 3}
  MaxMessages = 6
  Null = Null
SPECIFICATION FairSpec
INVARIANTS
  TypeOK
  PointersInv
  InOrder
  AtExit
PROPERTIES
  MessageIsWritten
  DestructorReturns
CHECK_DEADLOCK FALSE
