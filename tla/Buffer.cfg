CONSTANTS
  Byte = {0, 1}
  Zero = 0
  CheapPrepend = 1
  InitialSize = 3
  ExtraSize = 2
  MaxData = 4
  MaxSize = 8
SPECIFICATION Spec
INVARIANT
  IndicesInv
PROPERTIES
  QueueRefined
  GrowsWhenFull
