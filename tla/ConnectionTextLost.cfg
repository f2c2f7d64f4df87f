CONSTANTS
  Workers = {w1}
  WorkerCalls = {"send"}
  Messages = {m1}
  IoCalls = {"send"}
  ServerEnds = FALSE
  MessageSize = 2
  Garbage = garbage
  HighWaterMark = 3
  CallbacksSet = FALSE
  NoMessage = NoMessage
SPECIFICATION Spec
INVARIANT
  TextIntact
CHECK_DEADLOCK FALSE
