CONSTANTS
  Workers = {w1, w2}
  WorkerCalls = {"send", "shutdown"}
  Messages = {m1, m2}
  IoCalls = {}
  ServerEnds = FALSE
  MessageSize = 2
  Garbage = garbage
  HighWaterMark = 3
  CallbacksSet = FALSE
  NoMessage = NoMessage
SPECIFICATION Spec
PROPERTY
  NoWriteAfterDown
CHECK_DEADLOCK FALSE
