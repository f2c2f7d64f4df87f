CONSTANTS
  Workers = {w1, w2}
  WorkerCalls = {"send"}
  IoCalls = {"send", "shutdown"}
  ServerEnds = TRUE
  Messages = {m1, m2}
  MessageSize = 2
  Garbage = garbage
  HighWaterMark = 3
  CallbacksSet = TRUE
  NoMessage = NoMessage
SPECIFICATION Spec
SYMMETRY Symmetry
INVARIANTS
  TypeOK
  Registered
  GoneIsUnregistered
  RemovedWasReported
  WaitingIsWatched
PROPERTIES
  FinAfterData
  RemovalIsFinal
  StreamRefined
CHECK_DEADLOCK FALSE
