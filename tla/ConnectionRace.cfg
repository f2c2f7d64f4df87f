CONSTANTS
  Workers = {w1, w2}
  WorkerCalls = {"send", "shutdown"}
  IoCalls = {"send", "shutdown"}
  ServerEnds = FALSE
  Messages = {m1}
  MessageSize = 2
  Garbage = garbage
  HighWaterMark = 3
  CallbacksSet = FALSE
  NoMessage = NoMessage
SPECIFICATION FairSpec
PROPERTIES
  PeerEndReported
  DownIsFreed
CHECK_DEADLOCK FALSE
