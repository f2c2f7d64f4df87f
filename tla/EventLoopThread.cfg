CONSTANTS
  Threads = {owner, t1, t2}
  Owner = owner
  Functors = {f1, f2, f3}
  IoChannels = {c1}
  WakeupChannel = wakeup
  InitEventListSize = 1
  EventfdMax = 2
SPECIFICATION ThreadFairSpec
INVARIANTS
  NoLostWakeup
  
  InitBeforeUse
PROPERTIES
  SerialExecution
  QueuedFunctorRuns
  QuitStopsLoop
  StartReturns
CHECK_DEADLOCK FALSE
