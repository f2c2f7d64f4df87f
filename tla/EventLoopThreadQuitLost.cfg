CONSTANTS
  Threads = {owner, t1}
  Owner = owner
  Functors = {f1}
  IoChannels = {c1}
  WakeupChannel = wakeup
  InitEventListSize = 2
  EventfdMax = 2
SPECIFICATION ThreadFairSpec
PROPERTY
  QuitEndsLoop
CHECK_DEADLOCK FALSE
