SPECIFICATION Spec
CONSTANTS
  MinThrs = 2
  MaxThrs = 3
  MaxCreate = 3
  QueueSize = 2
  MaxCalls = 1
  MaxSpurious = 0
  Producer = {p1, p2}
  Owner = Owner
  Admin = Admin
  NoTask = NoTask
CHECK_DEADLOCK FALSE
SYMMETRY Symmetry
INVARIANTS
  TypeOK
  
  OwnSlot
  JoinedBeforeFree
  NoGarbageJob
  WorkerWakeups
  ProducerWakeups
  FirstGrowthNotMissed
PROPERTY
  ImplementsDispatcher
