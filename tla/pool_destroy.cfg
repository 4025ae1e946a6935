SPECIFICATION FairSpec
CONSTANTS
  MinThrs = 1
  MaxThrs = 1
  MaxCreate = 1
  QueueSize = 2
  MaxCalls = 1
  MaxSpurious = 0
  Producer = {p1}
  Owner = Owner
  Admin = Admin
  NoTask = NoTask
CHECK_DEADLOCK FALSE
PROPERTY DestroyReturns
