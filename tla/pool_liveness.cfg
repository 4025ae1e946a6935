SPECIFICATION FairSpec
CONSTANTS
  MinThrs = 1
  MaxThrs = 2
  MaxCreate = 2
  QueueSize = 2
  MaxCalls = 2
  MaxSpurious = 1
  Producer = {p1}
  Owner = Owner
  Admin = Admin
  NoTask = NoTask
CHECK_DEADLOCK FALSE
PROPERTIES
  ShutdownDrains
  AddTaskReturns
  TaskTaken
