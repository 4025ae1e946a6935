SPECIFICATION Spec
CONSTANTS
  Instance = {p, q}
  Trip <- Trips
  Limit = 1
  FirstTables <- Tables
  DeleteLimit = TRUE
  MaxInserts = 1
  MaxTime = 1
  NoOne = NoOne
  NoPage = NoPage
CHECK_DEADLOCK FALSE
INVARIANTS
  TypeOK
  
  ListIsLatest
PROPERTY Synced
