SPECIFICATION Spec
CONSTANTS
  Handler = {h1, h2}
  User = {ann, bob}
  Group = {team}
  NoName = NoName
  NoRequest = NoRequest
  MaxRequests = 3
  MaxCrash = 0
CHECK_DEADLOCK FALSE
INVARIANT NameTakenOnce
