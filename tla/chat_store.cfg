SPECIFICATION Spec
CONSTANTS
  Handler = {h1, h2}
  User = {ann, bob}
  Group = {team}
  NoName = NoName
  NoRequest = NoRequest
  MaxRequests = 7
  MaxCrash = 1
CHECK_DEADLOCK FALSE
SYMMETRY Symmetry
INVARIANTS
  TypeOK
  FriendsMutual
  MemberListed
  
