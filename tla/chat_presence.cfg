CONSTANTS
    Conn = {c, d, e}
    User = {u, v}
    Friend <- Friends
    Member = {u, v}
    Deaf = {}
    NoName = NoName
    Nobody = Nobody
    MaxFd = 3
    Cap = 1
    MaxRequests = 0
SPECIFICATION Spec
CHECK_DEADLOCK FALSE
SYMMETRY Permuted
INVARIANTS
    OnlineListed
    RightReceiver
    
