CONSTANTS
    Conn = {c, d}
    User = {u, v}
    Friend <- Friends
    Member = {u, v}
    Deaf = {d}
    NoName = NoName
    Nobody = Nobody
    MaxFd = 2
    Cap = 1
    MaxRequests = 2
SPECIFICATION Spec
CHECK_DEADLOCK FALSE
PROPERTY Answered
