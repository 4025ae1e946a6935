CONSTANTS
    Descr <- Descriptions
    Files <- Library
    Size = 1
    MaxFail = 1
    Pid = {p, q}
    NoPid = NoPid
    MaxDeaths = 1
    MaxChoices = 2
SPECIFICATION Spec
CHECK_DEADLOCK FALSE
INVARIANTS
    TypeOK
    ListIntact
    OnePlayer
PROPERTIES
    PlaysInOrder
    
