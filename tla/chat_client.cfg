CONSTANTS
    Friend = {a, b}
    Group = {g}
    NoName = NoName
    Cap = 1
    MaxLines = 4
    MaxForeign = 1
SPECIFICATION Spec
CHECK_DEADLOCK FALSE

    
PROPERTY Settles
