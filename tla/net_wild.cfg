SPECIFICATION Spec
CONSTANTS
    MaxNodes = 3
    MaxGuid = 3
    GroupMsgsMaxLen = 1
    NumMod = 2
    UintMod = 32
    InfoLength = 4
    Fds = {1}
    OwnGroupMax = 1
    LimitHigh = 0
    LimitLow = 0
    MaxRoster = 2
    MaxQueue = 1
    Input <- WildInput
INVARIANTS
    TypeOK
    ConnFdsOpen
    RoomsWellFormed
CHECK_DEADLOCK FALSE
