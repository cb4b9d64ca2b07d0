SPECIFICATION FairSpec
CONSTANTS
    MaxNodes = 3
    MaxGuid = 3
    GroupMsgsMaxLen = 1
    NumMod = 2
    UintMod = 32
    InfoLength = 4
    Fds = {1, 2}
    OwnGroupMax = 1
    LimitHigh = 0
    LimitLow = 0
    MaxRoster = 3
    MaxQueue = 2
    Input <- DispatchInput
PROPERTIES
    
    QueueDrains
CHECK_DEADLOCK FALSE
