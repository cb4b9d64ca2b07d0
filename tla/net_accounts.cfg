SPECIFICATION Spec
CONSTANTS
    MaxNodes = 3
    MaxGuid = 3
    GroupMsgsMaxLen = 1
    NumMod = 4
    UintMod = 32
    InfoLength = 4
    Fds = {1, 2}
    OwnGroupMax = 1
    LimitHigh = 1
    LimitLow = 1
    MaxRoster = 3
    MaxQueue = 1
    Input <- AccountInput
INVARIANTS
    PhoneIndexSound
    AllInPublicRoom
PROPERTIES
    NewcomerIsNew
CHECK_DEADLOCK FALSE
