SPECIFICATION ClientSpec
CONSTANTS
    MaxNodes = 3
    MaxGuid = 3
    GroupMsgsMaxLen = 2
    NumMod = 8
    UintMod = 32
    InfoLength = 4
    Fds = {1, 2}
    OwnGroupMax = 2
    LimitHigh = 2
    LimitLow = 1
    MaxRoster = 3
    MaxQueue = 2
    Input <- LeaderGoneInput
INVARIANTS
    PublicRoomOfAccounts
CHECK_DEADLOCK FALSE
