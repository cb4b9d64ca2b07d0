SPECIFICATION Spec
CONSTANTS
    MaxNodes = 3
    MaxGuid = 3
    GroupMsgsMaxLen = 2
    NumMod = 3
    UintMod = 32
    InfoLength = 4
    Users = {1, 2}
    Rosters <- MCRosters
    Counts = {0, 2, 8}
    Granted = {0, 6}
    WireNums = {0}
    MaxLen = 2
INVARIANTS
    TypeOK
    RosterSerialisable
    HandlesSound
    HandlesDisjoint
    HistoryWindow
PROPERTIES
    NoEscalation
    OnlyCopiesFault
    OnlyDeletionRemoves
CHECK_DEADLOCK FALSE
