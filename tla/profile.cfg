SPECIFICATION Spec
CONSTANTS
    Keys = {1, 2}
    KeyLen = 1
    StrLens = {1, 2}
    Numbers = {1, 300}
    Texts <- MCTexts
    UserMsgsMaxLen = 2
    NumMod = 3
INVARIANTS
    TypeOK
    LengthKept
    HistoryWindow
CHECK_DEADLOCK FALSE
