SPECIFICATION FairSpec
CONSTANTS
    Fds = {1, 2, 3}
    Marks = {1, 2}
    PipeCap = 3
    Lines = {"a", "b", "remark"}
    Entries = {"a", "b"}
    Understood = {"a"}
INVARIANTS
    TypeOK
    Custody
    AcceptNeverBlocks
    ResourcesOutlive
    ConfigSurvives
PROPERTIES
    QuitEnds
    PipeDrains
