SPECIFICATION FairSpec
CONSTANTS
    Fds <- TwoFds
    GuidOf <- Guids
    Known = {"u"}
    Kinds <- TwoKinds
    HeadLen = 2
    UintMod = 7
    MaxBuf = 6
    MaxStream <- Window
INVARIANTS
    TypeOK
    NobodyCut
    ParseStaysInside
PROPERTIES
    ImplementsDelivery
    StreamsDrain
CHECK_DEADLOCK FALSE
