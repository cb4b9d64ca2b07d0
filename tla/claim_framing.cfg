SPECIFICATION Spec
CONSTANTS
    Fds = {1}
    GuidOf <- OneGuid
    Known = {"u"}
    Kinds <- TwoKinds
    HeadLen = 2
    UintMod = 8
    MaxBuf = 7
    MaxStream <- Wide
INVARIANTS
    HandledAsSent
CHECK_DEADLOCK FALSE
