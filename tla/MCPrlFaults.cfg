SPECIFICATION Spec
CONSTANTS
    NChunks = 3
    IdMod = 8
    AutoRetry = FALSE
    MaxRetries = 1
    SoftResets = FALSE
    MaxPeMsgs = 2
    PeMay = {"ctl", "ext"}
    PartnerMay = {"ctl", "ext", "req", "ping"}
    MaxPartnerMsgs = 2
    TxMayFail = TRUE
    Preemptive = TRUE
    Periodic = FALSE
    CanDetach = FALSE
INVARIANTS TxHasOneOwner
PROPERTIES NoChunkOverwritten
CHECK_DEADLOCK FALSE
