SPECIFICATION Spec
CONSTANTS
    NChunks = 2
    IdMod = 8
    AutoRetry = TRUE
    MaxRetries = 1
    SoftResets = TRUE
    MaxPeMsgs = 1
    PeMay = {"ctl", "hard"}
    PartnerMay = {"soft", "ctl", "hard"}
    MaxPartnerMsgs = 2
    TxMayFail = FALSE
    Preemptive = FALSE
    Periodic = FALSE
    CanDetach = TRUE
INVARIANTS NothingPostponed RequestTracked
PROPERTIES OnlyAwaitedSent
CHECK_DEADLOCK FALSE
