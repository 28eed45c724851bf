SPECIFICATION FairSpec
CONSTANTS
    NChunks = 2
    IdMod = 8
    AutoRetry = TRUE
    MaxRetries = 1
    SoftResets = FALSE
    MaxPeMsgs = 1
    PeMay = {"ctl","ext","ams","hard"}
    PartnerMay = {"ctl","req","hard"}
    MaxPartnerMsgs = 1
    TxMayFail = FALSE
    Preemptive = FALSE
    Periodic = FALSE
    CanDetach = FALSE
PROPERTIES RequestAnswered HardResetAnswered
CHECK_DEADLOCK FALSE
