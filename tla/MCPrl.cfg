SPECIFICATION Spec
CONSTANTS
    NChunks = 2
    IdMod = 4
    AutoRetry = TRUE
    MaxRetries = 1
    SoftResets = FALSE
    MaxPeMsgs = 2
    PeMay = {"ctl", "ext", "ams"}
    PartnerMay = {"ctl", "ext", "req", "repeat"}
    MaxPartnerMsgs = 2
    TxMayFail = FALSE
    Preemptive = FALSE
    Periodic = FALSE
    CanDetach = FALSE
INVARIANTS TypeOK RequestTracked MessagesInOrder
PROPERTIES SentIsAccepted SentIsAwaited MessagesWhole
CHECK_DEADLOCK FALSE
