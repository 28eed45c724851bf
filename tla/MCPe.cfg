SPECIFICATION FairSpec
CONSTANTS
    PartnerMay = {"Caps_SPR", "Caps_EPR_capable", "Caps_EPR", "Caps_invalid",
                  "Caps_empty", "Acknowledged", "Succeeded", "Refused", "Accept",
                  "Reject", "Wait", "PS_RDY", "Keep_Alive_Ack", "Get_Sink_Cap",
                  "Alert", "EPR_Exit", "BIST_Carrier", "BIST_TestData",
                  "Soft_Reset", "Ignored", "Unsupported"}
    Wanted = {"Safe5V", "PPS", "EPR"}
    MaxEvents = 1
    MaxTriggers = 1
    MaxFailures = 1
    CanDetach = TRUE
INVARIANTS TypeOK  
PROPERTIES Settles RequestSettled
