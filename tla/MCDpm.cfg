SPECIFICATION Spec
CONSTANTS
    MaxPdoObjects_SPR = 4
    MaxPdoObjects = 6
    Lists <- MCLists
    Calls <- MCCalls
    MaxTriggers = 2
    MaxEvents = 2
INVARIANTS RequestIsOffered RequestIsWanted LastCallHonoured
CHECK_DEADLOCK FALSE
