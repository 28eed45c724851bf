SPECIFICATION Spec
CONSTANTS
    Cap = 2
    HeadMod = 8
    MaxPush = 6
    MaxClears = 2
    None = None
    Torn = Torn
INVARIANT TypeOK
PROPERTY Implements
CHECK_DEADLOCK FALSE
