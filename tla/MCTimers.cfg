SPECIFICATION Spec
CONSTANTS
    NTimers = 2
    Half = 8
    Periods = {2, 5}
    MaxTick = 1
    Stale = FALSE
INVARIANTS TypeOK
PROPERTIES Implements
