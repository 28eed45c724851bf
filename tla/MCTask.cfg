SPECIFICATION FairSpec
CONSTANTS
    N = 3
    Nested = TRUE
    RearmSupported = TRUE
INVARIANTS TickExclusive NoEventForgotten NoTimerForgotten
PROPERTIES EventsHandled
