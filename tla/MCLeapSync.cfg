SPECIFICATION FairSpec
CONSTANTS
    Params = {p1, p2, p3}
    NoParam = NoParam
INVARIANTS NoJobForgotten
PROPERTIES ImplementsMailbox RequestServed
