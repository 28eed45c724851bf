SPECIFICATION FairSpec
CONSTANTS
    Levels = {1, 2}
    MaxMisreads = 1
    MaxFailures = 2
INVARIANTS RightLine ComparatorInPlace
PROPERTIES VbusSteady Attaches Detaches
