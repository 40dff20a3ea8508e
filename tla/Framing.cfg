SPECIFICATION FairSpec
CONSTANTS
    Base = 3
    Cap = 12
    Chunk = 6
    WireMax = 8
    Lens = {0, 2, 3, 8, 9, 11, 12}
    MaxSent = 2
INVARIANTS
    RefusedForLength
    EofLosesNothing
PROPERTIES
    ImplementsChannel
CHECK_DEADLOCK FALSE
