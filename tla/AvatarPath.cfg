SPECIFICATION FairPathSpec
CONSTANTS
    Games = {g1}
    Avatars = {a1}
    None = None
    BackoffStart = 200
    BackoffMax = 2000
    MaxLives = 2
    MaxRev = 1
    MaxQueue = 2
    MaxFailures = 1
INVARIANTS
    PathTypeOK
    ActiveIsCurrent
    InertIsDisabled
    AnnouncedIsWhole
    NothingLeaks
PROPERTIES
    GetsClassified
    JoinReturns
    ComesToShow
