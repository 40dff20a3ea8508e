SPECIFICATION UiSpec
CONSTANTS
    Channels = {c1}
    Users = {u1, u2, u3}
    NoChannel = NoChannel
    Infos = {plain, muted}
    Configs = {cfgA, cfgB}
    AllMembers = {cfgA}
    Levels = 1
    MaxNotifications = 2
    MaxArrivals = 3
    MaxClock = 1
    Duration = 2
    Fits = 2
SYMMETRY UserSymmetry
INVARIANTS
    IndexAgrees
    KeepsTheNewest
PROPERTIES
    OrderKept
    ImplementsBoard
    FirstSightAtTarget
