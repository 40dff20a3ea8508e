SPECIFICATION UiSpec
CONSTANTS
    Channels = {c1}
    Users = {u1}
    NoChannel = NoChannel
    Infos = {plain}
    Configs = {cfgA, cfgB}
    MaxNotifications = 2
    MaxArrivals = 3
    MaxClock = 1
    AllMembers = {cfgA}
    Levels = 1
    Duration = 2
    Fits = 2
INVARIANT
    NewestAtAnchor
