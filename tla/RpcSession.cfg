SPECIFICATION FairSpec
CONSTANTS
    Channels = {c1, c2}
    Users = {u1, u2}
    NoChannel = NoChannel
    MaxCmds = 3
    MaxMsgs = 2
INVARIANTS
    NeverStranded
    ReadyMeansAuthenticated
    SubscriptionsAgree
    FollowsTheUser
    SeedsGoToTheirChannel
PROPERTIES
    Reconnects
    SessionAdvances
