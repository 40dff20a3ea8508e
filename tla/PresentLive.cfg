SPECIFICATION FairSpec
CONSTANTS
    Swapchains = {s1}
    Index = {1, 2}
    Queues = {gfx}
    GraphicsQueues = {gfx}
    Workers = {w1}
    MaxPresent = 1
    None = None
PROPERTIES
    PresentReturns
    IdleWaitReturns
