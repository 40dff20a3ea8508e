SPECIFICATION Spec
CONSTANTS
    Swapchains = {s1, s2}
    Index = {1}
    Queues = {gfx, compute}
    GraphicsQueues = {gfx}
    Workers = {w1}
    MaxPresent = 2
    None = None
SYMMETRY
    SwapchainSymmetry
INVARIANTS
    TypeOK
    FenceHasItsDraw
    DrawOwnsItsObjects
    NeverRerecordInFlight
    SemaphoresPaired
    KnownJams
PROPERTIES
    FrameShownAfterRender
