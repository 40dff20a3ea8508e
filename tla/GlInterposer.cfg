SPECIFICATION Spec
CONSTANTS
    Threads = {t1, t2}
    Handles = {h1, h2}
    None = None
    MaxContexts = 2
SYMMETRY GlSymmetry
INVARIANTS
    NoUseAfterFree
    DrawsOwnObjects
PROPERTIES
    FrameIsPresented
