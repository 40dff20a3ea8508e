SPECIFICATION Spec
CONSTANTS
    Threads = {t1, t2}
    InstKeys = {i1}
    DevKeys = {d1, d2}
    Families = {gfx, compute}
    Graphics = {gfx}
    None = None
    MaxInstances = 2
    MaxDevices = 2
INVARIANTS
    EntryIsOwn
    DrawsWhereItCan
CHECK_DEADLOCK FALSE
