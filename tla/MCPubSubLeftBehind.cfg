SPECIFICATION Spec
CONSTANTS
    t1 = t1
    t2 = t2
    o1 = o1
    o2 = o2
    o3 = o3
    Topics = {t1}
    Objects = {o1}
    InitialDelay = 2
    MaxDelay = 5
    MaxFaults = 0
    None = None
INVARIANT NothingLeftBehind
CHECK_DEADLOCK FALSE
