SPECIFICATION FairSpec
CONSTANTS
    t1 = t1
    t2 = t2
    o1 = o1
    o2 = o2
    o3 = o3
    Topics = {t1, t2}
    Objects = {o1, o2, o3}
    InitialDelay = 2
    MaxDelay = 5
    MaxFaults = 3
    None = None
INVARIANTS TypeOK OneRecoveryPath QuietAfterShutdown LeftBehindOnlyIfExcused
PROPERTIES OneStreamAtATime StaysSubscribed
CHECK_DEADLOCK FALSE
