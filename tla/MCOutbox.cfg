SPECIFICATION FairSpec
CONSTANTS
    i1 = i1
    i2 = i2
    k1 = k1
    k2 = k2
    Instances = {i1, i2}
    NumEvents = 2
    Keys = {k1, k2}
    KeyOf <- ByParity
    BatchSize = 2
    Lease = 2
    RetryDelays <- TwoDelays
    MaxAttempts = 2
    MaxFaults = 2
    None = None
INVARIANT TypeOK
INVARIANT OnceUnlessExcused
PROPERTY OnlyLateMarksInterfere
PROPERTY AtLeastOnce
PROPERTY PublishedUnlessPaused
CHECK_DEADLOCK FALSE
