SPECIFICATION FairSpec
CONSTANTS
    i1 = i1
    i2 = i2
    k1 = k1
    k2 = k2
    Instances = {i1}
    NumEvents = 1
    Keys = {k1, k2}
    KeyOf <- ByParity
    BatchSize = 1
    Lease = 2
    RetryDelays <- TwoDelays
    MaxAttempts = 2
    MaxFaults = 1
    None = None
PROPERTY EventuallyPublished
CHECK_DEADLOCK FALSE
