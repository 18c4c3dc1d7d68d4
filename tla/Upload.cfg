CONSTANTS
    NoCall = NoCall
    Size  = 2
    Calls = {c1, c2, c3}
    MaxAttempts = 2
    MaxRetries = 1
    MaxFaults = 3
SPECIFICATION FairSpec
INVARIANT PartIsPrefix
PROPERTY KeepsPromise
CHECK_DEADLOCK FALSE
