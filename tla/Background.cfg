CONSTANTS
    h1 = h1
    h2 = h2
    k1 = k1
    None = None
    Sessions = {h1, h2}
    Stops    = {k1}
    Reporters = {"r1"}
    Batch    <- TwoMessages
    Tests    = {"t1"}
    QueueMax = 1
    BatchMax = 1
    Addresses = {"x", "y"}
    Dotted = {"hook"}
    MaxCrashes = 1
SPECIFICATION BothSpec
INVARIANT SlotNotLeaked
INVARIANT FfmpegReaped
INVARIANT Accounted
INVARIANT ConnectsToValidated
PROPERTY SlotFreed
PROPERTY StopHonoured
PROPERTY Drained
CHECK_DEADLOCK FALSE
