CONSTANTS
    Video = 7
    Modes = {"mode0", "mode1", "mode2"}
    Decoders = {"opencv", "ffmpeg"}
    Warmup = 1
    SegmentFrames = 2
    CleanFrames = 2
    Lag = 1
    Guard = 1
    EveryN = 2
    QueueMax = 1
    MaxStalls = 1
SPECIFICATION FairSpec
INVARIANT EncodedAndCut
INVARIANT BackgroundClear
PROPERTY RunEnds
CHECK_DEADLOCK FALSE
