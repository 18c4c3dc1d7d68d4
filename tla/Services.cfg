CONSTANTS
    Cameras = {1, 2}
    LastFrame = 3
    BufferSize = 2
    Stall = 1
    Hanging = {2}
    Demos = {1, 2}
    Modes = {"mode0", "mode1"}
    Keeps = {{}, {0, 1, 3}, {0, 3}, {1, 2}}
    HoldMax = 2
    Overlap = FALSE
    Downloads = {"d1", "d2"}
    Installs = {"i1", "i2"}
    MaxCrashes = 2
    Files = {"a", "b"}
    Full = 3
    Checks = 2
    PauseMax = 1
    FaultsMax = 2
SPECIFICATION Spec
INVARIANT FramesInOrder
INVARIANT KeepsTime
INVARIANT InstalledVerified
INVARIANT IngestedWhole
PROPERTY ResultIsOwn
PROPERTY Settles
CHECK_DEADLOCK FALSE
