CONSTANTS
    Segs = {"s1"}
    Requests = {"q1", "q2"}
    MaxKeys = 1
    MaxRows = 4
    MaxFaults = 1
    Entries = {"k1", "k2"}
    Writers = {"s1", "s2"}
    Loads = {"l1"}
    Stores = {"tokens", "hook", "push", "zones", "cache"}
    MaxMishaps = 2
    Homes <- ThreeMachines
    Custom = {"x"}
    Policies = {"p"}
    MaxSlips = 1
    MaxChanges = 3
    RunSettings <- SomeSettings
    HandWritten <- SomeFiles
    Lo = 10
    Hi = 3600
    CrfMax = 63
    KnownModes = {"mode0", "mode2"}
    KnownPresets = {"doorbell"}
    MaxStarts = 4
    Encodes = {1, 2}
    Details <- TwoDetails
    MaxAnswers = 2
    Calls = {"r1", "r2"}
    CallsOverlap = FALSE
    MaxSpawned = 4
    SampledRuns = {1, 2}
    ModeOf <- SameMode
    RunsOverlap = FALSE
    MaxSamples = 2
    Models = {"bicubic", "lapsrn", "edsr", "realesrgan"}
    Ships <- ShippedScales
    Rrdb = {"realesrgan"}
    Scales = {2, 3, 4, 8}
    FramesMax = 3
    GateWidth = 2
    Targets = {"person"}
    Excluded = {1}
    SuppressAfter = 2
    BoxesAtOnce = 2
    GateFrames = 3
    CrfFirst = 0
    CrfLast = 5
    MaxScore = 3
    Wanted = 2
    Fixed = 1
    MaxProbes = 3
    MaxSearches = 2
    AskedCodecs = {"libx264", "h264_nvenc"}
    PictureWidth = 10
    GridCells = 4
    Sights <- TwoSights
    RectsMax = 1
    SegmentFrames = 2
    SegmentsMax = 3
    SecondsMax = 1
    SourceLength = 3
    Sighting = 8
    LayerFrames = 3
    LayerRegions = {1, 2}
    LayerFaults = 1
    Clients = {"desktop", "phone"}
    SaysFolder = {"phone"}
    Shelf = {"clip", "chunk", "small"}
    FolderOf <- TwoFolders
    Place <- TheirPlaces
    Outputs = {"small"}
    OutputDir = "f"
    Ttl = 1
    Most = 1
    Cap = 2
    Listings <- ThreeListings
    TimeMax = 1
    FolderChanges = 1
    MaxAsks = 3
    Sources <- SomeSources
    Limits = {2000}
    PresetRate = 3000
    AudioRate = 128
    FloorRate = 300
    SafeRate = 2500
    Shares = {80, 100}
    MinSamples = 3
    Detections <- TwoDetections
    Strip = 10
    MaxRegions = 1
    Pasts <- TwoPasts
    MaxJobs = 1
    JobFaults = 1
    NoPart = Nil
    Nil = Nil
SPECIFICATION Spec
INVARIANT ComposedFits
CHECK_DEADLOCK FALSE
