------------------------------ MODULE MCClips -------------------------------
(***************************************************************************)
(* The parts of MCParts that make a clip of the frames and hand it out,    *)
(* each with constants and variables of its own; ServiceProofs proves what *)
(* they promise.  A behaviour runs at most one of them.                    *)
(*   filter:  three frames of at most two boxes on a frame of two cells,   *)
(*            one of them excluded                                         *)
(*   search:  every quality curve over six CRFs, searched twice            *)
(*   encoder: up to three segments of a three-frame source, two codecs     *)
(*   layers:  three frames of two regions, any window, one failed write    *)
(*   library: a desktop and a phone on two folders, three listings, one    *)
(*            change                                                       *)
(*   phone:   one job on either of two clips, with or without a limit,     *)
(*            after two histories that make it ask for more, one fault     *)
(***************************************************************************)
EXTENDS Integers, Sequences

CONSTANTS
    GateWidth, Targets, Excluded, SuppressAfter, BoxesAtOnce, GateFrames,       \* of ObjectFilter
    CrfFirst, CrfLast, MaxScore, Wanted, Fixed, MaxProbes, MaxSearches,         \* of VmafSearch
    AskedCodecs, PictureWidth, GridCells, Sights, RectsMax, SegmentFrames, SegmentsMax, SecondsMax,
    SourceLength, Sighting,                                                     \* of Encoder
    LayerFrames, LayerRegions, LayerFaults,                                     \* of Layers
    Clients, SaysFolder, Shelf, FolderOf, Place, Outputs, OutputDir, Ttl, Most, Cap, Listings,
    TimeMax, FolderChanges, MaxAsks,                                            \* of Library
    Sources, Limits, PresetRate, AudioRate, FloorRate, SafeRate, Shares, MinSamples, Detections, Strip,
    MaxRegions, Pasts, MaxJobs, JobFaults,                                      \* of PhoneCompress
    NoPart                                                  \* no part, and the value of what rests

\* The part that runs, and the state of each.
VARIABLES
    making,
    detector, counts, mask, passing, labels, holding, classes, frames, missed, confirmed, found,
    quality, step, measured, best, lower, upper, probes, verdict, cachedCrf, searches,
    encoder, grid, begun, made, pipe, rects, piped, sighted, source, segments, inserted, position, second,
    options, layerFrame, window, layer, records, objects, span, layerFiles, layerRows, failed,
    now, present, compressed, changed, asks, remembered, cache, busy, client,
    honours, order, stage, work, temp, gallery, history, reading, forgetting, jobs, deaths

O == INSTANCE ObjectFilter WITH
        Width <- GateWidth, Classes <- Targets, After <- SuppressAfter, BoxesMax <- BoxesAtOnce,
        FramesMax <- GateFrames, backend <- detector, kept <- passing, recording <- holding, frame <- frames
Q == INSTANCE VmafSearch WITH
        Lo <- CrfFirst, Hi <- CrfLast, Target <- Wanted, answer <- verdict, kept <- cachedCrf
E == INSTANCE Encoder WITH
        Codecs <- AskedCodecs, Width <- PictureWidth, Cells <- GridCells, Boxes <- Sights, FramesMax <- SegmentFrames,
        Length <- SourceLength, opened <- begun, cut <- piped, files <- segments, rows <- inserted
Y == INSTANCE Layers WITH
        LastFrame <- LayerFrames, Regions <- LayerRegions, MaxFaults <- LayerFaults, frame <- layerFrame,
        segment <- window, open <- layer, count <- objects, disk <- layerFiles, rows <- layerRows, faults <- failed
L == INSTANCE Library WITH
        Files <- Shelf, Requests <- Listings, MaxTime <- TimeMax, MaxChanges <- FolderChanges, changes <- changed
F == INSTANCE PhoneCompress WITH
        Clips <- Sources, Preset <- PresetRate, Audio <- AudioRate, Floor <- FloorRate, Safe <- SafeRate,
        Boxes <- Detections, MaxFaults <- JobFaults, phone <- honours, at <- stage, local <- work,
        past <- history, snapshot <- reading, faults <- deaths

filterVars  == <<detector, counts, mask, passing, labels, holding, classes, frames, missed, confirmed, found>>
searchVars  == <<quality, step, measured, best, lower, upper, probes, verdict, cachedCrf, searches>>
encoderVars == <<encoder, grid, begun, made, pipe, rects, piped, sighted, source, segments, inserted,
                 position, second>>
layerVars   == <<options, layerFrame, window, layer, records, objects, span, layerFiles, layerRows, failed>>
libraryVars == <<now, present, compressed, changed, asks, remembered, cache, busy, client>>
phoneVars   == <<honours, order, stage, work, temp, gallery, history, reading, forgetting, jobs, deaths>>
clipVars    == <<making, filterVars, searchVars, encoderVars, layerVars, libraryVars, phoneVars>>

Clips == {"filter", "search", "encoder", "layers", "library", "phone"}

FilterRests ==
    /\ detector = NoPart /\ counts = NoPart /\ mask = NoPart /\ passing = NoPart /\ labels = NoPart
    /\ holding = NoPart /\ classes = NoPart /\ frames = NoPart /\ missed = NoPart /\ confirmed = NoPart /\ found = NoPart
SearchRests ==
    /\ quality = NoPart /\ step = NoPart /\ measured = NoPart /\ best = NoPart /\ lower = NoPart
    /\ upper = NoPart /\ probes = NoPart /\ verdict = NoPart /\ cachedCrf = NoPart /\ searches = NoPart
EncoderRests ==
    /\ encoder = NoPart /\ grid = NoPart /\ begun = NoPart /\ made = NoPart /\ pipe = NoPart /\ rects = NoPart
    /\ piped = NoPart /\ sighted = NoPart /\ source = NoPart /\ segments = NoPart /\ inserted = NoPart
    /\ position = NoPart /\ second = NoPart
LayersRest ==
    /\ options = NoPart /\ layerFrame = NoPart /\ window = NoPart /\ layer = NoPart /\ records = NoPart
    /\ objects = NoPart /\ span = NoPart /\ layerFiles = NoPart /\ layerRows = NoPart /\ failed = NoPart
LibraryRests ==
    /\ now = NoPart /\ present = NoPart /\ compressed = NoPart /\ changed = NoPart /\ asks = NoPart
    /\ remembered = NoPart /\ cache = NoPart /\ busy = NoPart /\ client = NoPart
PhoneRests ==
    /\ honours = NoPart /\ order = NoPart /\ stage = NoPart /\ work = NoPart /\ temp = NoPart /\ gallery = NoPart
    /\ history = NoPart /\ reading = NoPart /\ forgetting = NoPart /\ jobs = NoPart /\ deaths = NoPart

ClipsInit ==
    /\ IF making = "filter" THEN O!Init ELSE FilterRests
    /\ IF making = "search" THEN Q!Init ELSE SearchRests
    /\ IF making = "encoder" THEN E!Init ELSE EncoderRests
    /\ IF making = "layers" THEN Y!Init ELSE LayersRest
    /\ IF making = "library" THEN L!Init ELSE LibraryRests
    /\ IF making = "phone" THEN F!Init ELSE PhoneRests

\* One part makes a step, the others rest.
MakeFilter ==
    /\ making = "filter" /\ O!Next
    /\ UNCHANGED <<searchVars, encoderVars, layerVars, libraryVars, phoneVars>>
MakeSearch ==
    /\ making = "search" /\ Q!Next
    /\ UNCHANGED <<filterVars, encoderVars, layerVars, libraryVars, phoneVars>>
MakeSegment ==
    /\ making = "encoder" /\ E!Next
    /\ UNCHANGED <<filterVars, searchVars, layerVars, libraryVars, phoneVars>>
MakeLayers ==
    /\ making = "layers" /\ Y!Next
    /\ UNCHANGED <<filterVars, searchVars, encoderVars, libraryVars, phoneVars>>
MakeListing ==
    /\ making = "library" /\ L!Next
    /\ UNCHANGED <<filterVars, searchVars, encoderVars, layerVars, phoneVars>>
MakeVideo ==
    /\ making = "phone" /\ F!Next
    /\ UNCHANGED <<filterVars, searchVars, encoderVars, layerVars, libraryVars>>
ClipsNext ==
    /\ UNCHANGED making
    /\ MakeFilter \/ MakeSearch \/ MakeSegment \/ MakeLayers \/ MakeListing \/ MakeVideo

ClipsSpec == ClipsInit /\ [][ClipsNext]_clipVars

-----------------------------------------------------------------------------
\* A cell is masked, and a box there dropped, only on the evidence the filter is to have,
\* and the classes in a segment's row are those found in its own frames.
FilterFaithful == making = "filter" => O!MaskNeedsEvidence /\ O!RowOfItsSegment

\* The CRF that a search answers with meets the target, whatever failed on the way, and is
\* the one it narrowed down to.
AnswersFounded == making = "search" => Q!MeetsTarget /\ Q!NarrowsToLargest

\* No pixel of a box seen lately is degraded, every row has a file with its frames, for all
\* the pipes that die and sounds that fail, and a segment of layers counts its objects.
EncodingFaithful ==
    /\ making = "encoder" => E!BoxesKeptSharp /\ E!FramesKept
    /\ making = "layers" => Y!LayersFaithful

\* What the server tells of a folder is so: a listing is recent, and its clips open for the
\* client that says where it found them.
FilesTold == making = "library" => L!ListingFresh /\ L!ListedOpens

\* The phone hands out no video over the limit and none that is incomplete, and records
\* how each was made.
PhoneKeepsItsWord == making = "phone" => F!LimitKept /\ F!ShownWhole /\ F!RecordsTruthful
=============================================================================
