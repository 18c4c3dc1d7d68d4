------------------------------- MODULE Encoder -------------------------------
(***************************************************************************)
(* The encoder's own state over the segments of a run                      *)
(* (compression/roi_encoder.py): which codec opens, the activity grid that *)
(* tells the next segment where the picture may be degraded, what reaches  *)
(* the file of a segment, the audio put back into it, and its row.         *)
(*                                                                         *)
(* A row of the picture is Width pixels and Cells grid cells.  A frame is  *)
(* its position in the source.  A file is named by the second in which its *)
(* segment was opened.  Activity is counted in parts of a sighting.        *)
(***************************************************************************)
EXTENDS Integers, FiniteSets, FiniteSetsExt

CONSTANTS
    Codecs,         \* codecs that may be asked for
    Width, Cells,   \* frame width, _ROI_GRID_W
    Boxes,          \* the boxes a frame may carry, <<x, w>>
    RectsMax,       \* more degraded rectangles than this are dropped
    FramesMax,      \* bound on the frames of a segment
    SegmentsMax,    \* bound on the segments of a run
    SecondsMax,     \* bound on the clock
    Length,         \* frames of the source
    Sighting        \* one sighting on the activity grid, which every halving within the bounds divides

VARIABLES
    encoder,    \* the codec in use and whether encoder-level ROI is on
    grid,       \* _activity_grid
    opened,     \* _roi_segments_seen
    made,       \* files begun
    pipe,       \* _stream_process: none, open, dead
    rects,      \* the addroi rectangles of the open pipe
    cut,        \* the open segment: its second and the positions piped
    sighted,    \* boxes of the open segment and of the two before
    source,     \* seconds of sound in the source, and what the probe cached
    files,      \* by second: positions in the file and of its sound, and whose it is
    rows,       \* rows inserted: second and positions
    position,   \* next frame of the source
    second      \* the wall clock

vars == <<encoder, grid, opened, made, pipe, rects, cut, sighted, source, files, rows, position, second>>

Col == 0..(Cells - 1)
Seconds == 0..SecondsMax
Part(frames) == [frames |-> frames, sound |-> {}, of |-> made']
First(n, S) == {p \in S : Cardinality({q \in S : q < p}) < n}

\* The codec asked for, or libx264 when it is not listed, or is a hardware encoder
\* whose trial encode fails (what the machine has is looked up once and kept).
Resolved(wanted, listed, works) ==
    IF wanted = "libx264" \/ (wanted \in listed /\ (wanted = "h264_nvenc" => works))
    THEN wanted ELSE "libx264"

\* _note_roi_activity: the columns that a box lights.
TouchedInside(box) ==
    LET x == box[1]
        w == box[2]
    IN  {c \in Col : /\ c >= Min({Cells - 1, (x * Cells) \div Width})
                     /\ c <= Min({Cells - 1, ((x + Max({1, w}) - 1) * Cells) \div Width})}
Touched(box) ==
    LET x == box[1]
        w == box[2]
    IN  {c \in Col : /\ c >= Min({Cells - 1, (x * Cells) \div Width})
                     /\ c <= Min({Cells - 1, ((x + Max({1, w})) * Cells) \div Width})}

\* _build_roi_filters: one rectangle for each longest run of static columns, for
\* x264 and x265 after two segments with some activity, and not too many of them.
Static == {c \in Col : 2 * grid[c] < Sighting}
Runs == {r \in Col \X Col : /\ r[1] <= r[2] /\ r[1]..r[2] \subseteq Static
                            /\ r[1] - 1 \notin Static /\ r[2] + 1 \notin Static}
Rectangle(r) == <<(r[1] * Width) \div Cells, ((r[2] - r[1] + 1) * Width) \div Cells>>
RoiFilters ==
    IF /\ encoder.roi_qp /\ encoder.codec \in {"libx264", "libx265"}
       /\ opened >= 2 /\ \E c \in Col : grid[c] > 0
       /\ Cardinality(Runs) <= RectsMax
    THEN {Rectangle(r) : r \in Runs} ELSE {}

-----------------------------------------------------------------------------
\* begin_segment: the filters are built before the grid ages.  A pipe that is still
\* set refuses.
Begin ==
    /\ pipe = "none" /\ made < SegmentsMax /\ position < Length /\ made' = made + 1
    /\ rects' = RoiFilters
    /\ grid' = [c \in Col |-> grid[c] \div 2] /\ opened' = opened + 1
    /\ pipe' = "open" /\ cut' = [second |-> second, frames |-> {}]
    /\ files' = [files EXCEPT ![second] = Part({})]
    /\ sighted' = [now |-> {}, last |-> sighted.now, before |-> sighted.last]
    /\ UNCHANGED <<encoder, source, rows, position, second>>

NoteActivity(boxes) ==
    IF encoder.roi_qp
    THEN grid' = [c \in Col |-> grid[c] + Sighting * Cardinality({b \in boxes : c \in Touched(b)})]
    ELSE UNCHANGED grid

\* write_frame: the next frame that the mode keeps, with its boxes.
WriteFrame ==
    /\ pipe = "open" /\ Cardinality(cut.frames) < FramesMax
    /\ \E p \in {position, position + 1} \ {Length}, boxes \in {{}} \union {{b} : b \in Boxes} :
          /\ NoteActivity(boxes)
          /\ cut' = [cut EXCEPT !.frames = @ \union {p}]
          /\ position' = p + 1
          /\ sighted' = [sighted EXCEPT !.now = @ \union boxes]
    /\ UNCHANGED <<encoder, opened, made, pipe, rects, source, files, rows, second>>

\* FFmpeg dies, or abort_segment kills it: the handle stays until finish_segment.
PipeDies ==
    /\ pipe = "open" /\ pipe' = "dead"
    /\ UNCHANGED made /\ files' = [files EXCEPT ![cut.second] = Part(First(1, cut.frames))]
    /\ UNCHANGED <<encoder, grid, opened, rects, cut, sighted, source, rows, position, second>>

\* finish_segment of a dead pipe raises and ends the run.
FinishDead ==
    /\ pipe = "dead" /\ pipe' = "none" /\ position' = Length
    /\ UNCHANGED <<encoder, grid, opened, made, rects, cut, sighted, source, files, rows, second>>

\* What the audio step leaves of a file: nothing to add, the source's sound with
\* -shortest in a side file that replaces the first, or a failure that leaves the
\* video alone.  The side file of a failure is removed.
MuxedInPlace(frames) ==
    IF source.sound = 0 THEN {Part(frames)}
    ELSE LET n == Min({Cardinality(frames), source.sound})
         IN  {[Part(First(n, frames)) EXCEPT !.sound = 0..(n - 1)],
              Part({})}
Muxed(frames) ==
    IF source.sound = 0 \/ source.probe = "no" THEN {Part(frames)}
    ELSE LET n == Min({Cardinality(frames), source.sound})
         IN  {[Part(First(n, frames)) EXCEPT !.sound = 0..(n - 1)],
              Part(frames)}
\* The probe runs once; an error counts as a source without sound.
Probed(s) ==
    IF s.probe # "unknown" THEN {s.probe}
    ELSE IF s.sound = 0 THEN {"no"} ELSE {"yes", "no"}

\* finish_segment: FFmpeg exits in order, the sound is put back, the row inserted.
Finish ==
    /\ pipe = "open" /\ cut.frames # {} /\ pipe' = "none" /\ UNCHANGED made
    /\ \E probe \in Probed(source), file \in Muxed(cut.frames) :
          /\ source' = [source EXCEPT !.probe = probe]
          /\ probe = "no" => file.sound = {}
          /\ files' = [files EXCEPT ![cut.second] = file]
    /\ rows' = rows \union {[of |-> made, second |-> cut.second, frames |-> cut.frames]}
    /\ UNCHANGED <<encoder, grid, opened, rects, cut, sighted, position, second>>

\* encode_segment and encode_frame_sequence: a whole batch into one file, outside
\* the streaming state and without ROI; a failure leaves a file and no row.
EncodeBatch ==
    /\ pipe = "none" /\ made < SegmentsMax /\ position < Length /\ made' = made + 1
    /\ \E n \in 1..FramesMax :
          LET frames == position..Min({Length - 1, position + n - 1})
          IN  /\ position' = Max(frames) + 1
              /\ \/ \E probe \in Probed(source), file \in Muxed(frames) :
                       /\ source' = [source EXCEPT !.probe = probe]
                       /\ probe = "no" => file.sound = {}
                       /\ files' = [files EXCEPT ![second] = file]
                       /\ rows' = rows \union {[of |-> made', second |-> second,
                                                frames |-> frames]}
                 \/ files' = [files EXCEPT ![second] = Part({})] /\ UNCHANGED <<rows, source>>
    /\ UNCHANGED <<encoder, grid, opened, pipe, rects, cut, sighted, second>>

Tick ==
    /\ second < SecondsMax /\ second' = second + 1
    /\ UNCHANGED <<encoder, grid, opened, made, pipe, rects, cut, sighted, source, files, rows, position>>

Init ==
    /\ \E wanted \in Codecs, listed \in SUBSET Codecs, works, roi_qp \in BOOLEAN :
          encoder = [codec |-> Resolved(wanted, listed, works), roi_qp |-> roi_qp]
    /\ grid = [c \in Col |-> 0] /\ opened = 0 /\ made = 0 /\ pipe = "none" /\ rects = {}
    /\ cut = [second |-> 0, frames |-> {}]
    /\ sighted = [now |-> {}, last |-> {}, before |-> {}]
    /\ source \in [sound : {0, 1, Length}, probe : {"unknown"}]
    /\ files = [s \in Seconds |-> [frames |-> {}, sound |-> {}, of |-> 0]] /\ rows = {} /\ position = 0 /\ second = 0

Next == Begin \/ WriteFrame \/ PipeDies \/ FinishDead \/ Finish \/ EncodeBatch \/ Tick
Spec == Init /\ [][Next]_vars
-----------------------------------------------------------------------------
Pixels(box) == (box[1])..(Min({Width, box[1] + box[2]}) - 1)

\* A pixel that a box covered in one of the last two segments is never in a rectangle
\* that the open segment degrades, however cells and pixels round
\* (_build_roi_filters: "anything with activity keeps full quality").
BoxesKeptSharp ==
    pipe = "open" =>
        \A box \in sighted.last \union sighted.before, r \in rects :
            Pixels(box) \intersect Pixels(r) = {}

\* The file of a row, unless a later segment of the same second has taken its name,
\* holds every frame that the row counts, whatever the audio step did; where sound is
\* put back it has to last for the segment, or -shortest cuts the picture
\* (_mux_audio_from_source: "On any failure the video-only output is kept").
FramesKept ==
    \A row \in rows :
        (/\ files[row.second].of = row.of
         /\ source.sound = 0 \/ source.sound >= Cardinality(row.frames))
        => files[row.second].frames = row.frames
=============================================================================
