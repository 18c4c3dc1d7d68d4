------------------------------- MODULE Frames -------------------------------
(***************************************************************************)
(* The frame loop of run_pipeline (pipeline/pipeline.py) and its source    *)
(* (utils/frame_source.py): which frames of a video are encoded, in which  *)
(* segment, over which background and with which picture.  SegmentStore    *)
(* models what happens to a segment's files.                               *)
(*                                                                         *)
(* A picture is the number of the video frame it shows; what the detector  *)
(* finds in it is chosen when it is read.                                  *)
(***************************************************************************)
EXTENDS Integers, Sequences, SequencesExt

CONSTANTS
    Video,          \* frames in the source
    Modes, Decoders,
    Warmup,         \* effective_warmup
    SegmentFrames,  \* frames_per_segment
    CleanFrames,    \* mode2_clean_frames
    Lag,            \* mode2_background_lag_frames
    Guard,          \* mode2_post_warmup_guard_frames
    EveryN,         \* enhance_every_n; 0: enhancement is off
    QueueMax,       \* FFmpeg's frame queue
    MaxStalls       \* bound on the reads in which FFmpeg gives nothing

VARIABLES
    mode, decoder,                      \* the run
    made, pending,                      \* frames the decoder gave, the probe's frame
    queue, reader, item, ffStop, stalls,\* the FFmpeg reader thread
    pc, seen,                           \* the loop: step, and what each frame showed
    streak, buffer, clean,              \* the clean background of mode 2
    enh,                                \* the enhancement and its thread
    segs, bg,                           \* segments, current_bg_frame
    stop                                \* the stop event

run      == <<mode, decoder>>
ffmpeg   == <<queue, reader, item, ffStop>>
source   == <<made, pending, ffmpeg, stalls>>
backdrop == <<streak, buffer, clean>>
vars     == <<run, source, pc, seen, backdrop, enh, segs, bg, stop>>

Regions == {{}, {"object"}}
EOF     == 0    \* the reader's sentinel
Black   == 0    \* no picture yet: the canvas is black
NoBack  == Video + 1    \* current_bg_frame is None
Open    == segs # <<>> /\ Last(segs).state = "open"

-----------------------------------------------------------------------------
(* The FFmpeg reader thread *)

\* One frame is filled from the pipe, or the end of it is reached, which comes early when
\* FFmpeg dies or the read raises.
Fill ==
    /\ reader = "read" /\ ~ffStop
    /\ \/ made < Video /\ made' = made + 1 /\ item' = made + 1
       \/ item' = EOF /\ UNCHANGED made
    /\ reader' = "put"
    /\ UNCHANGED <<run, pending, queue, ffStop, stalls, pc, seen, backdrop, enh, segs, bg, stop>>

\* FFmpeg gives nothing, and the thread is held in readinto until it does.
Wedge ==
    /\ reader = "read" /\ stalls < MaxStalls /\ pc # "done"
    /\ reader' = "stuck" /\ stalls' = stalls + 1
    /\ UNCHANGED <<run, made, pending, queue, item, ffStop, pc, seen, backdrop, enh, segs, bg, stop>>
Unwedge ==
    /\ reader = "stuck" /\ reader' = "read"
    /\ UNCHANGED <<run, made, pending, queue, item, ffStop, stalls, pc, seen, backdrop, enh, segs, bg, stop>>

\* publish: wait for room, in short waits between which the stop is seen.
Publish ==
    /\ reader = "put" /\ Len(queue) < QueueMax
    /\ queue' = Append(queue, item)
    /\ reader' = IF item = EOF THEN "done" ELSE "read"
    /\ UNCHANGED <<run, made, pending, item, ffStop, stalls, pc, seen, backdrop, enh, segs, bg, stop>>
ReaderStopsReading ==
    /\ ffStop /\ reader = "read"
    /\ reader' = "done"
    /\ UNCHANGED <<run, made, pending, queue, item, ffStop, stalls, pc, seen, backdrop, enh, segs, bg, stop>>
ReaderStops ==
    /\ ffStop /\ reader \in {"read", "put"}
    /\ reader' = "done"
    /\ UNCHANGED <<run, made, pending, queue, item, ffStop, stalls, pc, seen, backdrop, enh, segs, bg, stop>>

-----------------------------------------------------------------------------
(* Reading a frame *)

LoopTop ==
    /\ pc = "top"
    /\ pc' = IF stop THEN "final" ELSE "reading"
    /\ UNCHANGED <<run, source, seen, backdrop, enh, segs, bg, stop>>

\* What the detector finds in frame f and the zone filter keeps.
Show(f) == \E rs \in Regions : seen' = Append(seen, [frame |-> f, kept |-> rs])

ReadPastProbe ==
    /\ pc = "reading" /\ decoder = "opencv" /\ made < Video
    /\ made' = made + 1 /\ Show(made + 1)
    /\ pc' = "frame"
    /\ UNCHANGED <<run, pending, ffmpeg, stalls, backdrop, enh, segs, bg, stop>>

\* The frame read to probe the file comes first.
ReadOpenCV ==
    /\ pc = "reading" /\ decoder = "opencv"
    /\ IF pending THEN pending' = FALSE /\ Show(made) /\ UNCHANGED made
       ELSE made < Video /\ made' = made + 1 /\ Show(made + 1) /\ UNCHANGED pending
    /\ pc' = "frame"
    /\ UNCHANGED <<run, ffmpeg, stalls, backdrop, enh, segs, bg, stop>>
ReadFFmpeg ==
    /\ pc = "reading" /\ decoder = "ffmpeg" /\ queue # <<>> /\ Head(queue) # EOF
    /\ queue' = Tail(queue) /\ Show(Head(queue))
    /\ pc' = "frame"
    /\ UNCHANGED <<run, made, pending, reader, item, ffStop, stalls, backdrop, enh, segs, bg, stop>>

\* The file ends or a read of it fails, or FFmpeg gave no frame in _FF_READ_TIMEOUT.
EndOfSource ==
    /\ pc = "reading"
    /\ \/ decoder = "opencv" /\ ~pending
       \/ decoder = "ffmpeg" /\ \A i \in DOMAIN queue : queue[i] = EOF
    /\ pc' = "final"
    /\ UNCHANGED <<run, source, seen, backdrop, enh, segs, bg, stop>>

-----------------------------------------------------------------------------
(* A frame after the warm-up *)

Kept     == Last(seen).kept # {}
BufferFrame == mode = "mode0" \/ Kept       \* get_mode_decision
PostWarmup  == Len(seen) - Warmup           \* post_warmup_frame_count
Warming  == Len(seen) <= Warmup

\* Every N-th frame with regions is given to the enhancement's thread, and the
\* result of the one before is taken when it is ready.
Collect == IF enh.job # Black /\ enh.done THEN enh.job ELSE enh.last
Enhance ==
    IF EveryN = 0 \/ ~Kept THEN UNCHANGED enh
    ELSE \/ /\ (enh.count + 1) % EveryN = 1
            /\ enh' = [count |-> (enh.count + 1) % EveryN, job |-> Last(seen).frame,
                       done |-> FALSE, last |-> Collect]
         \* the regions are too small or too large, or it is not this frame's turn
         \/ enh' = [enh EXCEPT !.count = (@ + 1) % EveryN]

\* The picture the frame stands for from here on.
Picture == IF EveryN > 0 /\ Kept /\ enh.last # Black THEN enh.last ELSE Last(seen).frame

EnhanceDone ==
    /\ enh.job # Black /\ ~enh.done /\ pc # "done"
    /\ enh' = [enh EXCEPT !.done = TRUE]
    /\ UNCHANGED <<run, source, pc, seen, backdrop, segs, bg, stop>>

BackdropFromEnd ==
    IF PostWarmup <= Guard
    THEN streak' = 0 /\ buffer' = <<>> /\ UNCHANGED <<clean, bg>>
    ELSE IF BufferFrame
    THEN /\ streak' = 0 /\ buffer' = <<>>
         /\ IF streak >= CleanFrames
            THEN clean' = Last(buffer) /\ bg' = IF Open THEN clean' ELSE bg
            ELSE UNCHANGED <<clean, bg>>
    ELSE streak' = streak + 1 /\ buffer' = Append(buffer, Last(seen).frame)
         /\ UNCHANGED <<clean, bg>>

\* Mode 2's clean background: frames without a region, after a quarantine, are
\* kept as far back as the lag; when a long enough gap ends, the oldest of them
\* is the background, also of the segment that is open.
Backdrop ==
    IF PostWarmup <= Guard
    THEN streak' = 0 /\ buffer' = <<>> /\ UNCHANGED <<clean, bg>>
    ELSE IF BufferFrame
    THEN /\ streak' = 0 /\ buffer' = <<>>
         /\ IF streak >= CleanFrames
            THEN clean' = Head(buffer) /\ bg' = IF Open THEN clean' ELSE bg
            ELSE UNCHANGED <<clean, bg>>
    ELSE /\ streak' = streak + 1
         /\ LET longer == Append(buffer, Last(seen).frame)
            IN  buffer' = IF Len(longer) > Lag + 1 THEN Tail(longer) ELSE longer
         /\ UNCHANGED <<clean, bg>>

WarmFrame ==
    /\ pc = "frame" /\ Warming
    /\ pc' = "top"
    /\ UNCHANGED <<run, source, seen, backdrop, enh, segs, bg, stop>>
Decide ==
    /\ pc = "frame" /\ ~Warming
    /\ Enhance
    /\ IF mode = "mode2" THEN Backdrop ELSE UNCHANGED <<backdrop, bg>>
    /\ pc' = IF BufferFrame THEN "open" ELSE "top"
    /\ UNCHANGED <<run, source, seen, segs, stop>>

\* A segment is opened by the first frame that goes into it.
OpenSegment ==
    /\ pc = "open"
    /\ IF Open THEN UNCHANGED <<segs, bg>>
       ELSE /\ segs' = Append(segs, [state |-> "open", frames |-> <<>>])
            /\ bg' = IF mode = "mode2" THEN clean ELSE NoBack
    /\ pc' = "write"
    /\ UNCHANGED <<run, source, seen, backdrop, enh, stop>>

WriteOverfull ==
    /\ pc = "write" /\ ~stop
    /\ LET s    == Last(segs)
           more == Append(s.frames, [frame |-> Last(seen).frame, picture |-> Picture, back |-> bg])
           full == Len(more) > SegmentFrames
       IN  /\ segs' = [segs EXCEPT ![Len(segs)] =
                         [state |-> IF full THEN "saved" ELSE "open", frames |-> more]]
           /\ bg' = IF full THEN NoBack ELSE bg
    /\ pc' = "top"
    /\ UNCHANGED <<run, source, seen, backdrop, enh, stop>>

\* write_frame, unless a stop has come in the meantime; a full segment is closed.
Write ==
    /\ pc = "write" /\ ~stop
    /\ LET s    == Last(segs)
           more == Append(s.frames, [frame |-> Last(seen).frame, picture |-> Picture, back |-> bg])
           full == Len(more) >= SegmentFrames
       IN  /\ segs' = [segs EXCEPT ![Len(segs)] =
                         [state |-> IF full THEN "saved" ELSE "open", frames |-> more]]
           /\ bg' = IF full THEN NoBack ELSE bg
    /\ pc' = "top"
    /\ UNCHANGED <<run, source, seen, backdrop, enh, stop>>
WriteStopped ==
    /\ pc = "write" /\ stop
    /\ pc' = "final"
    /\ UNCHANGED <<run, source, seen, backdrop, enh, segs, bg, stop>>

-----------------------------------------------------------------------------
(* The end of the run *)

CloseAll(st) == segs' = [segs EXCEPT ![Len(segs)].state = st]

\* The partial segment is flushed at the end of the source and discarded by a
\* stop; one without a frame is discarded.
Final ==
    /\ pc = "final"
    /\ IF Open THEN CloseAll(IF Last(segs).frames = <<>> \/ stop THEN "aborted" ELSE "saved")
       ELSE UNCHANGED segs
    /\ pc' = "release"
    /\ UNCHANGED <<run, source, seen, backdrop, enh, bg, stop>>

\* release: the reader is told to stop, and its pipe is closed, which waits for the read that
\* the reader is in; then FFmpeg is terminated, and the join of the reader has a timeout.
Release ==
    /\ pc = "release"
    /\ ffStop' = TRUE /\ pc' = "close"
    /\ UNCHANGED <<run, made, pending, queue, reader, item, stalls, seen, backdrop, enh, segs, bg, stop>>
Close ==
    /\ pc = "close" /\ reader # "stuck"
    /\ pc' = "done"
    /\ UNCHANGED <<run, source, seen, backdrop, enh, segs, bg, stop>>

RequestStop ==
    /\ ~stop /\ pc \notin {"release", "close", "done"}
    /\ stop' = TRUE
    /\ UNCHANGED <<run, source, pc, seen, backdrop, enh, segs, bg>>

-----------------------------------------------------------------------------
Init ==
    /\ mode \in Modes /\ decoder \in Decoders
    /\ made = IF decoder = "opencv" THEN 1 ELSE 0
    /\ pending = (decoder = "opencv")
    /\ queue = <<>> /\ item = EOF /\ ffStop = FALSE /\ stalls = 0
    /\ reader = IF decoder = "ffmpeg" THEN "read" ELSE "done"
    /\ pc = "top" /\ seen = <<>>
    /\ streak = 0 /\ buffer = <<>> /\ clean = Black
    /\ enh = [count |-> 0, job |-> Black, done |-> FALSE, last |-> Black]
    /\ segs = <<>> /\ bg = NoBack
    /\ stop = FALSE

ReaderStep == Fill \/ Publish \/ ReaderStops
LoopStep ==
    \/ LoopTop \/ ReadOpenCV \/ ReadFFmpeg \/ EndOfSource \/ WarmFrame \/ Decide
    \/ OpenSegment \/ Write \/ WriteStopped \/ Final \/ Release \/ Close

Next     == ReaderStep \/ Wedge \/ Unwedge \/ LoopStep \/ EnhanceDone \/ RequestStop
\* The threads go on; nothing says that a stuck read ever returns.
Fairness == WF_vars(ReaderStep) /\ WF_vars(LoopStep)
Spec     == Init /\ [][Next]_vars
FairSpec == Spec /\ Fairness
-----------------------------------------------------------------------------
(* Properties *)

Pictures == 0..NoBack
Shown    == [frame : 1..Video, kept : Regions]
Piece    == [frame : 1..Video, picture : Pictures, back : Pictures]
Segment  == [state : {"open", "saved", "aborted"}, frames : Seq(Piece)]
TypeOK ==
    /\ mode \in Modes /\ decoder \in Decoders
    /\ made \in 0..Video /\ pending \in BOOLEAN /\ stalls \in 0..MaxStalls
    /\ queue \in Seq(0..Video) /\ Len(queue) <= QueueMax
    /\ reader \in {"read", "stuck", "put", "done"} /\ item \in 0..Video /\ ffStop \in BOOLEAN
    /\ pc \in {"top", "reading", "frame", "open", "write", "final", "release", "close", "done"}
    /\ seen \in Seq(Shown)
    /\ streak \in Nat /\ buffer \in Seq(Pictures) /\ Len(buffer) <= Lag + 1
    /\ clean \in Pictures /\ bg \in Pictures
    /\ enh \in [count : Nat, job : Pictures, done : BOOLEAN, last : Pictures]
    /\ segs \in Seq(Segment)
    /\ stop \in BOOLEAN

\* The frame that the n-th one of segment i shows; whether the mode encodes frame f.
Written(i, n) == segs[i].frames[n].frame
Wanted(f)     == f > Warmup /\ (mode = "mode0" \/ seen[f].kept # {})

\* The frames that were read, follow the warm-up and are kept by the mode are encoded, all of
\* them, once and in order, whichever decoder reads them and however they fall into segments
\* (FrameSource.read, get_mode_decision).  Which picture stands for them is PicturesTold.
EncodedExactly ==
    /\ \A f \in DOMAIN seen : seen[f].frame = f
    /\ \A i \in DOMAIN segs : \A n \in DOMAIN segs[i].frames :
         Written(i, n) \in DOMAIN seen /\ Wanted(Written(i, n))
    /\ \A i, j \in DOMAIN segs : \A m \in DOMAIN segs[i].frames, n \in DOMAIN segs[j].frames :
         (i < j \/ (i = j /\ m < n)) => Written(i, m) < Written(j, n)
    /\ pc \in {"top", "reading"} =>
         \A f \in DOMAIN seen : Wanted(f) =>
            \E i \in DOMAIN segs : \E n \in DOMAIN segs[i].frames : Written(i, n) = f

\* A frame is encoded with its own picture, or, when enhancement is on and something was found
\* in it, with the enhanced picture of an EARLIER frame after the warm-up in which something
\* was found; the enhanced pictures never go back to one before the last that was shown.
Enhanced(i, n) == segs[i].frames[n].picture # Written(i, n)
PicturesTold ==
    /\ \A i \in DOMAIN segs : \A n \in DOMAIN segs[i].frames : Enhanced(i, n) =>
         LET p == segs[i].frames[n].picture
         IN  /\ EveryN > 0 /\ Warmup < p /\ p < Written(i, n)
             /\ seen[p].kept # {} /\ seen[Written(i, n)].kept # {}
    /\ \A i, j \in DOMAIN segs : \A m \in DOMAIN segs[i].frames, n \in DOMAIN segs[j].frames :
         (i < j \/ (i = j /\ m < n)) /\ Enhanced(i, m) /\ Enhanced(j, n)
            => segs[i].frames[m].picture <= segs[j].frames[n].picture

\* Every segment but the last is saved with exactly frames_per_segment frames,
\* and none is left open by the run.
SegmentsFull ==
    /\ \A i \in DOMAIN segs : i < Len(segs) =>
         segs[i].state = "saved" /\ Len(segs[i].frames) = SegmentFrames
    /\ pc \in {"release", "close", "done"} => ~Open

\* Every frame that was read and that the mode wants is encoded once and in order, with its
\* own picture or an earlier enhanced one, and every segment but the last has its full length.
EncodedAndCut == TypeOK /\ EncodedExactly /\ PicturesTold /\ SegmentsFull

\* A background is a frame in which nothing was found, nor in those after it as
\* far as the lag or the required gap goes, and it is past the quarantine in
\* which the detector may miss an object (mode2_clean_seconds).
Clear(f) ==
    /\ f > Warmup + Guard
    /\ LET gap == IF Lag < CleanFrames THEN Lag ELSE CleanFrames - 1
       IN  \A g \in f..(f + gap) : g <= Len(seen) /\ seen[g].kept = {}
BackgroundClear ==
    \A i \in DOMAIN segs : \A n \in DOMAIN segs[i].frames :
        segs[i].frames[n].back \notin {Black, NoBack} => Clear(segs[i].frames[n].back)

\* A run that is told to stop ends and leaves no thread behind, with the frame
\* queue full or empty, and so does one whose source ends or gives nothing for a while; only
\* an FFmpeg that never again gives a byte keeps it, since release closes the pipe before it
\* terminates FFmpeg, and the close waits for the read.
RunEnds == <>(pc = "done" /\ reader = "done") \/ <>[](reader = "stuck")
=============================================================================
