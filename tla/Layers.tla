------------------------------- MODULE Layers -------------------------------
(***************************************************************************)
(* The layer encoder (compression/layer_encoder.py): of the frames with    *)
(* something moving it stores a crop and a mask of each object, a preview  *)
(* and a metadata file, and a row of the database for the segment.  Its    *)
(* caller adds frames, ends segments, and drops the segment when the       *)
(* encoder raises.                                                         *)
(***************************************************************************)
EXTENDS Naturals, Sequences, FiniteSets, SequencesExt

CONSTANTS
    LastFrame,      \* bound: the frames of the source
    Regions,        \* the regions a frame may have, 1 .. n
    MaxFaults       \* bound: writes that fail

VARIABLES
    options,        \* write_masks and write_preview
    frame, segment, \* the next frame and the number of the segment window
    open,           \* the open segment: [there, writer, raised]
    records,        \* _frame_records, the metadata's frames
    count,          \* _object_count
    span,           \* _source_start_frame, _source_end_frame
    disk,           \* the files of the segments: <<segment, kind, frame, region>>
    rows, faults

vars == <<options, frame, segment, open, records, count, span, disk, rows, faults>>

None == 0
Closed == [there |-> FALSE, writer |-> FALSE, raised |-> FALSE]
Files(kind, regions) == {<<segment, kind, frame, r>> : r \in regions}

(* _reset_segment_state.                                                      *)
ResetKeepsCount == open' = Closed /\ records' = <<>> /\ span' = <<None, None>> /\ count' = count
Reset == open' = Closed /\ records' = <<>> /\ span' = <<None, None>> /\ count' = 0

-----------------------------------------------------------------------------
(* add_frame.  A region that the frame's edges cut to nothing is passed over.  *)
Started == IF open.there THEN open ELSE [there |-> TRUE, writer |-> options.preview, raised |-> FALSE]
Stored(regions) == Files("crop", regions) \union IF options.masks THEN Files("mask", regions) ELSE {}
AddFrame ==
    /\ frame <= LastFrame /\ ~open.raised /\ frame' = frame + 1
    /\ \E regions \in SUBSET Regions : \E cut \in SUBSET regions :
          IF regions = {} THEN UNCHANGED <<open, records, count, span, disk>>
          ELSE LET objects == regions \ cut
               IN  /\ open' = Started
                   /\ disk' = disk \union Stored(objects)
                   /\ count' = count + Cardinality(objects)
                   /\ IF objects = {} THEN UNCHANGED <<records, span>>
                      ELSE /\ records' = Append(records, [frame |-> frame, objects |-> objects])
                           /\ span' = <<IF span[1] = None THEN frame ELSE span[1], frame>>
    /\ UNCHANGED <<options, segment, rows, faults>>

\* The preview cannot be opened, or a crop or a mask cannot be written: the regions before
\* it are stored and counted, the frame is not recorded.
AddFails ==
    /\ frame <= LastFrame /\ ~open.raised /\ frame' = frame + 1
    /\ faults < MaxFaults /\ faults' = faults + 1
    /\ \/ /\ ~open.there /\ options.preview
          /\ open' = [Closed EXCEPT !.raised = TRUE] /\ UNCHANGED <<count, disk>>
       \/ \E regions \in SUBSET Regions, last \in Regions, masked \in BOOLEAN :
             /\ last \notin regions /\ \A r \in regions : r < last
             /\ masked => options.masks
             /\ open' = [Started EXCEPT !.raised = TRUE]
             /\ disk' = disk \union Stored(regions) \union (IF masked THEN Files("crop", {last}) ELSE {})
             /\ count' = count + Cardinality(regions)
    /\ UNCHANGED <<options, segment, records, span, rows>>

(* abort_segment.                                                             *)
Abort == open.raised /\ Reset /\ UNCHANGED <<options, frame, segment, disk, rows, faults>>

(* flush_segment: the metadata first, the row after it.                       *)
Row == [segment |-> segment, roi_count |-> count, frames |-> records, span |-> span]
\* The windows are bounded by the frames.
NextWindow == segment < frame /\ segment' = segment + 1
Flush ==
    /\ ~open.raised /\ NextWindow /\ Reset
    /\ IF open.there /\ count > 0
       THEN rows' = rows \union {Row} /\ disk' = disk \union {<<segment, "metadata", 0, 0>>}
       ELSE UNCHANGED <<rows, disk>>
    /\ UNCHANGED <<options, frame, faults>>
FlushFails ==
    /\ ~open.raised /\ open.there /\ count > 0
    /\ faults < MaxFaults /\ faults' = faults + 1
    /\ open' = [open EXCEPT !.writer = FALSE, !.raised = TRUE]
    /\ disk' \in {disk, disk \union {<<segment, "metadata", 0, 0>>}}
    /\ UNCHANGED <<options, frame, segment, records, count, span, rows>>

Init ==
    /\ options \in [masks : BOOLEAN, preview : BOOLEAN]
    /\ frame = 1 /\ segment = 1 /\ open = Closed /\ records = <<>> /\ count = 0 /\ span = <<None, None>>
    /\ disk = {} /\ rows = {} /\ faults = 0
Next == AddFrame \/ AddFails \/ Abort \/ Flush \/ FlushFails
Spec == Init /\ [][Next]_vars

-----------------------------------------------------------------------------
\* The objects of a list of frames: the frame's place in the list, and the region.
Objects(recs) == {o \in {<<k, r>> : k \in DOMAIN recs, r \in Regions} : o[2] \in recs[o[1]].objects}

\* A segment's row counts the objects its metadata lists, each of them has the files the
\* metadata names, and its frames are those of its span, in order, whatever failed before.
LayersFaithful ==
    \A row \in rows :
        /\ row.roi_count = Cardinality(Objects(row.frames)) /\ Objects(row.frames) # {}
        /\ \A o \in Objects(row.frames) :
              \A kind \in {"crop"} \union (IF options.masks THEN {"mask"} ELSE {}) :
                  <<row.segment, kind, row.frames[o[1]].frame, o[2]>> \in disk
        /\ <<row.segment, "metadata", 0, 0>> \in disk
        /\ row.span = <<row.frames[1].frame, Last(row.frames).frame>>
        /\ \A k \in 1 .. Len(row.frames) - 1 : row.frames[k].frame < row.frames[k + 1].frame
=============================================================================
