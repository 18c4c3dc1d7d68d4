---------------------------- MODULE ObjectFilter ----------------------------
(***************************************************************************)
(* What becomes foreground: the classification gate on the boxes of the    *)
(* background subtractor (detection/object_filter.py), its grid of places  *)
(* that only ever gave false detections, the exclude zones, and the        *)
(* classes that the pipeline writes on a segment's row.                    *)
(*                                                                         *)
(* A frame is a row of grid cells; a box covers one or two of them.  What  *)
(* the detector would find in a box is part of the box: a target class,    *)
(* nothing, or a failed inference.                                         *)
(***************************************************************************)
EXTENDS Integers, Sequences, FiniteSets, SequencesExt

CONSTANTS
    Width,      \* the frame is the cells 1..Width
    Classes,    \* target classes
    Excluded,   \* cells of the exclude zones
    After,      \* suppress_after
    BoxesMax,   \* bound on the boxes of a frame
    FramesMax   \* bound on the frames

Cells    == 1..Width
Backends == {"onnx", "torch", "none"}
Boxes    == {b \in [lo : Cells, len : {1, 2}, small : BOOLEAN, holds : Classes \union {"nothing", "error"}] :
                b.lo + b.len <= Width + 1 /\ (b.small => b.len = 1 /\ b.holds # "error")}
Covers(b)  == {c \in Cells : b.lo <= c /\ c < b.lo + b.len}
Centre(b)  == b.lo + b.len \div 2

VARIABLES
    backend,    \* the detector that loaded
    counts,     \* _suppress_grid
    mask,       \* _suppressed_cells
    kept,       \* boxes of the last frame that the gate let through
    labels,     \* last_detected_classes: kept box -> classes
    recording,  \* a segment is open (a mode that records events only)
    classes,    \* _seg_all_classes
    frame,      \* frames so far
    missed,     \* boxes with a target that the last frame dropped
    confirmed,  \* per cell, the last frame that confirmed a target on it
    found       \* classes found in the frames of the open segment

vars == <<backend, counts, mask, kept, labels, recording, classes, frame, missed, confirmed, found>>

-----------------------------------------------------------------------------
\* _load_model: "auto" prefers ONNX, an explicit "onnx" never falls back.
Loaded(wanted, onnx, torch) ==
    IF wanted \in {"onnx", "auto"} /\ onnx THEN "onnx"
    ELSE IF wanted # "onnx" /\ torch THEN "torch"
    ELSE "none"

\* _classify_box_labels: the classes found, {} to keep the box without a label,
\* or "drop".  A failed inference is an exception in torch, and an empty result in
\* ONNX Runtime's wrapper.
Judgement(b) ==
    IF b.holds \in Classes THEN {b.holds}
    ELSE IF b.holds = "error" /\ backend = "torch" THEN {}
    ELSE {"drop"}

Confirms(b)  == ~b.small /\ Judgement(b) # {"drop"}
Dismisses(b) == ~b.small /\ Judgement(b) = {"drop"}
LabelsOf(b)  == IF backend = "none" \/ b.small THEN {} ELSE Judgement(b)

\* The boxes that are judged, by their place in the frame: those not centred on the mask,
\* which is the one of the end of the frame before.
Judged(boxes) == {i \in DOMAIN boxes : Centre(boxes[i]) \notin mask}
Passed(boxes) ==
    IF backend = "none" THEN DOMAIN boxes ELSE {i \in Judged(boxes) : ~Dismisses(boxes[i])}
DismissedAt(boxes, c) == {i \in Judged(boxes) : Dismisses(boxes[i]) /\ c \in Covers(boxes[i])}

\* A confirmed box does not reset its cells.
CountsNoReset(boxes) == [c \in Cells |-> counts[c] + Cardinality(DismissedAt(boxes, c))]

\* _reset_suppression while the boxes are judged, _increment_suppression after.
Counts(boxes) ==
    [c \in Cells |->
        (IF \E i \in Judged(boxes) : Confirms(boxes[i]) /\ c \in Covers(boxes[i]) THEN 0 ELSE counts[c])
          + Cardinality(DismissedAt(boxes, c))]

\* utils/zones_config.filter_regions: by the centre of the box.
Watched(boxes) == {b \in boxes : Centre(b) \notin Excluded}

-----------------------------------------------------------------------------
\* One frame of run_pipeline: the gate, the labels for the open segment, the
\* exclude zones; a watched box opens a segment, which starts with the labels of
\* its first frame.
LabelUnion(ls) == UNION {ls[b] : b \in DOMAIN ls}

GateFrame(boxes) ==
    /\ kept' = {boxes[i] : i \in Passed(boxes)}
    /\ labels' = [b \in kept' |-> LabelsOf(b)]
    /\ IF backend = "none" \/ boxes = <<>> THEN UNCHANGED <<counts, mask>>
       ELSE /\ counts' = Counts(boxes)
            /\ mask' = {c \in Cells : counts'[c] >= After}
    /\ missed' = {boxes[i] : i \in {i \in DOMAIN boxes : boxes[i].holds \in Classes}} \ kept'
    /\ confirmed' = [c \in Cells |->
                       IF \E b \in kept' : labels'[b] # {} /\ c \in Covers(b) THEN frame' ELSE confirmed[c]]

\* The next segment starts with the classes of the one before.
MetadataKept ==
    IF Watched(kept') # {} /\ ~recording
    THEN recording' = TRUE /\ classes' = classes \union LabelUnion(labels') /\ found' = LabelUnion(labels')
    ELSE /\ UNCHANGED recording
         /\ classes' = classes \union (IF recording THEN LabelUnion(labels') ELSE {})
         /\ found' = found \union (IF recording THEN LabelUnion(labels') ELSE {})
Metadata ==
    IF Watched(kept') # {} /\ ~recording
    THEN recording' = TRUE /\ classes' = LabelUnion(labels') /\ found' = LabelUnion(labels')
    ELSE /\ UNCHANGED recording
         /\ classes' = classes \union (IF recording THEN LabelUnion(labels') ELSE {})
         /\ found' = found \union (IF recording THEN LabelUnion(labels') ELSE {})

Frame ==
    /\ frame < FramesMax /\ frame' = frame + 1
    /\ \E boxes \in SeqOf(Boxes, BoxesMax) : GateFrame(boxes)
    /\ Metadata
    /\ UNCHANGED backend

\* The segment is full and its row is written; what it gathered stays until the
\* next one is opened.
CloseSegment ==
    /\ recording /\ recording' = FALSE
    /\ UNCHANGED <<backend, counts, mask, kept, labels, classes, frame, missed, confirmed, found>>

Init ==
    /\ \E wanted \in {"auto", "onnx", "torch"}, onnx, torch \in BOOLEAN :
          backend = Loaded(wanted, onnx, torch)
    /\ counts = [c \in Cells |-> 0] /\ mask = {}
    /\ kept = {} /\ labels = <<>>
    /\ recording = FALSE /\ classes = {} /\ frame = 0
    /\ missed = {} /\ confirmed = [c \in Cells |-> 0] /\ found = {}

Next == Frame \/ CloseSegment
Spec == Init /\ [][Next]_vars
-----------------------------------------------------------------------------
(* Properties *)

\* A target is dropped only where the gate has judged After boxes false since it
\* last confirmed one: for as many frames as those boxes need at least, a place that
\* showed a target stays watched, also when the mask had closed it before.
MaskNeedsEvidence ==
    \A b \in missed :
        LET since == frame - confirmed[Centre(b)]
        IN  since = 0 \/ since > After \div BoxesMax

\* The row of a segment names what was found during that segment, and nothing of
\* the frames before it was opened.
RowOfItsSegment == recording => classes = found
=============================================================================
