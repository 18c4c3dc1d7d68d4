------------------------------ MODULE Enhancer ------------------------------
(***************************************************************************)
(* Super-resolution (enhancement/enhancer.py) and what the pipeline and    *)
(* the encoder make of a picture whose size it changes (pipeline.py,       *)
(* compression/roi_encoder.py): the chain of fallbacks that ends in a      *)
(* model or in bicubic, the upscaled frames of an open segment, and the    *)
(* background and boxes that have to fit them.                             *)
(*                                                                         *)
(* The size of a picture is its factor over the source's frames.           *)
(***************************************************************************)
EXTENDS Integers, FiniteSets, FiniteSetsExt

CONSTANTS
    Models,     \* model ids, "bicubic" and those below
    Ships,      \* scales that each dnn_superres model ships
    Rrdb,       \* the RRDBNet models, always x4
    Scales,     \* _VALID_SCALES
    FramesMax   \* bound on the frames of a run

VARIABLES
    wanted,     \* model, scale and device asked for, and upscale_output
    machine,    \* what is installed: weights, packages, a GPU, enough memory
    loading,    \* where __init__ is: start, retry, done
    model,      \* the upsampler built: its kind, scale and device, or none
    using,      \* _using_nn
    active,     \* _active_scale
    opened,     \* factor of the open pipe, 0 when none is open
    written,    \* factors of the picture and of the boxes written last
    background, \* factor of current_bg_frame, 0 when there is none
    clean,      \* last_clean_background is set
    count       \* frames so far

vars == <<wanted, machine, loading, model, using, active, opened, written, background, clean, count>>

NoModel == [kind |-> "none", scale |-> 0, device |-> "-"]
Parts == {"weights", "package", "torch", "gpu", "memory"}
Bicubic == wanted.model = "bicubic"

\* _nearest_supported_scale: the first of the nearest.
Distance(s) == IF s < wanted.scale THEN wanted.scale - s ELSE s - wanted.scale
Nearest ==
    LET ships == Ships[wanted.model]
    IN  Min({s \in ships : \A t \in ships : Distance(s) <= Distance(t)})

\* _resolve_device, after detect_gpu when no device is asked for.
Device ==
    IF /\ {"torch", "gpu", "memory"} \subseteq machine
       /\ wanted.device \in {"auto", "gpu"}
    THEN "gpu" ELSE "cpu"

Loaded(kind, scale, device) ==
    /\ model' = [kind |-> kind, scale |-> scale, device |-> device]
    /\ using' = TRUE /\ active' = scale /\ loading' = "done"

-----------------------------------------------------------------------------
\* _load_dnn_superres: weights, then an OpenCV that has the module, then the model.
LoadDnn ==
    /\ loading = "start" /\ wanted.model \in DOMAIN Ships
    /\ \/ {"weights", "package"} \subseteq machine /\ Loaded("dnn", Nearest, "cpu")
       \/ loading' = "done" /\ UNCHANGED <<model, using, active>>
    /\ UNCHANGED <<wanted, machine, opened, written, background, clean, count>>

\* _load_rrdbnet: packages, weights; the scale is set before the model is built, on the
\* GPU or, when that fails, on the CPU.
BuildRrdb ==
    /\ loading = "start" /\ wanted.model \in Rrdb
    /\ IF {"weights", "package", "torch"} \subseteq machine
       THEN \/ Loaded("rrdb", 4, Device)
            \/ /\ active' = 4 /\ loading' = IF Device = "gpu" THEN "retry" ELSE "done"
               /\ UNCHANGED <<model, using>>
       ELSE loading' = "done" /\ UNCHANGED <<model, using, active>>
    /\ UNCHANGED <<wanted, machine, opened, written, background, clean, count>>

RetryQuietly ==
    /\ loading = "retry" /\ using' = TRUE /\ active' = 4 /\ loading' = "done"
    /\ model' \in {NoModel, [kind |-> "rrdb", scale |-> 4, device |-> "cpu"]}
    /\ UNCHANGED <<wanted, machine, opened, written, background, clean, count>>
RetryOnCpu ==
    /\ loading = "retry"
    /\ \/ Loaded("rrdb", 4, "cpu")
       \/ model' = NoModel /\ using' = FALSE /\ loading' = "done" /\ UNCHANGED active
    /\ UNCHANGED <<wanted, machine, opened, written, background, clean, count>>

LoadNothing ==
    /\ loading = "start" /\ Bicubic /\ loading' = "done"
    /\ UNCHANGED <<wanted, machine, model, using, active, opened, written, background, clean, count>>

\* backend: what the run reports, and what pipeline.py warns by.
Backend == IF using THEN <<wanted.model, model.device>> ELSE <<"bicubic", "-">>

\* upscale_frame: a loaded model at its own scale, bicubic at the one asked for.
Factor == IF using /\ model.kind # "none" THEN model.scale ELSE wanted.scale
Upscaled == IF wanted.upscale THEN Factor ELSE 1

\* A skipped frame of mode 2, after which a clean background is known; with a segment
\* open it becomes the background of the frames to come, as it was read.
LearnBackground ==
    /\ loading = "done" /\ count < FramesMax /\ count' = count + 1
    /\ clean' = TRUE /\ background' = IF opened # 0 /\ background # 0 THEN 1 ELSE background
    /\ UNCHANGED <<wanted, machine, loading, model, using, active, opened, written>>

\* A frame that is kept: upscaled, a segment opened for it with a background of its own
\* size (zeros_like the frame when no clean one is known), boxes multiplied by the scale
\* asked for, and the boxes' pixels copied onto the background.
OpenAtSource ==
    IF opened # 0 THEN UNCHANGED <<opened, background>>
    ELSE opened' = 1 /\ background' \in {0, IF clean THEN Upscaled ELSE 1}
Open ==
    IF opened # 0 THEN UNCHANGED <<opened, background>>
    ELSE opened' = Upscaled /\ background' \in {0, Upscaled}
KeepFrame ==
    /\ loading = "done" /\ count < FramesMax /\ count' = count + 1
    /\ Open
    /\ written' = [picture |-> IF background' = 0 THEN Upscaled ELSE background',
                   boxes |-> IF wanted.upscale THEN wanted.scale ELSE 1]
    /\ UNCHANGED <<wanted, machine, loading, model, using, active, clean>>

CloseSegment ==
    /\ opened # 0 /\ opened' = 0 /\ background' = 0 /\ written' = [picture |-> 0, boxes |-> 0]
    /\ UNCHANGED <<wanted, machine, loading, model, using, active, clean, count>>

Init ==
    /\ wanted \in [model : Models, scale : Scales, device : {"auto", "gpu", "cpu"}, upscale : BOOLEAN]
    /\ machine \in SUBSET Parts
    /\ loading = "start" /\ model = NoModel /\ using = FALSE /\ active = wanted.scale
    /\ opened = 0 /\ written = [picture |-> 0, boxes |-> 0] /\ background = 0
    /\ clean = FALSE /\ count = 0

Next ==
    \/ LoadDnn \/ BuildRrdb \/ RetryOnCpu \/ LoadNothing
    \/ LearnBackground \/ KeepFrame \/ CloseSegment
Spec == Init /\ [][Next]_vars
-----------------------------------------------------------------------------
\* Whatever step of the load fails, the run names a model exactly when frames go through
\* it, on the device it was built for, at a scale it ships (Enhancer.backend: "so callers
\* can tell the difference between AI ran and AI was requested but silently didn't run").
\* active_scale is "the scale actually in effect", but after an RRDBNet model that could
\* not be built: it says 4 then, while bicubic runs at the scale asked for.
BackendTruthful ==
    loading = "done" =>
        /\ (Backend[1] # "bicubic") = (model.kind # "none")
        /\ model.kind = "rrdb" => Backend = <<wanted.model, model.device>> /\ active = 4
        /\ model.kind = "dnn" => active \in Ships[wanted.model] /\ model.device = "cpu"
        /\ active = Factor \/ (wanted.model \in Rrdb /\ model.kind = "none" /\ active = 4)

\* Every picture written has the size its pipe was opened with, whichever model upscales,
\* unless it is composed on a background of another size.
PipeFits == written.picture # 0 /\ background \in {0, opened} => written.picture = opened

\* The boxes of a frame are scaled as the frame that its pipe was opened for, so that what
\* is cut out and measured is what was detected; but when a loaded model runs at another
\* scale than the one asked for, by which the boxes are multiplied ("Bounding box
\* coordinates are scaled to match the upscaled frame", pipeline.py:924).
BoxesFit ==
    written.picture # 0 /\ written.boxes # opened =>
        wanted.upscale /\ model.kind # "none" /\ model.scale # wanted.scale

\* A picture is composed on a background of its size (pipeline.py: "If output is being
\* upscaled, the background must match the upscaled frame dimensions"); one that is learned
\* while a segment is open has the source's, and so has what is written to the pipe.
ComposedFits == written.picture # 0 => written.picture = opened
=============================================================================
