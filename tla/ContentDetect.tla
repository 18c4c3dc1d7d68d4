---------------------------- MODULE ContentDetect ---------------------------
(***************************************************************************)
(* Which preset a clip calls for (pipeline/content_detect.py and           *)
(* /api/detect_content): the first seconds of the clip are read, every     *)
(* Step-th frame goes through the background subtractor, and what moves    *)
(* after the subtractor's warm-up decides.                                 *)
(*                                                                         *)
(* Of a frame only the share of its pixels that the subtractor finds       *)
(* moving is kept, in thousandths.                                         *)
(***************************************************************************)
EXTENDS Integers, Sequences, SequencesExt, FiniteSets

CONSTANTS
    Shares,     \* the shares of moving pixels that occur
    Step,       \* source frames to a sampled one
    MaxFrames,  \* max_src_frames: max_seconds of source frames
    Length,     \* bound: the frames of a clip
    Warmup,     \* WARMUP_FRAMES
    Moving,     \* ACTIVE_PIXEL_FRAC, in thousandths
    Static,     \* STATIC_MEAN_FG_FRAC, in thousandths
    Close,      \* CLOSE_SUBJECT_FG_FRAC, in thousandths
    Idle, Busy  \* IDLE_ACTIVITY_FRAC and BUSY_ACTIVITY_FRAC, in hundredths

VARIABLES
    clip,       \* the frames read so far
    warmed,     \* sampled frames
    fractions,  \* fg_fracs
    advice      \* the recommended preset, "unknown" while there is none

vars == <<clip, warmed, fractions, advice>>

Default == "continuous_cctv"     \* DEFAULT_PRESET
Total(f) == FoldLeft(LAMBDA sum, share : sum + share, 0, f)
Active(f) == SelectSeq(f, LAMBDA share : share >= Moving)

\* recommend_preset, with the ratios of analyze_video multiplied out: what happens seldom
\* and is small, what happens nearly all the time, what is near, and the rest.
RecommendCloseFirst(f) ==
    LET n == Len(f)  active == Active(f)
    IN  CASE n = 0 -> Default
          [] 100 * Len(active) < Idle * n /\ Total(f) < Static * n -> "continuous_cctv"
          [] Total(active) >= Close * Len(active) -> "doorbell"
          [] 100 * Len(active) >= Busy * n -> "active_scene"
          [] OTHER -> "motion_event"
Recommend(f) ==
    LET n == Len(f)  active == Active(f)
        seldom == 100 * Len(active) < Idle * n /\ Total(f) < Static * n
        often  == 100 * Len(active) >= Busy * n
        near   == active # <<>> /\ Total(active) >= Close * Len(active)
    IN  IF n = 0 THEN Default
        ELSE IF seldom THEN "continuous_cctv"
        ELSE IF often THEN "active_scene"
        ELSE IF near THEN "doorbell" ELSE "motion_event"

-----------------------------------------------------------------------------
\* The file is missing or no decoder opens it: the request is refused.
Refuse == advice = "unknown" /\ clip = <<>> /\ advice' = "refused" /\ UNCHANGED <<clip, warmed, fractions>>

\* One frame of the source; the index of the first is 0.
ReadEveryWarm ==
    /\ advice = "unknown" /\ Len(clip) < MaxFrames /\ Len(clip) < Length
    /\ \E share \in Shares :
          /\ clip' = Append(clip, share)
          /\ IF Len(clip) % Step = 0
             THEN warmed' = warmed + 1 /\ fractions' = IF warmed' >= Warmup THEN Append(fractions, share) ELSE fractions
             ELSE UNCHANGED <<warmed, fractions>>
    /\ UNCHANGED advice
Read ==
    /\ advice = "unknown" /\ Len(clip) < MaxFrames /\ Len(clip) < Length
    /\ \E share \in Shares :
          /\ clip' = Append(clip, share)
          /\ IF Len(clip) % Step = 0
             THEN warmed' = warmed + 1 /\ fractions' = IF warmed' > Warmup THEN Append(fractions, share) ELSE fractions
             ELSE UNCHANGED <<warmed, fractions>>
    /\ UNCHANGED advice

\* The clip ends, or the window does.
Answer ==
    /\ advice = "unknown"
    /\ advice' = Recommend(fractions)
    /\ UNCHANGED <<clip, warmed, fractions>>

Init == clip = <<>> /\ warmed = 0 /\ fractions = <<>> /\ advice = "unknown"
Next == Refuse \/ Read \/ Answer
Spec == Init /\ [][Next]_vars
-----------------------------------------------------------------------------
\* The sampled frames are those at multiples of Step that follow the first Warmup of them.
Sampled == LET last == Len(clip) - 1
           IN  [i \in 1..Cardinality({k \in 0..last : k % Step = 0 /\ k >= Warmup * Step}) |->
                    clip[(Warmup + i - 1) * Step + 1]]

\* The advice rests on the sampled frames of the window and on no other: neither the frames
\* between nor those of the warm-up, in which the subtractor takes everything for moving,
\* change it.
AdviceOfSample ==
    /\ fractions = Sampled
    /\ advice \notin {"unknown", "refused"} => advice = Recommend(Sampled)

\* A clip in which any sampled frame moved more is never advised a quieter preset: the
\* branches of the tree are in an order in which no threshold is overtaken by another.
Quiet(preset) == CASE preset = "continuous_cctv" -> 2 [] preset = "active_scene" -> 0 [] OTHER -> 1
AdviceMonotone ==
    advice \notin {"unknown", "refused"} =>
        \A i \in DOMAIN fractions, share \in Shares :
            share >= fractions[i] =>
                Quiet(Recommend([fractions EXCEPT ![i] = share])) <= Quiet(advice)
=============================================================================
