----------------------------- MODULE VmafSearch -----------------------------
(***************************************************************************)
(* Rate control by target quality (compression/vmaf_target.py): the search *)
(* for the largest CRF whose sampled VMAF still meets the target, its      *)
(* fallbacks and its cache.  A run of the pipeline asks for one search     *)
(* after another of the same clip (pipeline.py).                           *)
(*                                                                         *)
(* What the samples score at each CRF is a function chosen when a clip is  *)
(* first searched; it need not fall as the CRF rises.  Scores are small    *)
(* numbers, the CRF window is Lo..Hi.                                      *)
(***************************************************************************)
EXTENDS Integers, FiniteSets, FiniteSetsExt

CONSTANTS
    Lo, Hi,     \* the search window (crf_bounds)
    MaxScore,   \* scores are 0..MaxScore
    Target,     \* the target, clamped to its band
    Fixed,      \* the CRF of the caller
    MaxProbes,  \* MAX_PROBES
    MaxSearches \* bound on the searches of one behaviour

VARIABLES
    quality,    \* score of the samples by CRF
    step,         \* where the search is
    measured,   \* CRFs measured so far
    best,       \* largest CRF measured to meet the target, or None
    lower, upper,   \* probe_lo, probe_hi
    probes,     \* probes left
    answer,     \* the result: CRF and the reason for a fallback, or None
    kept,      \* the CRF kept for this clip, or None
    searches

vars == <<quality, step, measured, best, lower, upper, probes, answer, kept, searches>>

CRFs == Lo..Hi
None == Lo - 1
Above == {c \in measured : quality[c] >= Target}
Below == measured \ Above
Clamp(lo, hi, x) == Max({lo, Min({hi, x})})

\* int(round(a / b)) of Python, for b > 0: a half goes to the even neighbour.
Rounded(a, b) ==
    LET q == a \div b
        r == 2 * (a % b)
    IN  IF r > b \/ (r = b /\ q % 2 = 1) THEN q + 1 ELSE q

\* interpolate_crf: the next CRF, from the closest measurements around the target.
Interpolate ==
    IF Above # {} /\ Below # {}
    THEN LET cl == Max(Above)
             ch == Min(Below)
         IN  IF ch - cl <= 1 THEN cl
             ELSE Clamp(cl + 1, ch - 1,
                        Rounded(cl * (quality[cl] - quality[ch])
                                  + (quality[cl] - Target) * (ch - cl),
                                quality[cl] - quality[ch]))
    ELSE (lower + upper) \div 2

Probe == Clamp(Lo, Hi, Interpolate)

-----------------------------------------------------------------------------
\* A search of the clip: a first one meets its scores for the first time.  No
\* file, no FFmpeg or a failed sample end it with the fixed CRF.
Begin ==
    /\ step \in {"idle", "done"} /\ searches < MaxSearches /\ searches' = searches + 1
    /\ IF searches = 0 THEN quality' \in [CRFs -> 0..MaxScore] ELSE UNCHANGED quality
    /\ measured' = {} /\ best' = None /\ lower' = Lo /\ upper' = Hi /\ probes' = MaxProbes
    /\ \/ step' = "probe" /\ kept = None /\ answer' = <<None, "none">>
       \/ step' = "done" /\ answer' = <<Fixed, "cannot run">>
       \/ step' = "done" /\ kept # None /\ answer' = <<kept, "none">>
    /\ UNCHANGED kept

Finish ==
    /\ step' = "done"
    /\ IF best' # None
       THEN answer' = <<best', "none">> /\ (kept' = best' \/ UNCHANGED kept)
       ELSE answer' = <<Fixed, "target not met">> /\ UNCHANGED kept

\* The window moves past the CRF that met the target.
MeasureSkipsOne ==
    /\ step = "probe" /\ Probe \notin measured
    /\ measured' = measured \union {Probe} /\ probes' = probes - 1
    /\ IF quality[Probe] >= Target
       THEN best' = Max({best, Probe}) /\ lower' = Probe + 1 /\ UNCHANGED upper
       ELSE upper' = Probe /\ UNCHANGED <<best, lower>>
    /\ IF upper' - lower' <= 1 \/ probes' = 0 THEN Finish ELSE UNCHANGED <<step, answer, kept>>
    /\ UNCHANGED <<quality, searches>>

\* The samples are encoded at the next CRF and scored.
Measure ==
    /\ step = "probe" /\ Probe \notin measured
    /\ measured' = measured \union {Probe} /\ probes' = probes - 1
    /\ IF quality[Probe] >= Target
       THEN best' = Max({best, Probe}) /\ lower' = Probe /\ UNCHANGED upper
       ELSE upper' = Probe /\ UNCHANGED <<best, lower>>
    /\ IF upper' - lower' <= 1 \/ probes' = 0 THEN Finish ELSE UNCHANGED <<step, answer, kept>>
    /\ UNCHANGED <<quality, searches>>

\* An encode or the measurement fails, or the next CRF has been measured before:
\* what is known decides.
MeasureFailsLoosely ==
    /\ step = "probe"
    /\ best' = Max({best, Probe}) /\ Finish
    /\ UNCHANGED <<quality, measured, lower, upper, probes, searches>>
MeasureFails ==
    /\ step = "probe"
    /\ UNCHANGED best /\ Finish
    /\ UNCHANGED <<quality, measured, lower, upper, probes, searches>>

\* An exception anywhere: the fixed CRF.
SearchError ==
    /\ step = "probe"
    /\ step' = "done" /\ answer' = <<Fixed, "error">>
    /\ UNCHANGED <<quality, measured, best, lower, upper, probes, kept, searches>>

Init ==
    /\ quality = [c \in CRFs |-> 0]
    /\ step = "idle" /\ measured = {} /\ best = None /\ lower = Lo /\ upper = Hi /\ probes = 0
    /\ answer = <<None, "none">> /\ kept = None /\ searches = 0

Next == Begin \/ Measure \/ MeasureFails \/ SearchError
Spec == Init /\ [][Next]_vars
-----------------------------------------------------------------------------
Monotone == \A c \in Lo..(Hi - 1) : quality[c] >= quality[c + 1]

\* A CRF that the search or its cache answers with meets the target on the
\* samples, whatever failed on the way and however the scores behave
\* (find_crf_for_target: never "silently shipping a clip below the quality floor").
MeetsTarget ==
    step = "done" /\ answer[2] = "none" => answer[1] \in CRFs /\ quality[answer[1]] >= Target

\* When scores fall as the CRF rises, a search that narrows its window to two
\* neighbours has found the largest CRF below the window's end that meets the target
\* ("returns the LARGEST CRF ... whose VMAF still meets the target"); the ends of the
\* window themselves are never measured.
NarrowsToLargest ==
    (step = "done" /\ Monotone /\ best # None /\ upper - lower <= 1)
        => answer[1] = best /\ \A c \in (best + 1)..(Hi - 1) : quality[c] < Target
=============================================================================
