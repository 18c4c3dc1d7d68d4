------------------------------- MODULE Plates -------------------------------
(***************************************************************************)
(* Reading a licence plate from a saved clip (enhancement/plate_reader.py, *)
(* gui/routes/plates_bp.py): the choice of an OCR engine, the walk over    *)
(* every Stride-th frame, the looks at each crop, the votes of the frames  *)
(* for a text, the verdict and the best read.                              *)
(*                                                                         *)
(* Texts stand for what is left after normalisation; confidences are in    *)
(* tenths.  Upscaling changes no state, and its failure falls back.        *)
(***************************************************************************)
EXTENDS Integers, Sequences, FiniteSets, SequencesExt

CONSTANTS
    Texts,      \* plate texts of four to nine letters and digits
    NoText,     \* anything else that an engine reads
    Levels,     \* confidences, in tenths
    MinLevel,   \* min_ocr_confidence
    MinVotes,   \* min_consensus_votes
    Stride, CapMax,         \* sample_every_n_frames, max_frames
    LengthMax, LooksMax     \* bounds on the clip and on the looks of a frame

Engines == <<"onnx", "easyocr", "paddleocr", "tesseract">>

VARIABLES
    engine,     \* the OCR engine, or "none"
    stage,      \* where the request is
    length,     \* frames that the clip can give
    at,         \* frame_idx
    examined,   \* frames looked at
    reads,      \* what was read, in order: text, frame, confidence
    result      \* the answer

vars == <<engine, stage, length, at, examined, reads, result>>

-----------------------------------------------------------------------------
\* _select_backend: the first engine that is there, or exactly the one asked for.
Selected(prefer, there) ==
    LET ok == SelectSeq(Engines, LAMBDA e : e \in there /\ prefer \in {e, "auto"})
    IN  IF ok = <<>> THEN "none" ELSE ok[1]

\* An engine's ocr: a text and a confidence for each line or plate it sees, and nothing
\* when it raises.
EngineReads == [text : Texts \union {NoText}, conf : Levels]

\* _crops_for_frame: every crop of the frame is looked at once, or once per plate that a
\* detector finds in it.
Looks == UNION {[1..n -> EngineReads] : n \in 0..LooksMax}

\* _normalise_plate_text and the confidence floor.
Counts(look) == look.text \in Texts /\ look.conf >= MinLevel

-----------------------------------------------------------------------------
(* Votes and verdicts *)

ReadsOf(t)  == SelectSeq(reads, LAMBDA r : r.text = t)
Votes(t)    == Len(ReadsOf(t))
Support(t)  == {r.frame : r \in ToSet(ReadsOf(t))}
ConfSum(t)  == FoldSeq(LAMBDA r, sum : r.conf + sum, 0, ReadsOf(t))

\* _score_candidate: the verdict, and the score in thousandths.
VerdictEager(t) ==
    IF Votes(t) >= 3 /\ ConfSum(t) >= 6 * Votes(t) THEN "high"
    ELSE IF Votes(t) >= 1 /\ ConfSum(t) >= 5 * Votes(t) THEN "medium"
    ELSE "uncertain"
Verdict(t) ==
    IF Votes(t) >= 3 /\ ConfSum(t) >= 6 * Votes(t) THEN "high"
    ELSE IF Votes(t) >= 2 /\ ConfSum(t) >= 5 * Votes(t) THEN "medium"
    ELSE IF ConfSum(t) >= 7 * Votes(t) THEN "low"
    ELSE "uncertain"
Score(t) ==
    LET quarters == IF examined > 12 THEN examined ELSE 12
        capped   == IF 4 * Votes(t) > quarters THEN quarters ELSE 4 * Votes(t)
        num == 60 * ConfSum(t) * quarters + 400 * capped * Votes(t)
        den == Votes(t) * quarters
    IN  (2 * num + den) \div (2 * den)

\* Texts with enough votes; the best has the highest score, then the most votes,
\* then it was read first.
Candidates  == {t \in Texts : Votes(t) >= MinVotes /\ Votes(t) > 0}
FirstRead(t) == CHOOSE i \in DOMAIN reads : reads[i].text = t /\ \A j \in 1..(i - 1) : reads[j].text # t
Before(t, u) ==
    \/ Score(t) > Score(u)
    \/ Score(t) = Score(u) /\ Votes(t) > Votes(u)
    \/ Score(t) = Score(u) /\ Votes(t) = Votes(u) /\ FirstRead(t) <= FirstRead(u)
Best == CHOOSE t \in Candidates : \A u \in Candidates : Before(t, u)

-----------------------------------------------------------------------------
(* One request *)

\* api_plate_reader: refused before anything is read, or a clip that may be broken.
Refuse ==
    /\ stage = "new" /\ stage' = "done" /\ result' = [outcome |-> "refused"]
    /\ UNCHANGED <<engine, length, at, examined, reads>>
Open ==
    /\ stage = "new"
    /\ \E n \in 0..LengthMax : length' = n
    /\ \E prefer \in {"auto", "onnx", "tesseract"}, there \in SUBSET {"onnx", "tesseract"} :
          engine' = Selected(prefer, there)
    /\ stage' = "walk"
    /\ UNCHANGED <<at, examined, reads, result>>

Sampled == at % Stride = 0
\* Grabbed frames are counted as examined.
GrabCounts ==
    /\ stage = "walk" /\ examined < CapMax /\ ~Sampled /\ at < length
    /\ at' = at + 1 /\ examined' = examined + 1
    /\ UNCHANGED <<engine, stage, length, reads, result>>

Grab ==
    /\ stage = "walk" /\ examined < CapMax /\ ~Sampled /\ at < length
    /\ at' = at + 1
    /\ UNCHANGED <<engine, stage, length, examined, reads, result>>

ReadFrame ==
    /\ stage = "walk" /\ examined < CapMax /\ Sampled /\ at < length
    /\ \E looks \in IF engine = "none" THEN {<<>>} ELSE Looks :
          reads' = reads \o [i \in DOMAIN SelectSeq(looks, Counts) |->
                     [text |-> SelectSeq(looks, Counts)[i].text, frame |-> at,
                      conf |-> SelectSeq(looks, Counts)[i].conf]]
    /\ at' = at + 1 /\ examined' = examined + 1
    /\ UNCHANGED <<engine, stage, length, result>>

\* The clip ends, or enough frames have been examined: the answer.
Rank ==
    /\ stage = "walk" /\ (examined = CapMax \/ at = length)
    /\ stage' = "done"
    /\ result' = [outcome |-> "read", verdicts |-> [t \in Candidates |-> Verdict(t)],
                  best |-> IF Candidates = {} THEN NoText ELSE Best]
    /\ UNCHANGED <<engine, length, at, examined, reads>>

\* Any exception of the reader: an error reply.
ReaderFails ==
    /\ stage = "walk" /\ stage' = "done" /\ result' = [outcome |-> "failed"]
    /\ UNCHANGED <<engine, length, at, examined, reads>>

Init ==
    /\ engine = "none" /\ stage = "new" /\ length = 0 /\ at = 0 /\ examined = 0
    /\ reads = <<>> /\ result = [outcome |-> "none"]

Next == Refuse \/ Open \/ Grab \/ ReadFrame \/ Rank \/ ReaderFails
Spec == Init /\ [][Next]_vars
-----------------------------------------------------------------------------
(* Properties *)

Capped(t) ==
    /\ result.verdicts[t] = "high"   => Cardinality(Support(t)) >= 3
    /\ result.verdicts[t] = "medium" => Cardinality(Support(t)) >= 2

\* When no frame reads a text twice, a verdict above "low" has that many frames
\* behind it ("the verdict caps at "low" until at least two frames agree").
VerdictCapped ==
    result.outcome = "read" =>
        \A t \in DOMAIN result.verdicts : Votes(t) = Cardinality(Support(t)) => Capped(t)

\* The frames behind the reads are spread over the clip: the examined frames are
\* every Stride-th one from the first, so the cap is a cap on looks and not on the
\* stretch of the clip that is looked at.
SamplesSpread ==
    /\ \A r \in ToSet(reads) : r.frame % Stride = 0 /\ r.frame \div Stride < examined
    /\ stage = "walk" => examined = (at + Stride - 1) \div Stride
=============================================================================
