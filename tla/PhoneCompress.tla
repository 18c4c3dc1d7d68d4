---------------------------- MODULE PhoneCompress ----------------------------
(***************************************************************************)
(* Compression on the phone (compress/CompressionWorker.kt and what it     *)
(* calls, ui/compress/CompressViewModel.kt): from the rate that is asked   *)
(* for, through one, two or three passes of the encoder, to the video in   *)
(* the gallery and its record in the history, from which the next job      *)
(* learns how much more it may ask for.                                    *)
(*                                                                         *)
(* Rates are in kbit/s, sizes in kbit.  The picture is a strip of Strip    *)
(* points; a detection is an interval of it.  Work that the system stops,  *)
(* or whose process dies, is run again from its start, with the files it   *)
(* left.  A job that replaces another waits here for what the other does   *)
(* between two suspension points.                                          *)
(***************************************************************************)
EXTENDS Integers, Sequences, FiniteSets, FiniteSetsExt

CONSTANTS
    Clips,      \* sources: [seconds, audio, rate]
    Limits,     \* size limits that may be asked for
    Preset,     \* the rate of the quality preset
    Audio,      \* AUDIO_RESERVE_BPS
    Floor,      \* MIN_VIDEO_BITRATE_BPS, MIN_SMART_COMPRESS_BITRATE_BPS
    Safe,       \* the rate the fallback is bounded by
    Shares,     \* percentages of the rate asked for that the encoder uses
    MinSamples, \* SizeCalibration.MIN_SAMPLES
    Boxes, Strip, MaxRegions,   \* detections <<lo, hi>>, points, RoiPlanner.MAX_REGIONS
    Pasts,      \* histories that earlier jobs may have left
    MaxJobs, MaxFaults          \* bounds

VARIABLES
    phone,      \* the encoder honours regions of interest
    order,      \* the request WorkManager holds
    at,         \* where doWork is
    local,      \* its variables: requestedBitrate, calibration, usedFallback, passBitrate, roiRequest
    temp,       \* the file in the cache: how it was made, or Nothing
    gallery,    \* rows of MediaStore, oldest first
    past,       \* compression_history.json: a record names its row, and a later one a higher row
    snapshot,   \* what append has read
    forgetting, \* what the library's delete has read
    jobs, faults

vars == <<phone, order, at, local, temp, gallery, past, snapshot, forgetting, jobs, faults>>

Nothing == [rate |-> 0, share |-> 0, sound |-> 0, fell |-> FALSE, regions |-> 0]
NoRow   == [visible |-> FALSE, content |-> "none", of |-> Nothing, order |-> "none"]
NoRead  == {[row |-> 0]}
Kbit(file, seconds) == ((file.rate * file.share) \div 100 + file.sound) * seconds

\* The rate for a limit (bitrateForTargetSize; a length not known counts as a second),
\* and the source's own rate as a ceiling (capToSourceBitrate).
TargetRate(limit, seconds, audio) == (Max({(limit \div seconds) - audio, Floor}) * 95) \div 100
Capped(rate, clip, audio) == Min({rate, Max({clip.rate - (IF audio THEN Audio ELSE 0), Floor})})

\* CompressViewModel.plan, from its own look at the file.
Planned(clip, limit, silent, known) ==
    LET audio == ~known \/ clip.audio
        rate  == IF limit = 0 THEN Preset
                 ELSE TargetRate(limit, IF known THEN clip.seconds ELSE 1,
                                 IF audio /\ ~silent THEN Audio ELSE 0)
    IN  IF known THEN Capped(rate, clip, audio) ELSE rate

\* SizeCalibration: the share of the job that fell short the least, of the last ten.
Sized   == {r \in past : r.limit > 0 /\ ~r.fell /\ r.share > 0}
Ratios  == {r.share : r \in {r \in Sized : Cardinality({q \in Sized : q.row > r.row}) < 10}}
Factor ==
    IF Cardinality(Sized) < MinSamples \/ Max(Ratios) >= 97 THEN 100
    ELSE Min({125, Max({100, 9700 \div Max(Ratios)})})

\* RoiPlanner: padded, merged where they touch, the largest first; nothing when they
\* cover more than six tenths of the picture.
Padded(box) ==
    LET by == ((box[2] - box[1]) * 15) \div 100
    IN  <<Max({0, box[1] - by}), Min({Strip, box[2] + by})>>
Joined(S, p) == \E b \in S : b[1] <= p /\ p + 1 <= b[2]
Merged(S) ==
    {r \in (0..Strip) \X (0..Strip) :
        /\ r[1] < r[2] /\ \A p \in r[1]..(r[2] - 1) : Joined(S, p)
        /\ ~Joined(S, r[1] - 1) /\ ~Joined(S, r[2])}
Size(r) == r[2] - r[1]
Regions(boxes) ==
    LET merged  == Merged({Padded(b) : b \in boxes})
        largest == {r \in merged : Cardinality({q \in merged : Size(q) > Size(r)}) < MaxRegions}
    IN  IF MapThenSumSet(Size, largest) * 10 > 6 * Strip THEN {} ELSE largest

\* RoiEncoderFactory: applied on an encoder that honours it, or an ordinary pass.
Outcomes(regions) == IF regions > 0 /\ phone THEN {0, regions} ELSE {0}

NoLocal == [rate |-> 0]
Fresh == [rate |-> order.rate, boost |-> 100, fell |-> FALSE, pass |-> 0, regions |-> 0, noted |-> 0]

-----------------------------------------------------------------------------
\* startCompress.
Start ==
    /\ at \in {"idle", "done", "failed", "cancelled"} /\ jobs < MaxJobs /\ jobs' = jobs + 1
    /\ \E clip \in Clips, limit \in Limits \union {0}, smart, silent, known \in BOOLEAN :
          order' = [clip |-> clip, limit |-> limit, smart |-> smart, silent |-> silent,
                    known |-> known, rate |-> Planned(clip, limit, silent, known)]
    /\ at' = "start"
    /\ UNCHANGED <<phone, local, temp, gallery, past, snapshot, forgetting, faults>>

\* doWork up to the first suspension: what earlier jobs teach, for a size limit.
Calibrate ==
    /\ at = "start" /\ at' = "analyze"
    /\ LET boost == IF order.limit > 0 THEN Factor ELSE 100
       IN  local' = [Fresh EXCEPT !.boost = boost, !.rate = (@ * boost) \div 100]
    /\ UNCHANGED <<phone, order, temp, gallery, past, snapshot, forgetting, jobs, faults>>

\* Smart Compress: a sweep that finds nothing cuts the rate, one that fails counts as
\* activity, one that finds something plans regions when the phone can use them and the
\* worker's probe could read the size.  Then the source's rate is the ceiling.
Analyze ==
    /\ at = "analyze" /\ at' = "encode"
    /\ \E probed, failed, sized \in BOOLEAN, boxes \in SUBSET Boxes :
          LET cut  == order.smart /\ ~failed /\ boxes = {}
              rate == IF cut THEN Max({(local.rate * 65) \div 100, Floor}) ELSE local.rate
          IN  local' = [local EXCEPT
                 !.rate = IF order.known /\ sized THEN Capped(rate, order.clip, ~probed \/ order.clip.audio) ELSE rate,
                 !.regions = IF order.smart /\ ~failed /\ phone /\ probed
                             THEN Cardinality(Regions(boxes)) ELSE 0]
    /\ UNCHANGED <<phone, order, temp, gallery, past, snapshot, forgetting, jobs, faults>>

\* runTransform: one pass, and the file it leaves.
Made(rate, share, fell, regions) ==
    [rate |-> rate, share |-> share, fell |-> fell, regions |-> regions,
     sound |-> IF order.clip.audio /\ ~order.silent THEN Audio ELSE 0]

EncodeNotesPlan ==
    /\ at = "encode"
    /\ \/ \E share \in Shares, regions \in Outcomes(local.regions) :
             /\ temp' = Made(local.rate, share, FALSE, regions)
             /\ local' = [local EXCEPT !.pass = local.rate, !.noted = local.regions] /\ at' = "check"
       \/ /\ temp' = Nothing /\ at' = "fallback"
          /\ local' = [local EXCEPT !.fell = TRUE, !.pass = Min({local.rate, Safe})]
    /\ UNCHANGED <<phone, order, gallery, past, snapshot, forgetting, jobs, faults>>
Encode ==
    /\ at = "encode"
    /\ \/ \E share \in Shares, regions \in Outcomes(local.regions) :
             /\ temp' = Made(local.rate, share, FALSE, regions)
             /\ local' = [local EXCEPT !.pass = local.rate, !.noted = regions] /\ at' = "check"
       \/ /\ temp' = Nothing /\ at' = "fallback"
          /\ local' = [local EXCEPT !.fell = TRUE, !.pass = Min({local.rate, Safe})]
    /\ UNCHANGED <<phone, order, gallery, past, snapshot, forgetting, jobs, faults>>

FallBack ==
    /\ at = "fallback"
    /\ \/ \E share \in Shares :
             /\ temp' = Made(local.pass, share, TRUE, 0)
             /\ local' = [local EXCEPT !.noted = 0] /\ at' = "check"
       \/ temp' = Nothing /\ at' = "failed" /\ local' = NoLocal
    /\ UNCHANGED <<phone, order, gallery, past, snapshot, forgetting, jobs, faults>>

\* A job that asked for more and came out over its limit is encoded again without.
Overshot == local.boost > 100 /\ Kbit(temp, order.clip.seconds) > order.limit
CheckNothing ==
    /\ at = "check" /\ at' = "insert"
    /\ UNCHANGED <<phone, order, local, temp, gallery, past, snapshot, forgetting, jobs, faults>>
Check ==
    /\ at = "check"
    /\ IF Overshot
       THEN /\ temp' = Nothing /\ at' = "encode"
            /\ local' = [local EXCEPT !.boost = 100, !.rate = (@ * 100) \div local.boost, !.fell = FALSE]
       ELSE at' = "insert" /\ UNCHANGED <<local, temp>>
    /\ UNCHANGED <<phone, order, gallery, past, snapshot, forgetting, jobs, faults>>

\* writeToMediaStore: a pending row, the bytes, and the row made visible.  Any of them
\* may fail, and what is there then stays.
Fails ==
    /\ at \in {"insert", "copy", "show"} /\ at' = "failed" /\ temp' = Nothing /\ local' = NoLocal
    /\ gallery' = IF at = "copy" THEN [gallery EXCEPT ![Len(gallery)].content = "part"] ELSE gallery
    /\ UNCHANGED <<phone, order, past, snapshot, forgetting, jobs, faults>>
InsertVisible ==
    /\ at = "insert" /\ at' = "copy"
    /\ gallery' = Append(gallery, [NoRow EXCEPT !.order = order, !.visible = TRUE])
    /\ UNCHANGED <<phone, order, local, temp, past, snapshot, forgetting, jobs, faults>>
Insert ==
    /\ at = "insert" /\ at' = "copy"
    /\ gallery' = Append(gallery, [NoRow EXCEPT !.order = order])
    /\ UNCHANGED <<phone, order, local, temp, past, snapshot, forgetting, jobs, faults>>
Copy ==
    /\ at = "copy" /\ at' = "show"
    /\ gallery' = [gallery EXCEPT ![Len(gallery)].content = "whole", ![Len(gallery)].of = temp]
    /\ UNCHANGED <<phone, order, local, temp, past, snapshot, forgetting, jobs, faults>>
Show ==
    /\ at = "show" /\ at' = "append"
    /\ gallery' = [gallery EXCEPT ![Len(gallery)].visible = TRUE] /\ temp' = Nothing
    /\ UNCHANGED <<phone, order, local, past, snapshot, forgetting, jobs, faults>>

\* CompressionHistoryStore.append reads and rewrites the file; the library's delete does
\* the same under the lock of another instance, after it has deleted the video.  A write
\* that fails leaves a file that reads as empty, and fails the job.
AppendRead ==
    /\ at = "append" /\ at' = "write" /\ snapshot' = past
    /\ UNCHANGED <<phone, order, local, temp, gallery, past, forgetting, jobs, faults>>
AppendWrite ==
    /\ at = "write"
    /\ \/ /\ at' = "done"
          /\ past' = snapshot \union
                {[row |-> Len(gallery), limit |-> order.limit, fell |-> local.fell, pass |-> local.pass,
                  share |-> gallery[Len(gallery)].of.share, regions |-> local.noted]}
       \/ at' = "failed" /\ past' = {}
    /\ snapshot' = NoRead /\ local' = NoLocal
    /\ UNCHANGED <<phone, order, temp, gallery, forgetting, jobs, faults>>
DeleteVideo ==
    /\ forgetting = NoRead
    /\ \E record \in past :
          /\ record.row > 0
          /\ gallery' = [gallery EXCEPT ![record.row] = NoRow]
          /\ forgetting' = {r \in past : r.row # record.row}
    /\ UNCHANGED <<phone, order, at, local, temp, past, snapshot, jobs, faults>>
DeleteRecord ==
    /\ forgetting # NoRead /\ past' = forgetting /\ forgetting' = NoRead
    /\ UNCHANGED <<phone, order, at, local, temp, gallery, snapshot, jobs, faults>>

-----------------------------------------------------------------------------
\* CompressViewModel.cancel, or a new job that replaces this one: takes effect where
\* doWork suspends; the file in the cache stays.
Cancel ==
    /\ at \in {"start", "analyze", "encode", "fallback"} /\ at' = "cancelled" /\ local' = NoLocal
    /\ UNCHANGED <<phone, order, temp, gallery, past, snapshot, forgetting, jobs, faults>>

\* The process dies; WorkManager runs the job again.
Dies ==
    /\ at \notin {"idle", "done", "failed", "cancelled"} /\ faults < MaxFaults /\ faults' = faults + 1
    /\ at' = "start" /\ local' = NoLocal /\ snapshot' = NoRead /\ forgetting' = NoRead
    /\ past' \in IF at = "write" \/ forgetting # NoRead THEN {past, {}} ELSE {past}
    /\ gallery' = IF at = "copy" THEN [gallery EXCEPT ![Len(gallery)].content = "part"] ELSE gallery
    /\ UNCHANGED <<phone, order, temp, jobs>>

Init ==
    /\ phone \in BOOLEAN /\ past \in Pasts
    /\ order = [clip |-> "none"] /\ at = "idle" /\ local = NoLocal
    /\ temp = Nothing /\ gallery = <<>>
    /\ snapshot = NoRead /\ forgetting = NoRead /\ jobs = 0 /\ faults = 0

Next ==
    \/ Start \/ Calibrate \/ Analyze \/ Encode \/ FallBack \/ Check
    \/ Insert \/ Copy \/ Show \/ Fails \/ AppendRead \/ AppendWrite
    \/ DeleteVideo \/ DeleteRecord \/ Cancel \/ Dies
Spec == Init /\ [][Next]_vars
-----------------------------------------------------------------------------
Shown == {gallery[j] : j \in {j \in DOMAIN gallery : gallery[j].visible}}

\* No video over the limit that was asked for is handed out, however far the job was
\* told to overshoot by the ones before it, cut, capped or sent to the fallback
\* (CompressionWorker: "Never hand back a file over the user's limit"), given that the
\* length was known, the limit leaves the least rate, and the encoder keeps to its own.
LimitKept ==
    \A row \in Shown :
        (/\ row.order.limit > 0 /\ row.order.known
         /\ (row.order.limit \div row.order.clip.seconds) - row.of.sound >= Floor)
        => Kbit(row.of, row.order.clip.seconds) <= row.order.limit

\* What the gallery shows is complete, whatever fails or dies on the way
\* (writeToMediaStore: "an interrupted job leaves an invisible pending row instead of a
\* corrupt visible file").
ShownWhole == \A row \in Shown : row.content = "whole"

\* The history says of a job how its video was really made: the pass it came from, what
\* that was asked for, and the regions it was given; the next jobs learn from it.
RecordsTruthful ==
    \A record \in past : record.row > 0 /\ gallery[record.row].visible =>
        LET of == gallery[record.row].of
        IN  record.fell = of.fell /\ record.pass = of.rate /\ record.regions = of.regions
=============================================================================
