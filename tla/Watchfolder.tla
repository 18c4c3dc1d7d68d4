----------------------------- MODULE Watchfolder -----------------------------
(***************************************************************************)
(* The command-line watch folder (utils/watchfolder.py): files that        *)
(* cameras and sync clients still write, the stability poll, the           *)
(* .processing and .ingested markers, and a daemon that is interrupted,    *)
(* fails or dies.                                                          *)
(*                                                                         *)
(* The content of a file is 0..Full; a file that is still empty is as good *)
(* as absent.  One poll is settle_seconds; a writer that has begun a file  *)
(* never pauses for more than PauseMax of them.  A daemon started with     *)
(* dry_run encodes nothing, but marks what it would have encoded.          *)
(***************************************************************************)
EXTENDS Integers, FiniteSets

CONSTANTS
    Files,
    Full,       \* size of a finished file
    Checks,     \* stable_checks
    PauseMax,   \* longest pause of a writer, in polls
    FaultsMax   \* bound on failures, Ctrl-C and crashes together

VARIABLES
    size,       \* size on disk by file, 0 before the first byte
    paused,     \* polls since the writer's last write
    marks,      \* markers on disk by file: subset of {"processing", "ingested"}
    daemon,     \* where the daemon is: off, sleep, scan, poll, encode, run, done
    todo,       \* candidates of this scan still to try
    current,    \* the file at hand, the size it was seen with, polls left
    dry,        \* dry_run of the daemon that runs
    how,        \* ghost: what marked a file ingested: an encode that read it to its
                \* end ("all"), whose reads ended early or that Ctrl-C cut, or a dry run
    taken,      \* ghost: how much of a file the encode that marked it had read
    faults

vars == <<size, paused, marks, daemon, todo, current, dry, how, taken, faults>>

Nobody == [file |-> CHOOSE f \in Files : TRUE, seen |-> 0, left |-> 0]

-----------------------------------------------------------------------------
\* The camera or the sync client.
Grow ==
    \E f \in Files :
        /\ size[f] < Full /\ size' = [size EXCEPT ![f] = @ + 1]
        /\ paused' = [paused EXCEPT ![f] = 0]
        /\ UNCHANGED <<marks, daemon, todo, current, dry, how, taken, faults>>

\* _find_candidates: supported files without an .ingested marker, listed once.
Scan ==
    /\ daemon = "sleep" /\ daemon' = "scan"
    /\ todo' = {f \in Files : size[f] > 0 /\ "ingested" \notin marks[f]}
    /\ UNCHANGED <<size, paused, marks, current, dry, how, taken, faults>>

EndScan ==
    /\ daemon = "scan" /\ todo = {} /\ daemon' = "sleep"
    /\ UNCHANGED <<size, paused, marks, todo, current, dry, how, taken, faults>>

\* The next candidate, whether or not its last encode was interrupted.
Try ==
    /\ daemon = "scan"
    /\ \E f \in todo :
          /\ todo' = todo \ {f}
          /\ daemon' = "poll" /\ current' = [file |-> f, seen |-> size[f], left |-> Checks]
    /\ UNCHANGED <<size, paused, marks, dry, how, taken, faults>>

\* _is_fully_written: settle_seconds pass, and the size must be as before; a writer in
\* the middle of a file has written again before its pause is up.
Settle ==
    /\ \A f \in Files : size[f] \in 1..(Full - 1) => paused[f] < PauseMax
    /\ paused' = [f \in Files |-> IF size[f] \in 1..(Full - 1) THEN paused[f] + 1 ELSE 0]
PollOnce ==
    /\ daemon = "poll" /\ Settle
    /\ daemon' = IF size[current.file] = current.seen THEN "encode" ELSE "scan"
    /\ UNCHANGED <<size, marks, todo, current, dry, how, taken, faults>>
Poll ==
    /\ daemon = "poll" /\ Settle
    /\ IF size[current.file] # current.seen
       THEN daemon' = "scan" /\ UNCHANGED current
       ELSE /\ current' = [current EXCEPT !.left = @ - 1]
            /\ daemon' = IF current.left = 1 THEN "encode" ELSE "poll"
    /\ UNCHANGED <<size, marks, todo, dry, how, taken, faults>>

\* The file is marked as ingested, after an encode or a dry run.
MarkIngested(manner, read) ==
    /\ marks' = [marks EXCEPT ![current.file] = @ \union {"ingested"}]
    /\ how' = [how EXCEPT ![current.file] = manner]
    /\ taken' = [taken EXCEPT ![current.file] = read]

\* _mark_processing, before the encode.
Mark ==
    /\ daemon = "encode" /\ ~dry
    /\ marks' = [marks EXCEPT ![current.file] = @ \union {"processing"}]
    /\ daemon' = "run" /\ UNCHANGED <<size, paused, todo, current, dry, how, taken, faults>>

\* A dry run skips the encode, not the mark.
MarkDry ==
    /\ daemon = "encode" /\ dry /\ daemon' = "scan"
    /\ MarkIngested("dry", 0)
    /\ UNCHANGED <<size, paused, todo, current, dry, faults>>

\* The folder cannot be listed, or one of these two marks cannot be written: nothing
\* catches that OSError, which ends the daemon.
MarkFails ==
    /\ daemon \in {"sleep", "encode"} /\ daemon' = "off"
    /\ faults < FaultsMax /\ faults' = faults + 1
    /\ UNCHANGED <<size, paused, marks, todo, current, dry, how, taken>>

\* run_pipeline returns because it gets no more frames, at the end of the file or after
\* a read that failed or stalled: .ingested first, then .processing goes.
EncodeEnds ==
    /\ daemon = "run" /\ daemon' = "done"
    /\ \/ MarkIngested("all", size[current.file])
       \/ \E n \in 0..(size[current.file] - 1) : MarkIngested("early", n)
    /\ UNCHANGED <<size, paused, todo, current, dry, faults>>

Clear ==
    /\ daemon = "done" /\ daemon' = "scan"
    /\ marks' = [marks EXCEPT ![current.file] = @ \ {"processing"}]
    /\ UNCHANGED <<size, paused, todo, current, dry, how, taken, faults>>

\* The encode, or the mark after it, raises: .processing stays and a later scan tries again.
EncodeFailsIngested ==
    /\ daemon = "run" /\ daemon' = "scan" /\ faults < FaultsMax /\ faults' = faults + 1
    /\ marks' = [marks EXCEPT ![current.file] = @ \union {"ingested"}]
    /\ UNCHANGED <<size, paused, todo, current, dry, how, taken>>
EncodeFails ==
    /\ daemon = "run" /\ daemon' = "scan" /\ faults < FaultsMax /\ faults' = faults + 1
    /\ UNCHANGED <<size, paused, marks, todo, current, dry, how, taken>>

\* Ctrl-C: in an encode run_pipeline catches it, flushes what it has and returns like at
\* the end of the file; anywhere else it ends the daemon.
Interrupt ==
    /\ daemon # "off" /\ faults < FaultsMax /\ faults' = faults + 1
    /\ IF daemon = "run"
       THEN daemon' = "done" /\ \E n \in 0..size[current.file] : MarkIngested("cut", n)
       ELSE daemon' = "off" /\ UNCHANGED <<marks, how, taken>>
    /\ UNCHANGED <<size, paused, todo, current, dry>>

\* The process dies, or is started; the markers are all that is left.
Crash ==
    /\ daemon # "off" /\ daemon' = "off" /\ faults < FaultsMax /\ faults' = faults + 1
    /\ UNCHANGED <<size, paused, marks, todo, current, dry, how, taken>>
Start ==
    /\ daemon = "off" /\ daemon' = "sleep" /\ todo' = {} /\ dry' \in BOOLEAN
    /\ UNCHANGED <<size, paused, marks, current, how, taken, faults>>

Init ==
    /\ size = [f \in Files |-> 0] /\ paused = [f \in Files |-> 0]
    /\ marks = [f \in Files |-> {}] /\ daemon = "sleep" /\ todo = {} /\ current = Nobody
    /\ dry \in BOOLEAN /\ how = [f \in Files |-> "none"] /\ taken = [f \in Files |-> 0]
    /\ faults = 0

Daemon == Scan \/ EndScan \/ Try \/ Poll \/ Mark \/ MarkDry \/ EncodeEnds \/ Clear \/ Start
Next == Grow \/ Daemon \/ MarkFails \/ EncodeFails \/ Interrupt \/ Crash
Fairness == WF_vars(Grow) /\ WF_vars(Daemon)
Spec == Init /\ [][Next]_vars /\ Fairness
-----------------------------------------------------------------------------
\* A file is hidden from later scans only once its writer is done with it, although it
\* may be listed half written or paused (_is_fully_written: "can even pause mid-copy";
\* writers pause less than the checks), and then only by an encode that returned or by a
\* dry run: never by one that failed or was cut by a crash.  An encode that returned read
\* all of it, unless its reads ended early or Ctrl-C cut it, which the daemon does not see.
IngestedWhole ==
    \A f \in Files : "ingested" \in marks[f] =>
        /\ size[f] = Full
        /\ taken[f] = Full \/ how[f] \in {"early", "cut", "dry"}

\* Every file that is written is ingested in the end, whatever failed before.
AllIngested == \A f \in Files : <>("ingested" \in marks[f])
=============================================================================
