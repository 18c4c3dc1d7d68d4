---------------------------- MODULE AutoCompress ----------------------------
(***************************************************************************)
(* The auto-compress service (src/gui/services/autocompress_runner.py):    *)
(* passes over a watched folder that encode every new clip into            *)
(* <output_dir>/compressed, record it in the compressed index, and, when   *)
(* asked to, delete the original.                                          *)
(*                                                                         *)
(* A pass is a daemon thread (it loops until its stop event) or one POST   *)
(* /api/autocompress/scan_now request (one scan, no stop event).  Nothing  *)
(* keeps two passes off the same clip, so every file-system step of a pass *)
(* is an action of its own.  Sentinels, clips, outputs and the index live  *)
(* on disk and survive a Crash; everything else is process memory.         *)
(***************************************************************************)
EXTENDS Naturals, FiniteSets

CONSTANTS
    Sources,      \* clips in the watched folder
    Daemons,      \* possible daemon threads, each with the request that starts it
    Requests,     \* scan_now requests
    Deleters,     \* the passes run with delete_original = True
    Prefix,       \* <<s, t>> : the output names of t start with the camera_id of s
    Empty,        \* <<p, s>> : p's mode keeps no frame of s, so no file is written
    ShortReads,   \* <<p, s>> : p's reads of s may end early, with no error
    IndexFaults,  \* what a failed index write may do: "kept", "emptied"
    MaxOut,       \* bound on output files per clip
    MaxCrash,     \* bound on process crashes
    None          \* no file, no pass

Passes  == Daemons \union Requests
Outputs == Sources \X (1..MaxOut)

ASSUME PassAssumption   == Daemons \intersect Requests = {} /\ Deleters \subseteq Passes
ASSUME PrefixAssumption == Prefix \subseteq Sources \X Sources /\ \A s \in Sources : <<s, s>> \in Prefix
ASSUME EmptyAssumption  == Empty \subseteq Passes \X Sources
ASSUME ReadAssumption   == ShortReads \subseteq Passes \X Sources
ASSUME BoundAssumption  == MaxOut \in Nat /\ MaxCrash \in Nat /\ IndexFaults \subseteq {"kept", "emptied"}
ASSUME NoneAssumption   == None \notin Sources \union Outputs \union Passes

\* The state of an output file.  "cut" is decodable but stops before the clip
\* does, "broken" is empty or undecodable, "purged" was deleted by retention.
OutStates == {"none", "writing", "full", "cut", "broken", "purged"}

\* Where a pass stands.  A daemon is dead, between scans ("loop", "retain") or
\* inside scan_once; a request is dead or inside scan_once.
PassPCs == {"off", "loop", "files", "encode", "encoded", "verify", "record",
            "delete", "retain"}

VARIABLES
    \* on disk
    present,      \* clips that still exist
    ingested,     \* clips with a .ingested sentinel
    out,          \* output files
    mtime,        \* closing order of the output files: later is newer
    closes,       \* number of closed outputs so far
    index,        \* compressed_index.json: the output recorded under a signature
    \* in memory
    starting,     \* daemons whose start request has passed the is_running check
    handle,       \* the daemon _ac_thread and _ac_stop refer to
    stop,         \* daemons whose stop event is set
    pc, todo, cur, \* per pass: program counter, candidates left, current clip
    before, own, new, chosen, \* per pass: the locals of _process_one
    early,        \* ghost: the passes whose run on cur ended before the clip did
    crashes

diskVars  == <<present, ingested, out, mtime, closes, index>>
slotVars  == <<starting, handle, stop>>
fileVars  == <<before, own, new, chosen, early>>
passVars  == <<pc, todo, cur, fileVars>>
vars      == <<diskVars, slotVars, passVars, crashes>>

-----------------------------------------------------------------------------
(* Helpers *)

\* compressed_index.signature: a missing clip has a path-only signature.
Signature(s) == <<s, s \in present>>

OnDisk(o) == out[o] \notin {"none", "purged"}

\* ffprobe finds a video stream.  An MP4 still being written has no index yet.
Decodable(o) == out[o] \in {"full", "cut"}

\* compressed_index.is_compressed
IsCompressed(s) ==
    /\ index[Signature(s)] # None
    /\ OnDisk(index[Signature(s)])

\* _camera_outputs: the files of compressed/ whose name starts with camera_id
CameraOutputs(s) == {o \in Outputs : OnDisk(o) /\ <<s, o[1]>> \in Prefix}

\* max(new_files, key=mtime): a file being written may be the newest at any time.
Newest(S) ==
    {o \in S : \/ out[o] = "writing"
               \/ \A q \in S : out[q] # "writing" => mtime[q] <= mtime[o]}

\* scan_once's candidate filter
Candidates ==
    {s \in present : s \notin ingested /\ ~IsCompressed(s)}

Stopped(p) == p \in Daemons /\ p \in stop

EmptyIndex == [k \in Sources \X BOOLEAN |-> None]

\* _save rewrites the index in place and swallows an OSError: the write may not
\* have started ("kept"), or may have truncated the file, which then loads as
\* empty ("emptied").
SaveIndex(new_index) ==
    index' \in {new_index}
                 \union (IF "kept" \in IndexFaults THEN {index} ELSE {})
                 \union (IF "emptied" \in IndexFaults THEN {EmptyIndex} ELSE {})

\* The pass is done with its current clip and goes to the next candidate.
FinishFile(p) ==
    /\ pc'     = [pc EXCEPT ![p] = "files"]
    /\ todo'   = [todo EXCEPT ![p] = @ \ {cur[p]}]
    /\ cur'    = [cur EXCEPT ![p] = None]
    /\ before' = [before EXCEPT ![p] = {}]
    /\ own'    = [own EXCEPT ![p] = None]
    /\ new'    = [new EXCEPT ![p] = {}]
    /\ chosen' = [chosen EXCEPT ![p] = None]
    /\ early'  = early \ {p}

Goto(p, label) == pc' = [pc EXCEPT ![p] = label]

\* The encoder closes the file p writes, in the given state.
CloseOwn(p, state) ==
    IF own[p] = None
    THEN UNCHANGED <<out, mtime, closes>>
    ELSE /\ out'    = [out EXCEPT ![own[p]] = state]
         /\ mtime'  = [mtime EXCEPT ![own[p]] = closes + 1]
         /\ closes' = closes + 1

\* Retention leaves alone what an encoder is writing and what is fresh: no pass
\* takes longer than the freshness window from closing its file to being done.
Purgeable == {o \in Outputs : OnDisk(o) /\ out[o] # "writing"
                              /\ \A p \in Passes : own[p] # o /\ chosen[p] # o}

\* purge_once: delete the files, then prune the entries whose output is gone.
Purge(gone) ==
    LET left == [o \in Outputs |-> IF o \in gone THEN "purged" ELSE out[o]]
        dead(k) == index[k] # None => left[index[k]] \in {"none", "purged"}
    IN  /\ out' = left
        /\ IF gone = {}
           THEN UNCHANGED index
           ELSE SaveIndex([k \in Sources \X BOOLEAN |->
                              IF dead(k) THEN None ELSE index[k]])

-----------------------------------------------------------------------------
(* Starting and stopping the daemon *)

IsRunning == handle # None /\ pc[handle] # "off"

\* start_autocompress, up to the is_running check; not atomic with the start.
StartCheck(d) ==
    /\ pc[d] = "off" /\ d \notin starting
    /\ ~IsRunning
    /\ starting' = starting \union {d}
    /\ UNCHANGED <<diskVars, handle, stop, passVars, crashes>>

\* ... and from there: a new event, a new thread, both rebound.
StartThread(d) ==
    /\ d \in starting
    /\ starting' = starting \ {d}
    /\ handle'   = d
    /\ stop'     = stop \ {d}
    /\ Goto(d, "loop")
    /\ UNCHANGED <<diskVars, todo, cur, fileVars, crashes>>

\* stop_autocompress: sets the event of the newest daemon only.
StopDaemon ==
    /\ IsRunning
    /\ stop' = stop \union {handle}
    /\ UNCHANGED <<diskVars, starting, handle, passVars, crashes>>

\* The daemon's while condition and the end of its thread.
DaemonExitDeaf(d) ==
    /\ pc[d] = "loop" /\ d \in stop /\ Candidates = {}
    /\ Goto(d, "off")
    /\ UNCHANGED <<diskVars, slotVars, todo, cur, fileVars, crashes>>
DaemonExit(d) ==
    /\ pc[d] = "loop" /\ d \in stop
    /\ Goto(d, "off")
    /\ UNCHANGED <<diskVars, slotVars, todo, cur, fileVars, crashes>>

-----------------------------------------------------------------------------
(* scan_once *)

\* The candidate listing.  The batch display (_ac_status) is left out.
ScanStart(p) ==
    /\ \/ p \in Requests /\ pc[p] = "off"
       \/ p \in Daemons /\ pc[p] = "loop" /\ p \notin stop
    /\ Goto(p, "files")
    /\ todo'  = [todo EXCEPT ![p] = Candidates]
    /\ UNCHANGED <<diskVars, slotVars, cur, fileVars, crashes>>

\* A candidate that is gone, or whose size changes while it is polled, is
\* skipped this time.  The poll is trusted: a clip that passes it is complete.
SkipUnstable(p, s) ==
    /\ pc[p] = "files" /\ ~Stopped(p)
    /\ s \in todo[p]
    /\ todo' = [todo EXCEPT ![p] = @ \ {s}]
    /\ UNCHANGED <<diskVars, slotVars, pc, cur, fileVars, crashes>>

\* The finally block of scan_once, then retention (daemon) or the reply (request).
LeaveScan(p) ==
    /\ pc'     = [pc EXCEPT ![p] = IF p \in Daemons THEN "retain" ELSE "off"]
    /\ todo'   = [todo EXCEPT ![p] = {}]
    /\ cur'    = [cur EXCEPT ![p] = None]
    /\ before' = [before EXCEPT ![p] = {}]
    /\ own'    = [own EXCEPT ![p] = None]
    /\ new'    = [new EXCEPT ![p] = {}]
    /\ chosen' = [chosen EXCEPT ![p] = None]
    /\ early'  = early \ {p}

EndScan(p) ==
    /\ pc[p] = "files" /\ (todo[p] = {} \/ Stopped(p))
    /\ LeaveScan(p)
    /\ UNCHANGED <<diskVars, slotVars, crashes>>

\* An OSError from touching a sentinel escapes _process_one and ends the scan.
Escape(p) ==
    /\ pc[p] = "encoded" \/ (pc[p] = "files" /\ todo[p] # {})
    /\ ~Stopped(p)
    /\ LeaveScan(p)
    /\ UNCHANGED <<diskVars, slotVars, crashes>>

-----------------------------------------------------------------------------
(* _process_one *)

\* A complete candidate that another pass has recorded since the listing.
AlreadyDone(p, s) ==
    /\ pc[p] = "files" /\ ~Stopped(p)
    /\ s \in todo[p] /\ IsCompressed(s)
    /\ todo' = [todo EXCEPT ![p] = @ \ {s}]
    /\ UNCHANGED <<diskVars, slotVars, pc, cur, fileVars, crashes>>

\* A complete candidate: the snapshot of the output folder and the call of
\* run_pipeline.  The .ingested sentinel is not looked at again.  The .processing
\* marker, touched here and removed by Collect, has no reader in this service.
Begin(p, s) ==
    /\ pc[p] = "files" /\ ~Stopped(p)
    /\ s \in todo[p] /\ s \in present /\ ~IsCompressed(s)
    /\ cur'    = [cur EXCEPT ![p] = s]
    /\ before' = [before EXCEPT ![p] = CameraOutputs(s)]
    /\ Goto(p, "encode")
    /\ UNCHANGED <<diskVars, slotVars, todo, own, new, chosen, early, crashes>>

\* The first kept frame opens the output file, under a name never used before.
OpenOutput(p) ==
    /\ pc[p] = "encode" /\ own[p] = None
    /\ <<p, cur[p]>> \notin Empty
    /\ \E n \in 1..MaxOut :
          /\ out[<<cur[p], n>>] = "none"
          /\ \A m \in 1..(n - 1) : out[<<cur[p], m>>] # "none"
          /\ out' = [out EXCEPT ![<<cur[p], n>>] = "writing"]
          /\ own' = [own EXCEPT ![p] = <<cur[p], n>>]
    /\ UNCHANGED <<present, ingested, mtime, closes, index, slotVars,
                   pc, todo, cur, before, new, chosen, early, crashes>>

\* run_pipeline returns because the frame source has no more frames: at the end of
\* the clip, or early, after a read that failed, raised or stalled, which it cannot
\* tell apart.  A clip that another pass deletes meanwhile stays readable where an
\* open file may be unlinked.
EncodeEnd(p) ==
    /\ pc[p] = "encode"
    /\ \/ /\ own[p] # None \/ <<p, cur[p]>> \in Empty
          /\ CloseOwn(p, "full") /\ UNCHANGED early
       \/ /\ <<p, cur[p]>> \in ShortReads
          /\ CloseOwn(p, "cut") /\ early' = early \union {p}
    /\ Goto(p, "encoded")
    /\ UNCHANGED <<present, ingested, index, slotVars,
                   todo, cur, before, own, new, chosen, crashes>>

\* run_pipeline sees the stop event, aborts the open segment and returns: FFmpeg,
\* sent EOF and then killed, may or may not have written the file's index.
EncodeStopped(p) ==
    /\ pc[p] = "encode" /\ Stopped(p)
    /\ \E state \in {"cut", "broken"} : CloseOwn(p, state)
    /\ Goto(p, "encoded")
    /\ UNCHANGED <<present, ingested, index, slotVars,
                   todo, cur, fileVars, crashes>>

\* run_pipeline raises: an unreadable clip, FFmpeg, a timeout, the database.
EncodeFail(p) ==
    /\ pc[p] = "encode"
    /\ \E state \in {"full", "cut", "broken"} : CloseOwn(p, state)
    /\ FinishFile(p)
    /\ UNCHANGED <<present, ingested, index, slotVars, crashes>>

\* SEC-011: an interrupted run records nothing and deletes nothing.
Interrupted(p) ==
    /\ pc[p] = "encoded" /\ Stopped(p)
    /\ FinishFile(p)
    /\ UNCHANGED <<diskVars, slotVars, crashes>>

\* SEC-012: the files with this camera_id that were not there before.  The clip
\* gets its .ingested sentinel, and nothing more happens when nothing was written.
TakeNew(p) ==
    /\ ingested' = ingested \union {cur[p]}
    /\ IF CameraOutputs(cur[p]) \ before[p] = {}
       THEN FinishFile(p)
       ELSE /\ new'    = [new EXCEPT ![p] = CameraOutputs(cur[p]) \ before[p]]
            /\ before' = [before EXCEPT ![p] = {}]
            /\ Goto(p, "verify")
            /\ UNCHANGED <<todo, cur, own, chosen, early>>
    /\ UNCHANGED <<present, out, mtime, closes, index, slotVars, crashes>>

CollectInterrupted(p) == pc[p] = "encoded" /\ TakeNew(p)
Collect(p)            == pc[p] = "encoded" /\ ~Stopped(p) /\ TakeNew(p)

VerifyOk(p) ==
    /\ pc[p] = "verify"
    /\ \E o \in Newest(new[p]) :
          Decodable(o) /\ chosen' = [chosen EXCEPT ![p] = o]
    /\ new' = [new EXCEPT ![p] = {}]
    /\ Goto(p, "record")
    /\ UNCHANGED <<diskVars, slotVars, todo, cur, before, own, early, crashes>>

\* ffprobe rejects the file, fails or times out.
VerifyFail(p) ==
    /\ pc[p] = "verify"
    /\ FinishFile(p)
    /\ UNCHANGED <<diskVars, slotVars, crashes>>

\* compressed_index.record, then the original when the pass deletes originals.
Record(p) ==
    /\ pc[p] = "record"
    /\ SaveIndex([index EXCEPT ![Signature(cur[p])] = chosen[p]])
    /\ IF p \in Deleters
       THEN Goto(p, "delete") /\ UNCHANGED <<todo, cur, fileVars>>
       ELSE FinishFile(p)
    /\ UNCHANGED <<present, ingested, out, mtime, closes,
                   slotVars, crashes>>

\* _safe_delete_original re-checks the output, then unlinks clip and sentinel.
DeleteOriginal(p) ==
    /\ pc[p] = "delete"
    /\ OnDisk(chosen[p]) /\ cur[p] \in present
    /\ present'    = present \ {cur[p]}
    /\ ingested'   = ingested \ {cur[p]}
    /\ FinishFile(p)
    /\ UNCHANGED <<out, mtime, closes, index, slotVars, crashes>>

\* The output or the clip is gone, or unlink raises: the original stays.
KeepOriginal(p) ==
    /\ pc[p] = "delete"
    /\ FinishFile(p)
    /\ UNCHANGED <<diskVars, slotVars, crashes>>

-----------------------------------------------------------------------------
(* Retention and crashes *)

\* The purge the daemon runs after each scan; then it sleeps and looks again.
Retain(d) ==
    /\ d \in Daemons /\ pc[d] = "retain"
    /\ \E gone \in SUBSET Purgeable : Purge(gone)
    /\ Goto(d, "loop")
    /\ UNCHANGED <<present, ingested, mtime, closes, slotVars,
                   todo, cur, fileVars, crashes>>

\* POST /api/retention/purge_now
PurgeNow ==
    /\ \E gone \in (SUBSET Purgeable) \ {{}} : Purge(gone)
    /\ UNCHANGED <<present, ingested, mtime, closes, slotVars,
                   passVars, crashes>>

\* The process dies.  Open files are left as they are; an index that a pass or a
\* purge is rewriting may be left truncated.  No daemon starts again by itself.
Crash ==
    /\ crashes < MaxCrash
    /\ crashes' = crashes + 1
    /\ \E playable \in SUBSET {o \in Outputs : out[o] = "writing"} :
          out' = [o \in Outputs |-> IF out[o] # "writing" THEN out[o]
                                    ELSE IF o \in playable THEN "cut" ELSE "broken"]
    /\ index' \in {index, EmptyIndex}
    /\ pc'       = [p \in Passes |-> "off"]
    /\ todo'     = [p \in Passes |-> {}]
    /\ cur'      = [p \in Passes |-> None]
    /\ before'   = [p \in Passes |-> {}]
    /\ own'      = [p \in Passes |-> None]
    /\ new'      = [p \in Passes |-> {}]
    /\ chosen'   = [p \in Passes |-> None]
    /\ early'    = {}
    /\ starting' = {} /\ handle' = None /\ stop' = {}
    /\ UNCHANGED <<present, ingested, mtime, closes>>

-----------------------------------------------------------------------------
(* Specification *)

Init ==
    /\ present = Sources /\ ingested = {}
    /\ out = [o \in Outputs |-> "none"] /\ mtime = [o \in Outputs |-> 0] /\ closes = 0
    /\ index = EmptyIndex
    /\ starting = {} /\ handle = None /\ stop = {}
    /\ pc = [p \in Passes |-> "off"]   /\ todo = [p \in Passes |-> {}]
    /\ cur = [p \in Passes |-> None]   /\ before = [p \in Passes |-> {}]
    /\ own = [p \in Passes |-> None]   /\ new = [p \in Passes |-> {}]
    /\ chosen = [p \in Passes |-> None]
    /\ early = {} /\ crashes = 0

\* One step of a pass that is already running.
PassStep(p) ==
    \/ p \in Daemons /\ ScanStart(p)
    \/ \E s \in Sources : SkipUnstable(p, s) \/ AlreadyDone(p, s) \/ Begin(p, s)
    \/ EndScan(p) \/ Escape(p)
    \/ OpenOutput(p) \/ EncodeEnd(p) \/ EncodeStopped(p) \/ EncodeFail(p)
    \/ Interrupted(p) \/ Collect(p)
    \/ VerifyOk(p) \/ VerifyFail(p) \/ Record(p)
    \/ DeleteOriginal(p) \/ KeepOriginal(p)
    \/ Retain(p)
    \/ p \in Daemons /\ DaemonExit(p)

Next ==
    \/ \E p \in Passes : PassStep(p)
    \/ \E p \in Requests : ScanStart(p)
    \/ \E d \in Daemons : StartCheck(d) \/ StartThread(d)
    \/ StopDaemon
    \/ PurgeNow
    \/ Crash

\* A running thread keeps running: every encode ends one way or another, every
\* probe has a timeout.  Clicks and crashes owe nothing.
Fairness == \A p \in Passes : WF_vars(PassStep(p))

Spec     == Init /\ [][Next]_vars
FairSpec == Spec /\ Fairness

-----------------------------------------------------------------------------
(* Properties *)

\* Every variable holds a value of its kind.
TypeOK ==
    /\ present \subseteq Sources /\ ingested \subseteq Sources
    /\ out \in [Outputs -> OutStates]
    /\ mtime \in [Outputs -> Nat] /\ closes \in Nat
    /\ index \in [Sources \X BOOLEAN -> Outputs \union {None}]
    /\ starting \subseteq Daemons /\ stop \subseteq Daemons
    /\ handle \in Daemons \union {None}
    /\ pc \in [Passes -> PassPCs]
    /\ todo \in [Passes -> SUBSET Sources]
    /\ cur \in [Passes -> Sources \union {None}]
    /\ before \in [Passes -> SUBSET Outputs] /\ new \in [Passes -> SUBSET Outputs]
    /\ own \in [Passes -> Outputs \union {None}]
    /\ chosen \in [Passes -> Outputs \union {None}]
    /\ early \subseteq Passes
    /\ crashes \in 0..MaxCrash

\* A copy of the clip, written from the clip itself, is on disk: all of it, or
\* something ffprobe accepts.
HasFullCopy(s)     == \E o \in Outputs : o[1] = s /\ out[o] = "full"
HasPlayableCopy(s) == \E o \in Outputs : o[1] = s /\ Decodable(o)

\* The irreversible step (autocompress_runner.py _safe_delete_original): an
\* original is never unlinked without a playable copy of it, and the copy is all
\* of it unless the reads of the very pass that unlinks it ended early, whatever
\* other passes, stops, crashes and purges did in between.  The exception is the
\* code's: a run that a stall cut short passes every check the service makes.
DeleteOnlyWithCopy ==
    [][\A s \in Sources : s \in present /\ s \notin present' =>
          /\ HasPlayableCopy(s)
          /\ HasFullCopy(s) \/ \E p \in early : pc[p] = "delete" /\ cur[p] = s]_vars

\* SEC-011: a clip gets its .ingested sentinel, which hides it from every later
\* scan, only from a run that neither failed nor was stopped: the pass that marks
\* it wrote a full output for it or had nothing to write, or its reads ended early.
IngestOnlyAfterRun ==
    [][\A s \in Sources : s \notin ingested /\ s \in ingested' =>
          \E p \in Passes :
             /\ pc[p] = "encoded" /\ cur[p] = s /\ ~Stopped(p)
             /\ \/ p \in early
                \/ IF own[p] = None THEN <<p, s>> \in Empty ELSE out[own[p]] = "full"]_vars

\* A daemon whose stop event is set ends, even in the middle of a batch.
StopHonoured == \A d \in Daemons : d \in stop ~> pc[d] = "off"

\* SEC-012's promise: what a pass records for a clip, and what then gates the
\* clip's deletion, was written from that clip.
OutputIsOwn ==
    \A p \in Passes : pc[p] \in {"record", "delete"} => chosen[p][1] = cur[p]

-----------------------------------------------------------------------------
(* The inductive invariant behind DeleteOnlyWithCopy *)

\* No output name of one clip looks like an output of another, and a mode that
\* keeps nothing of a clip does so in every pass.
Unambiguous ==
    /\ \A s, t \in Sources : <<s, t>> \in Prefix => s = t
    /\ \A p, q \in Passes, s \in Sources : <<p, s>> \in Empty => <<q, s>> \in Empty

Working == {"encode", "encoded", "verify", "record", "delete"}

\* A working pass has a clip.
CurSet == \A p \in Passes : pc[p] \in Working => cur[p] \in Sources

\* A daemon about to be started is not running.
StartingOff == \A d \in starting : pc[d] = "off"

\* The file a pass writes is an output of its clip, and nobody else's.
OwnFile ==
    \A p \in Passes : own[p] # None =>
        /\ pc[p] \in Working
        /\ own[p][1] = cur[p]
        /\ out[own[p]] # "none"
        /\ pc[p] = "encode" => out[own[p]] = "writing"
        /\ \A q \in Passes : own[q] = own[p] => q = p

\* A clip of which no frame is kept has no output.
NothingKept == \A p \in Passes, o \in Outputs : <<p, o[1]>> \in Empty => out[o] = "none"

\* A run that returned without being stopped read its clip to the end, and what
\* goes on to be verified left a full output; or its reads ended early.
FullRun ==
    \A p \in Passes \ early :
        /\ pc[p] = "encoded" /\ ~Stopped(p) =>
              IF own[p] = None THEN <<p, cur[p]>> \in Empty ELSE out[own[p]] = "full"
        /\ pc[p] \in {"verify", "record", "delete"} =>
              own[p] # None /\ out[own[p]] = "full"

\* Only a run that has ended has ended early.
EarlyEnded == \A p \in early : pc[p] \in {"encoded", "verify", "record", "delete"}

\* What a pass goes through for its clip, and what it picks, are outputs of that
\* clip, and what it picked stays playable until the pass is done.
ChosenPlayable ==
    \A p \in Passes :
        /\ pc[p] = "verify" => \A o \in new[p] : o[1] = cur[p]
        /\ pc[p] \in {"record", "delete"} =>
              chosen[p] \in Outputs /\ chosen[p][1] = cur[p] /\ Decodable(chosen[p])

IInv == TypeOK /\ CurSet /\ StartingOff /\ OwnFile /\ NothingKept /\ FullRun
        /\ EarlyEnded /\ ChosenPlayable
=============================================================================
