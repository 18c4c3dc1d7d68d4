---------------------------- MODULE SegmentStore ----------------------------
(***************************************************************************)
(* Segment files between the encoders that write them and the retention    *)
(* purges that delete them.  A run is one call of run_pipeline with its    *)
(* own ROIEncoder (src/compression/roi_encoder.py, src/pipeline/           *)
(* pipeline.py); a purger is one call of retention.purge_once, by the      *)
(* auto-compress daemon or by POST /api/retention/purge_now.  They share   *)
(* the folder and the in-memory registry utils/active_outputs.py.          *)
(*                                                                         *)
(* A segment's name holds the second it was begun in, so a path is         *)
(* <<run, time>>.  All files have the same size: Budget counts files.      *)
(***************************************************************************)
EXTENDS Integers, FiniteSets

CONSTANTS
    Runs,      \* pipeline runs, each with a camera id of its own
    Purgers,   \* calls of purge_once
    Rank,      \* the order in which the folder lists the files of different runs
    Locked,    \* paths another program holds, so that unlink fails
    Old,       \* files an earlier process left in the folder
    Start,     \* the time at which this process starts
    MaxTime,   \* bound on the clock
    Fresh,     \* _FRESH_SECONDS
    MaxAge,    \* max_age_days, 0 for no age limit
    Budget,    \* max_total_gb
    None       \* no path

ASSUME TimeAssumption   == MaxTime \in Nat /\ Start \in 0..MaxTime /\ Fresh \in Nat \ {0} /\ MaxAge \in Nat
ASSUME BudgetAssumption == Budget \in Nat
ASSUME RankAssumption   == Rank \in [Runs -> Nat] /\ \A r, s \in Runs : Rank[r] = Rank[s] => r = s

Times == 0..MaxTime
Paths == Runs \X Times

ASSUME LockAssumption   == Locked \subseteq Paths
ASSUME OldAssumption    == Old \subseteq {p \in Paths : p[2] < Start}
ASSUME NoneAssumption   == None \notin Paths

\* "open": FFmpeg writes it; "post": audio mux, encryption, database row;
\* "done": complete; "part": what a killed FFmpeg left behind.
FileStates == {"none", "open", "post", "done", "part"}
InFlight   == {"open", "post"}

RunPCs   == {"idle", "loop", "popen", "opened", "closing", "post", "final"}
PurgePCs == {"idle", "age", "size"}

VARIABLES
    now, file, mtime,  \* the clock and the folder
    active,            \* active_outputs._active
    pc,                \* per run: where run_pipeline stands
    path,              \* per run: _stream_path
    proc,              \* per run: _stream_process is not None
    killed,            \* per run: abort_segment has killed that process
    segOpen, written,  \* per run: segment_open, frames_in_segment > 0
    stop,              \* per run: the stop event
    ending,            \* per run: inside the finally block of run_pipeline
    upc,               \* per purger: where purge_once stands
    started,           \* per purger: its value of now
    todo, left         \* per purger: files not tried yet in this phase; files counted

fileVars  == <<now, file, mtime, active>>
runVars   == <<pc, path, proc, killed, segOpen, written, stop, ending>>
purgeVars == <<upc, started, todo, left>>
vars      == <<fileVars, runVars, purgeVars>>

Set(f, r, v) == [f EXCEPT ![r] = v]

-----------------------------------------------------------------------------
(* A run *)

\* The locals of run_pipeline, its encoder and its stop event live as long as it.
Locals(r, label) ==
    /\ pc' = Set(pc, r, label) /\ path' = Set(path, r, None) /\ proc' = Set(proc, r, FALSE)
    /\ killed' = Set(killed, r, FALSE) /\ segOpen' = Set(segOpen, r, FALSE)
    /\ written' = Set(written, r, FALSE) /\ stop' = Set(stop, r, FALSE)
    /\ ending' = Set(ending, r, FALSE)
EndRun(r) == Locals(r, "idle")

StartRun(r) ==
    /\ pc[r] = "idle"
    /\ Locals(r, "loop")
    /\ UNCHANGED <<fileVars, purgeVars>>

\* The stop event, and, from api_stop, abort_segment on the running encoder.
StopRun(r) ==
    /\ pc[r] # "idle" /\ ~stop[r]
    /\ stop' = Set(stop, r, TRUE)
    /\ \E abort \in BOOLEAN : killed' = Set(killed, r, abort /\ proc[r])
    /\ UNCHANGED <<fileVars, pc, path, proc, segOpen, written, ending, purgeVars>>

\* The frame loop ends: the stop event, the end of the source, an exception.
LeaveLoopDeaf(r) ==
    /\ pc[r] = "loop" /\ ~stop[r]
    /\ pc' = Set(pc, r, "final")
    /\ UNCHANGED <<fileVars, path, proc, killed, segOpen, written, stop, ending, purgeVars>>
LeaveLoop(r) ==
    /\ pc[r] = "loop"
    /\ pc' = Set(pc, r, "final")
    /\ UNCHANGED <<fileVars, path, proc, killed, segOpen, written, stop, ending, purgeVars>>

\* begin_segment starts FFmpeg, which creates the file ...
Popen(r) ==
    /\ pc[r] = "loop" /\ ~segOpen[r] /\ ~stop[r]
    /\ file[<<r, now>>] = "none"        \* no two segments begin in one second
    /\ file'  = Set(file, <<r, now>>, "open")
    /\ mtime' = Set(mtime, <<r, now>>, now)
    /\ path'  = Set(path, r, <<r, now>>)
    /\ proc'  = Set(proc, r, TRUE) /\ killed' = Set(killed, r, FALSE)
    /\ pc'    = Set(pc, r, "popen")
    /\ UNCHANGED <<now, active, segOpen, written, stop, ending, purgeVars>>

\* ... and marks the path, after which run_pipeline knows the segment is open.
MarkActive(r) ==
    /\ pc[r] = "popen"
    /\ active'  = active \union {path[r]}
    /\ segOpen' = Set(segOpen, r, TRUE) /\ written' = Set(written, r, FALSE)
    /\ pc'      = Set(pc, r, "opened")
    /\ UNCHANGED <<now, file, mtime, path, proc, killed, stop, ending, purgeVars>>

\* The frame loop comes upon a further frame for the open segment; the frames that
\* detection and the mode drop change nothing here.
NextFrame(r) ==
    /\ pc[r] = "loop" /\ segOpen[r] /\ ~stop[r]
    /\ pc' = Set(pc, r, "opened")
    /\ UNCHANGED <<fileVars, path, proc, killed, segOpen, written, stop, ending, purgeVars>>

\* write_frame; the segment may be full now.
WriteFrame(r) ==
    /\ pc[r] = "opened" /\ ~stop[r] /\ ~killed[r]
    /\ mtime'   = Set(mtime, path[r], now)
    /\ written' = Set(written, r, TRUE)
    /\ \E next \in {"loop", "closing"} : pc' = Set(pc, r, next)
    /\ UNCHANGED <<now, file, active, path, proc, killed, segOpen, stop, ending, purgeVars>>

\* The stop check before the write, or a broken pipe in the write.
LeaveWrite(r) ==
    /\ pc[r] = "opened"
    /\ pc' = Set(pc, r, "final")
    /\ UNCHANGED <<fileVars, path, proc, killed, segOpen, written, stop, ending, purgeVars>>

\* finish_segment: FFmpeg exits in time and leaves a non-empty file.  The guard
\* on the path stays until everything that touches the file is done.
FinishEarly(r) ==
    /\ pc[r] = "closing" /\ ~killed[r]
    /\ file'   = Set(file, path[r], "post")
    /\ mtime'  = Set(mtime, path[r], now)
    /\ proc'   = Set(proc, r, FALSE)
    /\ active' = active \ {path[r]}
    /\ pc'     = Set(pc, r, "post")
    /\ UNCHANGED <<now, path, killed, segOpen, written, stop, ending, purgeVars>>
Finish(r) ==
    /\ pc[r] = "closing" /\ ~killed[r]
    /\ file'  = Set(file, path[r], "post")
    /\ mtime' = Set(mtime, path[r], now)
    /\ proc'  = Set(proc, r, FALSE) /\ killed' = Set(killed, r, FALSE)
    /\ pc'    = Set(pc, r, "post")
    /\ UNCHANGED <<now, active, path, segOpen, written, stop, ending, purgeVars>>

\* ... or it times out and is killed, exits with an error, or leaves nothing:
\* finish_segment clears the guard and raises.
FinishFail(r) ==
    /\ pc[r] = "closing"
    /\ file'   = Set(file, path[r], "part")
    /\ active' = active \ {path[r]}
    /\ IF ending[r]
       THEN EndRun(r)
       ELSE /\ proc' = Set(proc, r, FALSE)
            /\ pc'   = Set(pc, r, "final")
            /\ UNCHANGED <<path, killed, segOpen, written, stop, ending>>
    /\ UNCHANGED <<now, mtime, purgeVars>>

\* Audio, encryption and the database row are done.
PostDone(r) ==
    /\ pc[r] = "post"
    /\ file'    = Set(file, path[r], "done")
    /\ mtime'   = Set(mtime, path[r], now)
    /\ active'  = active \ {path[r]}
    /\ IF ending[r]
       THEN EndRun(r)
       ELSE /\ segOpen' = Set(segOpen, r, FALSE) /\ written' = Set(written, r, FALSE)
            /\ pc' = Set(pc, r, "loop")
            /\ UNCHANGED <<path, proc, killed, stop, ending>>
    /\ UNCHANGED <<now, purgeVars>>

\* One of them raises: run_pipeline still takes the segment to be open.
PostFail(r) ==
    /\ pc[r] = "post"
    /\ file'   = Set(file, path[r], "done")
    /\ active' = active \ {path[r]}
    /\ IF ending[r]
       THEN EndRun(r)
       ELSE /\ pc' = Set(pc, r, "final")
            /\ UNCHANGED <<path, proc, killed, segOpen, written, stop, ending>>
    /\ UNCHANGED <<now, mtime, purgeVars>>

\* The finally block with a segment to flush.  When its FFmpeg is gone already,
\* finish_segment raises at once and the rest of the block is skipped.
FinalFlush(r) ==
    /\ pc[r] = "final" /\ segOpen[r] /\ written[r] /\ ~stop[r]
    /\ IF proc[r]
       THEN /\ ending' = Set(ending, r, TRUE)
            /\ pc'     = Set(pc, r, "closing")
            /\ UNCHANGED <<path, proc, killed, segOpen, written, stop>>
       ELSE EndRun(r)
    /\ UNCHANGED <<fileVars, purgeVars>>

\* The finally block with a segment to discard: abort_segment kills FFmpeg.  It
\* neither resets the process nor clears the guard on the path.
FinalAbort(r) ==
    /\ pc[r] = "final" /\ segOpen[r] /\ (stop[r] \/ ~written[r])
    /\ file'   = IF proc[r] THEN Set(file, path[r], "part") ELSE file
    /\ EndRun(r)
    /\ UNCHANGED <<now, mtime, active, purgeVars>>

FinalNothing(r) ==
    /\ pc[r] = "final" /\ ~segOpen[r]
    /\ EndRun(r)
    /\ UNCHANGED <<fileVars, purgeVars>>

\* Time passes, but not between the start of FFmpeg and the mark.
Tick ==
    /\ now < MaxTime
    /\ \A r \in Runs : pc[r] # "popen"
    /\ now' = now + 1
    /\ UNCHANGED <<file, mtime, active, runVars, purgeVars>>

-----------------------------------------------------------------------------
(* A purge *)

OnDisk(p) == file[p] # "none"

\* Files retention may touch: not being written, not fresh.
Eligible == {p \in Paths : OnDisk(p) /\ p \notin active /\ now - mtime[p] >= Fresh}

OverAge(u, p) == MaxAge > 0 /\ mtime[p] < started[u] - MaxAge

\* purge_once lists the folder, once, and sets out on the files over age.
ListFiles(u) ==
    /\ upc[u] = "idle"
    /\ started' = Set(started, u, now)
    /\ todo'    = Set(todo, u, Eligible)
    /\ left'    = Set(left, u, Eligible)
    /\ upc'     = Set(upc, u, "age")
    /\ UNCHANGED <<fileVars, runVars>>

\* Oldest first; the sort is stable, and the listing order is the same each time.
ListedBefore(p, q) == Rank[p[1]] < Rank[q[1]] \/ (p[1] = q[1] /\ p[2] <= q[2])
Before(p, q) == mtime[p] < mtime[q] \/ (mtime[p] = mtime[q] /\ ListedBefore(p, q))
Oldest(S) == {p \in S : \A q \in S : Before(p, q)}

\* _delete, and whether the caller counts the file as deleted: it is gone now,
\* whoever deleted it.
Delete(p) ==
    file' = IF p \in active \/ p \in Locked THEN file ELSE Set(file, p, "none")

TryFileFreed(u, p) ==
    /\ Delete(p)
    /\ todo' = Set(todo, u, todo[u] \ {p})
    /\ left' = IF file' # file THEN Set(left, u, left[u] \ {p}) ELSE left
    /\ UNCHANGED <<now, mtime, active, upc, started, runVars>>
TryFile(u, p) ==
    /\ Delete(p)
    /\ todo' = Set(todo, u, todo[u] \ {p})
    /\ left' = IF file'[p] = "none" THEN Set(left, u, left[u] \ {p}) ELSE left
    /\ UNCHANGED <<now, mtime, active, upc, started, runVars>>

AgeDelete(u) ==
    /\ upc[u] = "age"
    /\ \E p \in Oldest({q \in todo[u] : OverAge(u, q)}) : TryFile(u, p)

\* The size phase starts over, with what the age phase left.
AgeDone(u) ==
    /\ upc[u] = "age" /\ {q \in todo[u] : OverAge(u, q)} = {}
    /\ upc'  = Set(upc, u, "size")
    /\ todo' = Set(todo, u, left[u])
    /\ UNCHANGED <<fileVars, runVars, started, left>>

SizeDelete(u) ==
    /\ upc[u] = "size" /\ Cardinality(left[u]) > Budget
    /\ \E p \in Oldest(todo[u]) : TryFile(u, p)

PurgeDone(u) ==
    /\ upc[u] = "size" /\ (Cardinality(left[u]) <= Budget \/ todo[u] = {})
    /\ upc' = Set(upc, u, "idle") /\ started' = Set(started, u, 0)
    /\ todo' = Set(todo, u, {}) /\ left' = Set(left, u, {})
    /\ UNCHANGED <<fileVars, runVars>>

-----------------------------------------------------------------------------
(* Specification *)

Init ==
    /\ now = Start /\ active = {}
    /\ file = [p \in Paths |-> IF p \in Old THEN "done" ELSE "none"]
    /\ mtime = [p \in Paths |-> p[2]]
    /\ pc = [r \in Runs |-> "idle"] /\ path = [r \in Runs |-> None]
    /\ proc = [r \in Runs |-> FALSE] /\ killed = [r \in Runs |-> FALSE]
    /\ segOpen = [r \in Runs |-> FALSE] /\ written = [r \in Runs |-> FALSE]
    /\ stop = [r \in Runs |-> FALSE] /\ ending = [r \in Runs |-> FALSE]
    /\ upc = [u \in Purgers |-> "idle"] /\ started = [u \in Purgers |-> 0]
    /\ todo = [u \in Purgers |-> {}] /\ left = [u \in Purgers |-> {}]

RunStep(r) ==
    \/ LeaveLoop(r) \/ Popen(r) \/ MarkActive(r) \/ NextFrame(r)
    \/ WriteFrame(r) \/ LeaveWrite(r)
    \/ Finish(r) \/ FinishFail(r) \/ PostDone(r) \/ PostFail(r)
    \/ FinalFlush(r) \/ FinalAbort(r) \/ FinalNothing(r)

PurgeStep(u) ==
    ListFiles(u) \/ AgeDelete(u) \/ AgeDone(u) \/ SizeDelete(u) \/ PurgeDone(u)

Next ==
    \/ \E r \in Runs : StartRun(r) \/ StopRun(r) \/ RunStep(r)
    \/ \E u \in Purgers : PurgeStep(u)
    \/ Tick

\* A run's thread keeps running: FFmpeg exits or is killed after 30 seconds.
Fairness == \A r \in Runs : WF_vars(RunStep(r))

Spec     == Init /\ [][Next]_vars
FairSpec == Spec /\ Fairness

-----------------------------------------------------------------------------
(* Properties *)

\* Every variable holds a value of its kind.
TypeOK ==
    /\ now \in Times /\ active \subseteq Paths
    /\ file \in [Paths -> FileStates] /\ mtime \in [Paths -> Times]
    /\ pc \in [Runs -> RunPCs] /\ path \in [Runs -> Paths \union {None}]
    /\ proc \in [Runs -> BOOLEAN] /\ killed \in [Runs -> BOOLEAN]
    /\ segOpen \in [Runs -> BOOLEAN] /\ written \in [Runs -> BOOLEAN]
    /\ stop \in [Runs -> BOOLEAN] /\ ending \in [Runs -> BOOLEAN]
    /\ upc \in [Purgers -> PurgePCs] /\ started \in [Purgers -> Times]
    /\ todo \in [Purgers -> SUBSET Paths] /\ left \in [Purgers -> SUBSET Paths]

\* The in-flight guard (active_outputs.py, retention.py _delete): a purge never
\* deletes a file that an encoder, the audio mux or the encryption still works on,
\* however long the file has gone without a write and however old the listing is.
NeverPurgeInFlight ==
    [][\A p \in Paths : file[p] \in InFlight => file'[p] # "none"]_vars

\* Two purges at once delete no more than one would: whenever a size purge deletes
\* a file, the deletable files on disk exceed the budget, and the file is older
\* than all of them that are not locked.  This is so for the runs of one camera: a
\* segment of another camera whose encoder fails once the purge has listed the folder
\* may be older, but waits for the next purge.
NoOverPurge ==
    [][\A u \in Purgers, p \in Paths :
          upc[u] = "size" /\ upc'[u] = "size" /\ todo'[u] # todo[u] /\ file'[p] # file[p] =>
              /\ Cardinality(Eligible) > Budget
              /\ \A q \in Eligible : q \in Locked \/ Before(p, q)]_vars

\* A stop request ends the run, whatever its encoder was doing.
StopEndsRun == \A r \in Runs : stop[r] ~> pc[r] = "idle"

-----------------------------------------------------------------------------
(* The inductive invariant: a file that is worked on is in the registry, or was *)
(* created this very moment and is too new for any listing.                     *)

\* What a run works on is a path of its own, in the registry once it is marked.
OwnPath ==
    \A r \in Runs :
        pc[r] \in {"popen", "opened", "closing", "post"} \/ segOpen[r] \/ proc[r] =>
            path[r] \in {r} \X (0..now)
Marked ==
    \A r \in Runs :
        /\ pc[r] \in {"opened", "closing", "post"} \/ (segOpen[r] /\ (proc[r] \/ pc[r] = "loop")) =>
               path[r] \in active
        /\ pc[r] = "post" => ~proc[r]
JustCreated == \A r \in Runs : pc[r] = "popen" => path[r] = <<r, now>>
Guarded ==
    \A p \in Paths : file[p] \in InFlight =>
        p \in active \/ \E r \in Runs : pc[r] = "popen" /\ path[r] = p

\* A file is no older than its name says, and a listed file is from before now.
Dated  == \A p \in Paths : p[2] <= mtime[p]
Listed == \A u \in Purgers : \A p \in todo[u] \union left[u] : p[2] < now

IInv == TypeOK /\ OwnPath /\ Marked /\ JustCreated /\ Guarded /\ Dated /\ Listed
=============================================================================
