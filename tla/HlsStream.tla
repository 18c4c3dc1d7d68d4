------------------------------ MODULE HlsStream ------------------------------
(***************************************************************************)
(* The live stream (src/gui/routes/hls_bp.py, src/gui/services/            *)
(* hls_runner.py): POST /api/hls/start and /stop, the annotator thread     *)
(* that feeds FFmpeg, and the watchdog that frees the one stream slot when *)
(* nobody fetches segments any more.                                       *)
(*                                                                         *)
(* A session is named after its start request.  Request and thread have    *)
(* separate program counters: the request starts whatever thread           *)
(* _hls_thread refers to by then, with whatever event _hls_stop_event      *)
(* referred to when the thread was created.  The latency watchers and the  *)
(* stale-segment cleanup are display only and left out.                    *)
(***************************************************************************)
EXTENDS FiniteSets

CONSTANTS
    Sessions,  \* POST /api/hls/start requests, and the annotator threads
    Stops,     \* POST /api/hls/stop requests
    None       \* no session

ASSUME NoneAssumption == None \notin Sessions

VARIABLES
    running,   \* _hls_state["running"]
    camera,    \* the session of _hls_state["camera_id"] and ["hls_dir"]
    fresh,     \* last_segment_fetch, or the start, is not yet older than allowed
    event,     \* the session that created the event _hls_stop_event
    thread,    \* the session of _hls_thread
    process,   \* the session of _hls_process
    rpc,       \* per start request
    tpc,       \* per annotator thread
    stopEvent, \* per thread: the event it was given
    set,       \* events that are set
    ffmpeg,    \* per session: its FFmpeg runs
    dog,       \* per session: the watchdog thread
    spc        \* per stop request

stateVars   == <<running, camera, fresh>>
handleVars  == <<event, thread, process>>
sessionVars == <<rpc, tpc, stopEvent, ffmpeg, dog>>
vars        == <<stateVars, handleVars, sessionVars, set, spc>>

Request(s, label) == rpc' = [rpc EXCEPT ![s] = label]
Thread(s, label)  == tpc' = [tpc EXCEPT ![s] = label]

ThreadLive == {"opening", "launched", "streaming", "ending", "reaped"}

StopIsSet(s) == stopEvent[s] \in set

-----------------------------------------------------------------------------
(* POST /api/hls/start *)

\* The only check of the slot, under the lock ...
StartCheck(s) ==
    /\ rpc[s] = "idle"
    /\ Request(s, IF running THEN "over" ELSE "checked")
    /\ UNCHANGED <<stateVars, handleVars, tpc, stopEvent, ffmpeg, dog, set, spc>>

\* ... the claim, under the lock again but without a second look ...
Claim(s) ==
    /\ rpc[s] = "checked"
    /\ running' = TRUE /\ camera' = s /\ fresh' = TRUE
    /\ Request(s, "claimed")
    /\ UNCHANGED <<handleVars, tpc, stopEvent, ffmpeg, dog, set, spc>>

\* ... and, without it, the event, the thread and its start.
NewEvent(s) ==
    /\ rpc[s] = "claimed"
    /\ event' = s
    /\ Request(s, "event")
    /\ UNCHANGED <<stateVars, thread, process, tpc, stopEvent, ffmpeg, dog, set, spc>>

NewThread(s) ==
    /\ rpc[s] = "event"
    /\ stopEvent' = [stopEvent EXCEPT ![s] = event]
    /\ thread' = s
    /\ Request(s, "thread")
    /\ UNCHANGED <<stateVars, event, process, tpc, ffmpeg, dog, set, spc>>

\* A thread can be started once; the second start raises, and the reply is a 500.
StartThread(s) ==
    /\ rpc[s] = "thread"
    /\ tpc' = [tpc EXCEPT ![thread] = IF @ = "none" THEN "opening" ELSE @]
    /\ Request(s, "over")
    /\ UNCHANGED <<stateVars, handleVars, stopEvent, ffmpeg, dog, set, spc>>

-----------------------------------------------------------------------------
(* The annotator thread *)

\* The source does not open in time, has no frames, the stop event is set while
\* the first frame is awaited, or FFmpeg is missing: the early returns.
GiveUpQuietly(s) ==
    /\ tpc[s] = "opening"
    /\ Thread(s, "over")
    /\ UNCHANGED <<stateVars, handleVars, rpc, stopEvent, ffmpeg, dog, set, spc>>
GiveUp(s) ==
    /\ tpc[s] = "opening"
    /\ running' = FALSE
    /\ Thread(s, "over")
    /\ UNCHANGED <<camera, fresh, handleVars, rpc, stopEvent, ffmpeg, dog, set, spc>>

Launch(s) ==
    /\ tpc[s] = "opening"
    /\ ffmpeg' = [ffmpeg EXCEPT ![s] = TRUE]
    /\ Thread(s, "launched")
    /\ UNCHANGED <<stateVars, handleVars, rpc, stopEvent, dog, set, spc>>

\* _hls_process is published and the watchdog started.
Register(s) ==
    /\ tpc[s] = "launched"
    /\ process' = s
    /\ dog' = [dog EXCEPT ![s] = "armed"]
    /\ Thread(s, "streaming")
    /\ UNCHANGED <<stateVars, event, thread, rpc, stopEvent, ffmpeg, set, spc>>

\* The frame loop sees the stop event, or writes into a broken pipe ...
LeaveBroken(s) ==
    /\ tpc[s] = "streaming" /\ ~ffmpeg[s]
    /\ Thread(s, "ending")
    /\ UNCHANGED <<stateVars, handleVars, rpc, stopEvent, ffmpeg, dog, set, spc>>
Leave(s) ==
    /\ tpc[s] = "streaming" /\ (StopIsSet(s) \/ ~ffmpeg[s])
    /\ Thread(s, "ending")
    /\ UNCHANGED <<stateVars, handleVars, rpc, stopEvent, ffmpeg, dog, set, spc>>

\* ... or the source ends or the annotation raises.
SourceEnds(s) ==
    /\ tpc[s] = "streaming"
    /\ Thread(s, "ending")
    /\ UNCHANGED <<stateVars, handleVars, rpc, stopEvent, ffmpeg, dog, set, spc>>

\* The finally block: FFmpeg gets its end of file and 6 seconds, then a kill ...
ReapNoKill(s) ==
    /\ tpc[s] = "ending"
    /\ ffmpeg' \in {ffmpeg, [ffmpeg EXCEPT ![s] = FALSE]}
    /\ Thread(s, "reaped")
    /\ UNCHANGED <<stateVars, handleVars, rpc, stopEvent, dog, set, spc>>
Reap(s) ==
    /\ tpc[s] = "ending"
    /\ ffmpeg' = [ffmpeg EXCEPT ![s] = FALSE]
    /\ Thread(s, "reaped")
    /\ UNCHANGED <<stateVars, handleVars, rpc, stopEvent, dog, set, spc>>

\* ... and the slot is given back, whoever has it by now.
Finish(s) ==
    /\ tpc[s] = "reaped"
    /\ running' = FALSE
    /\ Thread(s, "over")
    /\ UNCHANGED <<camera, fresh, handleVars, rpc, stopEvent, ffmpeg, dog, set, spc>>

-----------------------------------------------------------------------------
(* The watchdog *)

\* Every 5 seconds: the event is set, the slot is free, the stream is watched,
\* or it is abandoned.
Bark(s) ==
    /\ set' = IF ~StopIsSet(s) /\ running THEN set \union {stopEvent[s]} ELSE set
    /\ dog' = [dog EXCEPT ![s] = "gone"]
    /\ UNCHANGED <<stateVars, handleVars, rpc, tpc, stopEvent, ffmpeg, spc>>
WatchOnce(s) ==
    /\ dog[s] = "armed"
    /\ IF StopIsSet(s) \/ ~running \/ ~fresh
       THEN Bark(s)
       ELSE /\ dog' = [dog EXCEPT ![s] = "gone"]
            /\ UNCHANGED <<stateVars, handleVars, rpc, tpc, stopEvent, ffmpeg, set, spc>>
Watch(s) ==
    /\ dog[s] = "armed"
    /\ StopIsSet(s) \/ ~running \/ ~fresh
    /\ Bark(s)

\* A client fetches a segment of the camera the state names.
Fetch ==
    /\ camera # None /\ tpc[camera] \in {"streaming", "ending", "reaped", "over"}
    /\ fresh' = TRUE
    /\ UNCHANGED <<running, camera, handleVars, sessionVars, set, spc>>

\* The last fetch, or the start, is too long ago.
Expire ==
    /\ fresh /\ fresh' = FALSE
    /\ UNCHANGED <<running, camera, handleVars, sessionVars, set, spc>>

-----------------------------------------------------------------------------
(* POST /api/hls/stop *)

StopCheck(y) ==
    /\ spc[y] = "idle" /\ running
    /\ spc' = [spc EXCEPT ![y] = "checked"]
    /\ UNCHANGED <<stateVars, handleVars, sessionVars, set>>

StopSet(y) ==
    /\ spc[y] = "checked"
    /\ set' = set \union ({event} \ {None})
    /\ spc' = [spc EXCEPT ![y] = "set"]
    /\ UNCHANGED <<stateVars, handleVars, sessionVars>>

\* terminate, and kill after 5 seconds, the process that is published by then.
StopProcess(y) ==
    /\ spc[y] = "set"
    /\ ffmpeg' = [s \in Sessions |-> ffmpeg[s] /\ s # process]
    /\ spc' = [spc EXCEPT ![y] = "killed"]
    /\ UNCHANGED <<stateVars, handleVars, rpc, tpc, stopEvent, dog, set>>

StopClear(y) ==
    /\ spc[y] = "killed"
    /\ running' = FALSE /\ camera' = None /\ process' = None
    /\ spc' = [spc EXCEPT ![y] = "over"]
    /\ UNCHANGED <<fresh, event, thread, sessionVars, set>>

-----------------------------------------------------------------------------
(* Specification *)

Init ==
    /\ running = FALSE /\ camera = None /\ fresh = FALSE
    /\ event = None /\ thread = None /\ process = None
    /\ rpc = [s \in Sessions |-> "idle"] /\ tpc = [s \in Sessions |-> "none"]
    /\ stopEvent = [s \in Sessions |-> None] /\ set = {}
    /\ ffmpeg = [s \in Sessions |-> FALSE]
    /\ dog = [s \in Sessions |-> "none"]
    /\ spc = [y \in Stops |-> "idle"]

RequestStep(s) == Claim(s) \/ NewEvent(s) \/ NewThread(s) \/ StartThread(s)
ThreadStep(s)  == GiveUp(s) \/ Launch(s) \/ Register(s) \/ Leave(s) \/ Reap(s) \/ Finish(s)
StopStep(y)    == StopSet(y) \/ StopProcess(y) \/ StopClear(y)

Next ==
    \/ \E s \in Sessions :
          StartCheck(s) \/ RequestStep(s) \/ ThreadStep(s) \/ SourceEnds(s) \/ Watch(s)
    \/ \E y \in Stops : StopCheck(y) \/ StopStep(y)
    \/ Fetch \/ Expire

\* Requests and threads keep running; the open has a timeout.  Nothing makes a
\* live source end, a client fetch or stop fetching, or anybody click.
Fairness ==
    /\ \A s \in Sessions :
          WF_vars(RequestStep(s)) /\ WF_vars(ThreadStep(s)) /\ WF_vars(Watch(s))
    /\ \A y \in Stops : WF_vars(StopStep(y))

Spec     == Init /\ [][Next]_vars
FairSpec == Spec /\ Fairness

-----------------------------------------------------------------------------
(* Properties *)

\* Every variable holds a value of its kind.
TypeOK ==
    /\ running \in BOOLEAN /\ camera \in Sessions \union {None} /\ fresh \in BOOLEAN
    /\ event \in Sessions \union {None} /\ thread \in Sessions \union {None}
    /\ process \in Sessions \union {None}
    /\ rpc \in [Sessions -> {"idle", "checked", "claimed", "event", "thread", "over"}]
    /\ tpc \in [Sessions -> ThreadLive \union {"none", "over"}]
    /\ stopEvent \in [Sessions -> Sessions \union {None}] /\ set \subseteq Sessions
    /\ ffmpeg \in [Sessions -> BOOLEAN]
    /\ dog \in [Sessions -> {"none", "armed", "gone"}]
    /\ spc \in [Stops -> {"idle", "checked", "set", "killed", "over"}]

\* The slot is never left taken by nothing ("pin running=True and make every
\* later /api/hls/start return 409", hls_runner.py): while the flag is up, a
\* start request is on its way or an annotator thread is alive, on every early
\* return and in every overlap of starts and stops.
SlotNotLeaked ==
    running => \E s \in Sessions : \/ rpc[s] \in {"claimed", "event", "thread"}
                                   \/ tpc[s] \in ThreadLive

\* FFmpeg does not outlive its annotator.
FfmpegReaped ==
    \A s \in Sessions : ffmpeg[s] => tpc[s] \in {"launched", "streaming", "ending"}

\* The watchdog's purpose: once nobody fetches segments any more, the slot is
\* free again and again, whatever starts, stops and leftover threads do.
SlotFreed == (<>[]~fresh) => []<>~running

\* A session whose stop event is set ends, even when a later start has rebound
\* every handle to it.
StopHonoured ==
    \A s \in Sessions : StopIsSet(s) /\ tpc[s] \in ThreadLive ~> tpc[s] = "over"
=============================================================================
