-------------------------------- MODULE Rtsp --------------------------------
(***************************************************************************)
(* The local RTSP server: RtspServerManager (utils/rtsp_server.py) and the *)
(* requests that drive it (gui/routes/rtsp_bp.py).  It downloads MediaMTX, *)
(* starts and stops it, and has FFmpeg push a file to it in a loop.  Each  *)
(* field is written under the lock; between a check and the write that     *)
(* depends on it the lock is released.                                     *)
(***************************************************************************)
EXTENDS Naturals, FiniteSets

CONSTANTS
    Requests,   \* requests being served
    Overlap,    \* whether several are served at a time
    MaxSpawned  \* bound: processes started

VARIABLES
    binary,     \* the file resolved_binary finds: absent, part, whole, ready
    loader,     \* the download thread: none, fetch, extract, chmod
    downloading, progress,  \* as get_state shows them; progress is none, some, done or failed
    servers, pushers,       \* live processes, MediaMTX and FFmpeg
    server, up, exited,     \* _proc, _server_running, whether _server_error is set
    pusher, pushing,        \* _push_proc, _pushing
    spawned,    \* processes started so far
    doing,      \* where each request is: <<operation, step>>
    saw         \* what it has read or started: a process

vars == <<binary, loader, downloading, progress, servers, pushers, server, up, exited, pusher, pushing,
          spawned, doing, saw>>
download == <<binary, loader, downloading, progress>>

Idle == <<"none", "idle">>
At(r, steps) == doing[r] \in steps
Goto(r, op, step) == doing' = [doing EXCEPT ![r] = <<op, step>>]
Answer(r) == doing' = [doing EXCEPT ![r] = Idle] /\ saw' = [saw EXCEPT ![r] = 0]
Free(r) == doing[r] = Idle /\ (Overlap \/ \A q \in Requests : doing[q] = Idle)

-----------------------------------------------------------------------------
\* api_rtsp_download: a file that is there, whatever its state, is enough; the flag is
\* tested and set under one lock.
Download(r) ==
    /\ Free(r) /\ binary = "absent" /\ ~downloading
    /\ downloading' = TRUE /\ progress' = "some" /\ loader' = "fetch"
    /\ UNCHANGED <<binary, servers, pushers, server, up, exited, pusher, pushing, spawned, doing, saw>>

\* _do_download: the archive, its members, the mode bits.
DownloadGoesEarly ==
    /\ \/ loader = "fetch" /\ loader' = "extract" /\ UNCHANGED <<binary, progress>>
       \/ loader = "extract" /\ binary = "absent" /\ binary' = "part" /\ UNCHANGED <<loader, progress>>
       \/ loader = "extract" /\ binary = "part" /\ binary' = "whole" /\ loader' = "chmod" /\ progress' = "done"
       \/ loader = "chmod" /\ binary' = "ready" /\ UNCHANGED progress /\ loader' = "ending"
    /\ UNCHANGED <<downloading, servers, pushers, server, up, exited, pusher, pushing, spawned, doing, saw>>
DownloadGoes ==
    /\ \/ loader = "fetch" /\ loader' = "extract" /\ UNCHANGED <<binary, progress>>
       \/ loader = "extract" /\ binary = "absent" /\ binary' = "part" /\ UNCHANGED <<loader, progress>>
       \/ loader = "extract" /\ binary = "part" /\ binary' = "whole" /\ loader' = "chmod" /\ UNCHANGED progress
       \/ loader = "chmod" /\ binary' = "ready" /\ progress' = "done" /\ loader' = "ending"
    /\ UNCHANGED <<downloading, servers, pushers, server, up, exited, pusher, pushing, spawned, doing, saw>>
DownloadFails ==
    /\ loader \in {"fetch", "extract", "chmod"} /\ progress' = "failed" /\ loader' = "ending"
    /\ UNCHANGED <<binary, downloading, servers, pushers, server, up, exited, pusher, pushing, spawned, doing, saw>>
DownloadEnds ==
    /\ loader = "ending" /\ loader' = "none" /\ downloading' = FALSE
    /\ UNCHANGED <<binary, progress, servers, pushers, server, up, exited, pusher, pushing, spawned, doing, saw>>

\* start: the check, the process, and its record; then the answer's get_state.
Start(r) ==
    /\ Free(r) /\ ~up /\ Goto(r, "start", "launch")
    /\ UNCHANGED <<download, servers, pushers, server, up, exited, pusher, pushing, spawned, saw>>
Launch(r) ==
    /\ At(r, {<<"start", "launch">>})
    /\ IF binary = "ready"
       THEN /\ spawned < MaxSpawned /\ spawned' = spawned + 1 /\ servers' = servers \union {spawned'}
            /\ saw' = [saw EXCEPT ![r] = spawned'] /\ Goto(r, "start", "record")
       ELSE Answer(r) /\ UNCHANGED <<spawned, servers>>
    /\ UNCHANGED <<download, pushers, server, up, exited, pusher, pushing>>
Record(r) ==
    /\ At(r, {<<"start", "record">>})
    /\ server' = saw[r] /\ up' = TRUE /\ exited' = FALSE
    /\ saw' = [saw EXCEPT ![r] = 0] /\ Goto(r, "state", "read")
    /\ UNCHANGED <<download, servers, pushers, pusher, pushing, spawned>>

\* is_running reads the handle under the lock, and writes what it found under another;
\* get_state also forgets a push that has ended by itself.
Status(r) ==
    /\ Free(r) /\ \E op \in {"state", "push"} : Goto(r, op, "read")
    /\ UNCHANGED <<download, servers, pushers, server, up, exited, pusher, pushing, spawned, saw>>
IsRunning(r) ==
    /\ At(r, {<<"state", "read">>, <<"push", "read">>})
    /\ IF up /\ server # 0 THEN saw' = [saw EXCEPT ![r] = server] /\ Goto(r, doing[r][1], "write")
       ELSE IF doing[r][1] = "state" \/ up THEN Goto(r, doing[r][1], "go") /\ UNCHANGED saw
       ELSE Answer(r)
    /\ UNCHANGED <<download, servers, pushers, server, up, exited, pusher, pushing, spawned>>
Polled(r) ==
    /\ At(r, {<<"state", "write">>, <<"push", "write">>})
    /\ IF saw[r] \in servers THEN Goto(r, doing[r][1], "go") /\ UNCHANGED <<saw, up, exited>>
       ELSE /\ up' = FALSE /\ exited' = TRUE
            /\ IF doing[r][1] = "push" THEN Answer(r) ELSE Goto(r, "state", "go") /\ UNCHANGED saw
    /\ UNCHANGED <<download, servers, pushers, server, pusher, pushing, spawned>>
State(r) ==
    /\ At(r, {<<"state", "go">>}) /\ Answer(r)
    /\ pushing' = (pushing /\ (pusher = 0 \/ pusher \in pushers))
    /\ UNCHANGED <<download, servers, pushers, server, up, exited, pusher, spawned>>

\* stop_push, by itself or before what stop and push go on to do: the process that is
\* recorded is terminated, killed after five seconds, and then forgotten.
Stop(r) ==
    /\ Free(r) /\ \E op \in {"stop", "stop_push"} : Goto(r, op, "go")
    /\ UNCHANGED <<download, servers, pushers, server, up, exited, pusher, pushing, spawned, saw>>
KillPush(r) ==
    /\ At(r, {<<op, "go">> : op \in {"stop", "stop_push", "push"}})
    /\ pushers' = pushers \ {pusher} /\ Goto(r, doing[r][1], "killed")
    /\ UNCHANGED <<download, servers, server, up, exited, pusher, pushing, spawned, saw>>
ClearPush(r) ==
    /\ At(r, {<<op, "killed">> : op \in {"stop", "stop_push", "push"}})
    /\ pusher' = 0 /\ pushing' = FALSE
    /\ IF doing[r][1] = "stop_push" THEN Answer(r) ELSE Goto(r, doing[r][1], "next") /\ UNCHANGED saw
    /\ UNCHANGED <<download, servers, pushers, server, up, exited, spawned>>

\* The rest of push and of stop.
PushOn(r) ==
    /\ \/ /\ At(r, {<<"push", "next">>}) /\ spawned < MaxSpawned /\ spawned' = spawned + 1
          /\ pushers' = pushers \union {spawned'} /\ saw' = [saw EXCEPT ![r] = spawned']
          /\ Goto(r, "push", "record") /\ UNCHANGED <<pusher, pushing>>
       \/ /\ At(r, {<<"push", "record">>}) /\ pusher' = saw[r] /\ pushing' = TRUE
          /\ Answer(r) /\ UNCHANGED <<spawned, pushers>>
    /\ UNCHANGED <<download, servers, server, up, exited>>
StopOnNoKill(r) ==
    /\ \/ /\ At(r, {<<"stop", "next">>}) /\ servers' \in {servers, servers \ {server}}
          /\ Goto(r, "stop", "clear") /\ UNCHANGED <<server, up, saw>>
       \/ At(r, {<<"stop", "clear">>}) /\ server' = 0 /\ up' = FALSE /\ Answer(r) /\ UNCHANGED servers
    /\ UNCHANGED <<download, pushers, exited, pusher, pushing, spawned>>
StopOn(r) ==
    /\ \/ /\ At(r, {<<"stop", "next">>}) /\ servers' = servers \ {server}
          /\ Goto(r, "stop", "clear") /\ UNCHANGED <<server, up, saw>>
       \/ At(r, {<<"stop", "clear">>}) /\ server' = 0 /\ up' = FALSE /\ Answer(r) /\ UNCHANGED servers
    /\ UNCHANGED <<download, pushers, exited, pusher, pushing, spawned>>

\* A process ends by itself.
Exit ==
    /\ \/ \E p \in servers : servers' = servers \ {p} /\ UNCHANGED pushers
       \/ \E p \in pushers : pushers' = pushers \ {p} /\ UNCHANGED servers
    /\ UNCHANGED <<download, server, up, exited, pusher, pushing, spawned, doing, saw>>

Init ==
    /\ binary = "absent" /\ loader = "none" /\ downloading = FALSE /\ progress = "none"
    /\ servers = {} /\ pushers = {} /\ server = 0 /\ up = FALSE /\ exited = FALSE
    /\ pusher = 0 /\ pushing = FALSE /\ spawned = 0
    /\ doing = [r \in Requests |-> Idle] /\ saw = [r \in Requests |-> 0]

Serve(r) ==
    \/ Download(r) \/ Start(r) \/ Launch(r) \/ Record(r) \/ Status(r) \/ IsRunning(r) \/ Polled(r)
    \/ State(r) \/ Stop(r) \/ KillPush(r) \/ ClearPush(r) \/ PushOn(r) \/ StopOn(r)
Next == DownloadGoes \/ DownloadFails \/ DownloadEnds \/ Exit \/ \E r \in Requests : Serve(r)
Spec == Init /\ [][Next]_vars
-----------------------------------------------------------------------------
\* Every process that lives is the one on record, or about to be recorded: no MediaMTX
\* and no FFmpeg is left that stop cannot reach, whatever exits and is noticed in between.
\* Requests do not overlap.
NoOrphans ==
    /\ servers \subseteq {server} \union {saw[r] : r \in Requests}
    /\ pushers \subseteq {pusher} \union {saw[r] : r \in Requests}

\* What is shown as downloaded can be run.
DoneIsReady == progress = "done" => binary = "ready"
=============================================================================
