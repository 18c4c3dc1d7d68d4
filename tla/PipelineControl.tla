--------------------------- MODULE PipelineControl ---------------------------
(***************************************************************************)
(* The dashboard's single pipeline job: POST /api/start and /api/stop      *)
(* (src/gui/routes/pipeline_bp.py), the worker thread they control         *)
(* (src/gui/services/pipeline_runner.py), and what the thread shares with  *)
(* the rest of the process through _status and through the ROIEncoder      *)
(* class it patches: the auto-compress encoder and the settings that       *)
(* gui_state_persist.py keeps in _status["config"].                        *)
(*                                                                         *)
(* A run is named after the start request that claimed the job slot for    *)
(* it; pc follows the request and, from WorkerStart on, its thread.        *)
(***************************************************************************)
EXTENDS FiniteSets

CONSTANTS
    Starts,    \* POST /api/start requests, and the runs they lead to
    Stops,     \* POST /api/stop requests
    Setters,   \* requests that save a retention policy
    AutoPass,      \* the auto-compress pass, as the owner of an encoder
    None       \* no run, no encoder

ASSUME ActorAssumption ==
    /\ {AutoPass, None} \intersect (Starts \union Stops \union Setters) = {} /\ AutoPass # None
    /\ Starts \intersect Setters = {}

RunPCs == {"idle", "checked", "refused", "claimed", "started", "reset", "saved",
           "running", "restored", "recorded", "released", "cleared", "over"}

\* Stages in which the worker's Thread object is_alive().
AlivePCs == {"started", "reset", "saved", "running", "restored", "recorded",
             "released", "cleared"}

\* Stages in which the run holds the job slot.
HoldPCs == {"claimed", "started", "reset", "saved", "running", "restored", "recorded"}

VARIABLES
    running, job, error,  \* _status: "running", "job_id", "error" is not None
    counted,              \* whose segments _status["segment_count"] counts
    shown,                \* _status["encryption_failures"] > 0
    thread, event,        \* the runs of _pipeline_thread and _stop_event
    encoder,              \* _active_encoder, by its owner
    pc,                   \* per start request
    stopped,              \* runs whose stop event is set
    outcome,              \* per run: how run_pipeline ended
    failed,               \* runs whose encoder has encryption_failures > 0
    history,              \* per run: the status in job_history.json
    auto,                 \* the auto-compress encoder: "none", "plain", "patched"
    spc, found,           \* per stop request: where it stands, the run it saw
    policy, saved,        \* the retention policy in _status["config"] and on disk
    zpc, snap             \* per saver: setter's progress; its snapshot of the policy

statusVars == <<running, job, error, counted, shown>>
slotVars   == <<thread, event, encoder>>
runVars    == <<pc, stopped, outcome, failed, history>>
stopVars   == <<spc, found>>
policyVars == <<policy, saved, zpc, snap>>
vars       == <<statusVars, slotVars, runVars, auto, stopVars, policyVars>>

Goto(x, label) == pc' = [pc EXCEPT ![x] = label]

Alive(x) == pc[x] \in AlivePCs
ThreadAlive == \E x \in Starts : thread = x /\ Alive(x)

\* The ROIEncoder class is patched while a run is between the two.
Patched == \E x \in Starts : pc[x] = "running"

-----------------------------------------------------------------------------
(* POST /api/start *)

\* The early check of api_start, under the lock; then the request is validated
\* and turned into the run's configuration, without the lock ...
StartCheck(x) ==
    /\ pc[x] = "idle"
    /\ Goto(x, IF running THEN "refused" ELSE "checked")
    /\ UNCHANGED <<statusVars, slotVars, stopped, outcome, failed, history,
                   auto, stopVars, policyVars>>

\* ... the re-check, and the claim under the same lock.
TakeSlotLocal(x) ==
    /\ running' = TRUE /\ error' = FALSE /\ job' = x
    /\ thread' = x /\ UNCHANGED event
    /\ Goto(x, "claimed")
    /\ UNCHANGED <<counted, shown, encoder, stopped, outcome, failed, history,
                   auto, stopVars, policyVars>>
TakeSlot(x) ==
    /\ running' = TRUE /\ error' = FALSE /\ job' = x
    /\ event' = x /\ thread' = x
    /\ Goto(x, "claimed")
    /\ UNCHANGED <<counted, shown, encoder, stopped, outcome, failed, history,
                   auto, stopVars, policyVars>>

ClaimUnchecked(x) == pc[x] = "checked" /\ TakeSlot(x)
Claim(x) ==
    /\ pc[x] = "checked"
    /\ ~running /\ ~ThreadAlive
    /\ TakeSlot(x)

\* The slot is taken, or the request asks for something that is not allowed.
Refuse(x) ==
    /\ pc[x] = "checked"
    /\ Goto(x, "refused")
    /\ UNCHANGED <<statusVars, slotVars, stopped, outcome, failed, history,
                   auto, stopVars, policyVars>>

WorkerStart(x) ==
    /\ pc[x] = "claimed"
    /\ Goto(x, "started")
    /\ UNCHANGED <<statusVars, slotVars, stopped, outcome, failed, history,
                   auto, stopVars, policyVars>>

-----------------------------------------------------------------------------
(* The worker thread *)

\* _run_pipeline_thread resets the status.  _status["config"] becomes the run's
\* own config, which has no retention policy; _save_gui_state then takes its
\* snapshot of it ...
Reset(x) ==
    /\ pc[x] = "started"
    /\ running' = TRUE /\ error' = FALSE /\ counted' = {} /\ shown' = FALSE
    /\ policy' = "default"
    /\ Goto(x, "reset")
    /\ UNCHANGED <<job, slotVars, stopped, outcome, failed, history,
                   auto, stopVars, saved, zpc, snap>>

Snapshot(x) ==
    /\ pc[x] = "reset" /\ snap[x] = "none"
    /\ snap' = [snap EXCEPT ![x] = policy]
    /\ UNCHANGED <<statusVars, slotVars, runVars, auto, stopVars, policy, saved, zpc>>

\* ... and writes it to gui_state.json, if it can, outside the lock.
SaveState(x) ==
    /\ pc[x] = "reset" /\ snap[x] # "none"
    /\ saved' \in {saved, snap[x]}
    /\ snap' = [snap EXCEPT ![x] = "none"]
    /\ Goto(x, "saved")
    /\ UNCHANGED <<statusVars, slotVars, stopped, outcome, failed, history,
                   auto, stopVars, policy, zpc>>

\* The class patches go in, and run_pipeline constructs its encoder.
Patch(x) ==
    /\ pc[x] = "saved"
    /\ encoder' = x
    /\ Goto(x, "running")
    /\ UNCHANGED <<statusVars, thread, event, stopped, outcome, failed, history,
                   auto, stopVars, policyVars>>

\* A patched finish_segment returns; the encryption of a segment may have failed.
Segment(x) ==
    /\ pc[x] = "running" /\ x \notin stopped
    /\ failed' \in {failed, failed \union {x}}
    /\ counted' = counted \union {x}
    /\ shown' = (x \in failed')
    /\ UNCHANGED <<running, job, error, slotVars, pc, stopped, outcome, history,
                   auto, stopVars, policyVars>>

\* The try block ends normally, or raises; then the patches are taken out.  What it
\* raised is kept as its text, str(exc), which is tested for being empty: an exception
\* without a text ("mute") leaves no error.
RunEndReleases(x) ==
    /\ pc[x] = "running"
    /\ \E how \in {"ok", "raised", "mute"} :
          /\ outcome' = [outcome EXCEPT ![x] = how]
          /\ error' = (error \/ how = "raised")
    /\ running' = FALSE
    /\ Goto(x, "restored")
    /\ UNCHANGED <<job, counted, shown, slotVars, stopped, failed, history,
                   auto, stopVars, policyVars>>
RunEnd(x) ==
    /\ pc[x] = "running"
    /\ \E how \in {"ok", "raised", "mute"} :
          /\ outcome' = [outcome EXCEPT ![x] = how]
          /\ error' = (error \/ how = "raised")
    /\ Goto(x, "restored")
    /\ UNCHANGED <<running, job, counted, shown, slotVars, stopped, failed, history,
                   auto, stopVars, policyVars>>

\* _record_job_history: a stop wins over an error.  job_history swallows an OSError of its
\* write, and the entry is lost.
RecordErrorFirst(x) ==
    /\ pc[x] = "restored"
    /\ history' = [history EXCEPT ![x] = IF error THEN "error"
                                         ELSE IF x \in stopped THEN "stopped"
                                         ELSE "completed"]
    /\ Goto(x, "recorded")
    /\ UNCHANGED <<statusVars, slotVars, stopped, outcome, failed,
                   auto, stopVars, policyVars>>
Record(x) ==
    /\ pc[x] = "restored"
    /\ \/ history' = [history EXCEPT ![x] = IF x \in stopped THEN "stopped"
                                            ELSE IF error THEN "error"
                                            ELSE "completed"]
       \/ history' = [history EXCEPT ![x] = "lost"]
    /\ Goto(x, "recorded")
    /\ UNCHANGED <<statusVars, slotVars, stopped, outcome, failed,
                   auto, stopVars, policyVars>>

Release(x) ==
    /\ pc[x] = "recorded"
    /\ running' = FALSE
    /\ Goto(x, "released")
    /\ UNCHANGED <<job, error, counted, shown, slotVars, stopped, outcome, failed,
                   history, auto, stopVars, policyVars>>

ClearEncoder(x) ==
    /\ pc[x] = "released"
    /\ encoder' = None
    /\ Goto(x, "cleared")
    /\ UNCHANGED <<statusVars, thread, event, stopped, outcome, failed, history,
                   auto, stopVars, policyVars>>

\* The CPU sampler is joined, and the thread ends.
ThreadEnd(x) ==
    /\ pc[x] = "cleared"
    /\ Goto(x, "over")
    /\ UNCHANGED <<statusVars, slotVars, stopped, outcome, failed, history,
                   auto, stopVars, policyVars>>

-----------------------------------------------------------------------------
(* POST /api/stop *)

\* api_stop looks at the status under the lock; when nothing runs it replies 409.
StopCheck(y) ==
    /\ spc[y] = "idle" /\ running
    /\ spc'   = [spc EXCEPT ![y] = "checked"]
    /\ found' = [found EXCEPT ![y] = job]
    /\ UNCHANGED <<statusVars, slotVars, runVars, auto, policyVars>>

\* It sets the event that _stop_event refers to by then ...
StopSet(y) ==
    /\ spc[y] = "checked"
    /\ stopped' = stopped \union ({event} \ {None})
    /\ spc' = [spc EXCEPT ![y] = "abort"]
    /\ UNCHANGED <<statusVars, slotVars, pc, outcome, failed, history,
                   auto, found, policyVars>>

\* ... and aborts the segment of the encoder that _active_encoder refers to by
\* then.  A run whose encoder is aborted may raise, which RunEnd allows anyway.
StopAbort(y) ==
    /\ spc[y] = "abort"
    /\ auto' = IF encoder = AutoPass THEN "none" ELSE auto
    /\ spc' = [spc EXCEPT ![y] = "over"]
    /\ UNCHANGED <<statusVars, slotVars, runVars, found, policyVars>>

-----------------------------------------------------------------------------
(* The auto-compress encoder *)

\* Constructed while a run has the class patched, it is intercepted like the
\* run's own, and stays so after the patches are taken out.
AutoOpen ==
    /\ auto = "none"
    /\ IF Patched
       THEN auto' = "patched" /\ encoder' = AutoPass
       ELSE auto' = "plain" /\ UNCHANGED encoder
    /\ UNCHANGED <<statusVars, thread, event, runVars, stopVars, policyVars>>

\* One of its segments is finished.  Auto-compress does not encrypt.
AutoSegment ==
    /\ auto = "patched"
    /\ counted' = counted \union {AutoPass} /\ shown' = FALSE
    /\ UNCHANGED <<running, job, error, slotVars, runVars, auto, stopVars, policyVars>>

AutoClose ==
    /\ auto # "none" /\ auto' = "none"
    /\ UNCHANGED <<statusVars, slotVars, runVars, stopVars, policyVars>>

-----------------------------------------------------------------------------
(* Saving a retention policy *)

\* set_retention_config: into _status["config"], under the lock; then
\* _save_gui_state, whose snapshot and write are steps of their own.
SetPolicy(z) ==
    /\ zpc[z] = "idle"
    /\ policy' = "chosen"
    /\ zpc' = [zpc EXCEPT ![z] = "set"]
    /\ UNCHANGED <<statusVars, slotVars, runVars, auto, stopVars, saved, snap>>

PolicySnapshot(z) ==
    /\ zpc[z] = "set"
    /\ snap' = [snap EXCEPT ![z] = policy]
    /\ zpc'  = [zpc EXCEPT ![z] = "saving"]
    /\ UNCHANGED <<statusVars, slotVars, runVars, auto, stopVars, policy, saved>>

PolicySave(z) ==
    /\ zpc[z] = "saving"
    /\ saved' \in {saved, snap[z]}
    /\ snap' = [snap EXCEPT ![z] = "none"]
    /\ zpc'  = [zpc EXCEPT ![z] = "over"]
    /\ UNCHANGED <<statusVars, slotVars, runVars, auto, stopVars, policy>>

-----------------------------------------------------------------------------
(* Specification *)

Init ==
    /\ running = FALSE /\ job = None /\ error = FALSE /\ counted = {} /\ shown = FALSE
    /\ thread = None /\ event = None /\ encoder = None
    /\ pc = [x \in Starts |-> "idle"] /\ stopped = {}
    /\ outcome = [x \in Starts |-> "none"] /\ failed = {}
    /\ history = [x \in Starts |-> "none"]
    /\ auto = "none"
    /\ spc = [y \in Stops |-> "idle"] /\ found = [y \in Stops |-> None]
    /\ policy = "default" /\ saved = "default"
    /\ zpc = [z \in Setters |-> "idle"] /\ snap = [w \in Starts \union Setters |-> "none"]

\* The request thread after its claim, then the worker.
RunStep(x) ==
    \/ WorkerStart(x) \/ Reset(x) \/ Snapshot(x) \/ SaveState(x) \/ Patch(x)
    \/ Segment(x) \/ RunEnd(x) \/ Record(x) \/ Release(x)
    \/ ClearEncoder(x) \/ ThreadEnd(x)

StopStep(y) == StopSet(y) \/ StopAbort(y)

Next ==
    \/ \E x \in Starts : StartCheck(x) \/ Claim(x) \/ Refuse(x) \/ RunStep(x)
    \/ \E y \in Stops : StopCheck(y) \/ StopStep(y)
    \/ AutoOpen \/ AutoSegment \/ AutoClose
    \/ \E z \in Setters : SetPolicy(z) \/ PolicySnapshot(z) \/ PolicySave(z)

\* Threads keep running; a run_pipeline whose event is set returns or raises
\* (SegmentStore, StopEndsRun).  Whether anybody clicks is open.
Fairness ==
    /\ \A x \in Starts : WF_vars(RunStep(x))
    /\ \A y \in Stops : WF_vars(StopStep(y))

Spec == Init /\ [][Next]_vars

-----------------------------------------------------------------------------
(* Properties *)

Policies == {"default", "chosen"}

\* Every variable holds a value of its kind.
TypeOK ==
    /\ running \in BOOLEAN /\ job \in Starts \union {None} /\ error \in BOOLEAN
    /\ counted \subseteq Starts \union {AutoPass} /\ shown \in BOOLEAN
    /\ thread \in Starts \union {None} /\ event \in Starts \union {None}
    /\ encoder \in Starts \union {AutoPass, None}
    /\ pc \in [Starts -> RunPCs] /\ stopped \subseteq Starts
    /\ outcome \in [Starts -> {"none", "ok", "raised", "mute"}] /\ failed \subseteq Starts
    /\ history \in [Starts -> {"none", "completed", "stopped", "error", "lost"}]
    /\ auto \in {"none", "plain", "patched"}
    /\ spc \in [Stops -> {"idle", "checked", "abort", "over"}]
    /\ found \in [Stops -> Starts \union {None}]
    /\ policy \in Policies /\ saved \in Policies
    /\ zpc \in [Setters -> {"idle", "set", "saving", "over"}]
    /\ snap \in [Starts \union Setters -> Policies \union {"none"}]

\* The single job slot (api_start's re-check): however start requests overlap,
\* no two runs are between their claim and the end of their thread, so a run's
\* patches, status fields and cleanup never meet those of another.
OneRun ==
    \A x, y \in Starts :
        pc[x] \in HoldPCs \union AlivePCs /\ pc[y] \in HoldPCs \union AlivePCs => x = y

\* What /api/status promises its poller (pipeline_runner.py, the finally block):
\* when it reports that nothing runs, every job started before has its entry in
\* the job history, or the write of that entry has failed.
RecordedWhenStopped ==
    ~running => \A x \in Starts : (pc[x] = "claimed" \/ Alive(x) \/ pc[x] = "over") => history[x] # "none"

\* The history tells how the run itself ended, although the error it reads is a
\* field shared by all runs: "error" and "stopped" are its own, and so is
\* "completed", which also covers an exception of its own that has no text.
HistoryTruthful ==
    \A x \in Starts :
        /\ history[x] = "completed" => outcome[x] \in {"ok", "mute"}
        /\ history[x] = "error" => outcome[x] = "raised"
        /\ history[x] = "stopped" => x \in stopped

\* A run whose stop request came first is not recorded as an error, even when the
\* aborted encoder made it raise.
StopWins ==
    [][\A x \in Starts : history[x] = "none" /\ x \in stopped => history'[x] # "error"]_vars

\* A stop request that found a run ends it, although api_stop lets go of the lock
\* before it reads the event: the event is that run's, or the run is over.
StopTakesEffect ==
    \A x \in Starts, y \in Stops : found[y] = x ~> pc[x] = "over"

-----------------------------------------------------------------------------
(* The inductive invariant: the run that is under way is the one in thread.  *)

Done == {"recorded", "released", "cleared", "over"}

SlotOwner == \A x \in Starts : pc[x] \in HoldPCs \union AlivePCs => thread = x
SlotHeld  == \A x \in Starts : pc[x] \in HoldPCs => running
Recorded  == \A x \in Starts : pc[x] \in Done <=> history[x] # "none"
ErrorOwn  == \A x \in Starts :
                /\ pc[x] \in {"claimed", "started", "reset", "saved", "running"} => ~error
                /\ pc[x] = "restored" => outcome[x] # "none" /\ (error <=> outcome[x] = "raised")
SnapTaken == \A z \in Setters : zpc[z] = "saving" => snap[z] # "none"

IInv == TypeOK /\ SlotOwner /\ SlotHeld /\ Recorded /\ ErrorOwn /\ SnapTaken /\ HistoryTruthful
=============================================================================
