------------------------------- MODULE Update -------------------------------
(***************************************************************************)
(* Self-update of the desktop (gui/services/update_manager.py) and of the  *)
(* phone (update/UpdateManager.kt): check, download to a .part file, move  *)
(* it into place, verify it against the release's SHA256SUMS.txt, install. *)
(* The two do the same steps in different orders, so one module has both;  *)
(* the platform is chosen in Init.  That a newer release is offered is a    *)
(* choice.                                                                 *)
(***************************************************************************)
EXTENDS Naturals, FiniteSets

CONSTANTS
    Downloads,  \* calls of start_download and downloadUpdate
    Installs,   \* calls of install_and_restart and installReadyUpdate
    MaxCrashes  \* bound on the ends of the process

VARIABLES
    phone,      \* the phone's code runs, not the desktop's
    phase,      \* _state["phase"], UpdateState.phase
    path,       \* installer_path or apkFile is set
    part, dest, \* the .part file and the file it becomes
    dl,         \* per download, its step
    inst,       \* per install, its step
    helper,     \* the helper or the system's installer is to read dest
    launched,   \* the contents that were installed
    rivals,     \* a download began beside another one or an installation (history)
    left,       \* dest is an unverified file that was to be discarded (history)
    running, crashes

downloadVars == <<phone, dl>>
installVars  == <<inst, helper, launched>>
vars == <<phase, path, part, dest, downloadVars, installVars, rivals, left, running, crashes>>

Phases   == {"idle", "checking", "downloading", "verifying", "ready", "installing", "error"}
Contents == {"absent", "partial", "bad", "good"}

\* Nothing is under way.
Resting == /\ \A d \in Downloads : dl[d] \in {"new", "offered", "done"}
           /\ \A i \in Installs : inst[i] \in {"new", "done"}
           /\ ~helper

\* A download that has begun, or an installation, is under way beside this one.
Fetching(d) == dl[d] \notin {"new", "check", "offered", "done"}
Rival(d) == \/ \E e \in Downloads \ {d} : Fetching(e)
            \/ \E i \in Installs : inst[i] \notin {"new", "done"}
            \/ helper

-----------------------------------------------------------------------------
(* Downloading *)

\* The phase is busy and start_download answers with the status alone.
Busy == ~phone /\ phase \in {"downloading", "verifying", "installing"}

\* The desktop refuses while it is busy, and asks GitHub without its lock; the phone's
\* button sets the phase.
Check(d) ==
    /\ running /\ dl[d] = "new"
    /\ dl' = [dl EXCEPT ![d] = IF Busy THEN "done" ELSE "check"]
    /\ phase' = IF phone THEN "checking" ELSE phase
    /\ UNCHANGED <<phone, path, part, dest, installVars, rivals, left, running, crashes>>

\* check_for_update found no newer release, or could not ask.
NothingNew(d) ==
    /\ running /\ dl[d] = "check"
    /\ dl' = [dl EXCEPT ![d] = "done"]
    /\ phase' = IF phone THEN "idle" ELSE "error"
    /\ UNCHANGED <<phone, path, part, dest, installVars, rivals, left, running, crashes>>

\* The phone shows the release and waits for its button.
Offer(d) ==
    /\ running /\ phone /\ dl[d] = "check"
    /\ dl' = [dl EXCEPT ![d] = "offered"] /\ phase' = "idle"
    /\ UNCHANGED <<phone, path, part, dest, installVars, rivals, left, running, crashes>>

\* The state is reset for this download, whatever it was by now.
Begin(d) ==
    /\ running
    /\ dl[d] = IF phone THEN "offered" ELSE "check"
    /\ dl' = [dl EXCEPT ![d] = "get"]
    /\ phase' = "downloading" /\ path' = FALSE
    /\ rivals' = (rivals \/ Rival(d))
    /\ UNCHANGED <<phone, part, dest, installVars, left, running, crashes>>

\* The .part file is opened, which empties it.
OpenPart(d) ==
    /\ running /\ dl[d] = "get"
    /\ dl' = [dl EXCEPT ![d] = "read"] /\ part' = "partial"
    /\ UNCHANGED <<phone, phase, path, dest, installVars, rivals, left, running, crashes>>

\* The body ends: complete, or cut off by a connection that closed early.
Read(d) ==
    /\ running /\ dl[d] = "read"
    /\ dl' = [dl EXCEPT ![d] = "move"] /\ part' \in {"good", "bad"}
    /\ UNCHANGED <<phone, phase, path, dest, installVars, rivals, left, running, crashes>>

\* The desktop renames the .part file, the phone copies and deletes it.
Move(d) ==
    /\ running /\ dl[d] = "move" /\ ~phone /\ part # "absent"
    /\ dl' = [dl EXCEPT ![d] = "moved"] /\ dest' = part /\ part' = "absent" /\ left' = FALSE
    /\ UNCHANGED <<phone, phase, path, installVars, rivals, running, crashes>>
OpenDest(d) ==
    /\ running /\ dl[d] = "move" /\ phone /\ part # "absent"
    /\ dl' = [dl EXCEPT ![d] = "copy"] /\ dest' = "partial" /\ left' = FALSE
    /\ UNCHANGED <<phone, phase, path, part, installVars, rivals, running, crashes>>
Copy(d) ==
    /\ running /\ dl[d] = "copy"
    /\ dest' = IF part = "absent" THEN "partial" ELSE part
    /\ part' \in {"absent", part}
    /\ dl' = [dl EXCEPT ![d] = "moved"]
    /\ UNCHANGED <<phone, phase, path, installVars, rivals, left, running, crashes>>

\* The request, the write or the move fails: an error, and no .part file if it can be deleted.
DownloadFails(d) ==
    /\ running /\ dl[d] \in {"get", "read", "move", "copy"}
    /\ dl' = [dl EXCEPT ![d] = "done"]
    /\ phase' = "error" /\ part' \in {"absent", part}
    /\ UNCHANGED <<phone, path, dest, installVars, rivals, left, running, crashes>>

-----------------------------------------------------------------------------
(* Verifying *)

Verify(d) ==
    /\ running /\ dl[d] = "moved"
    /\ dl' = [dl EXCEPT ![d] = "sums"] /\ phase' = "verifying"
    /\ UNCHANGED <<phone, path, part, dest, installVars, rivals, left, running, crashes>>

\* SHA256SUMS.txt lists the file; what it says is what "good" means.
HaveSums(d) ==
    /\ running /\ dl[d] = "sums"
    /\ dl' = [dl EXCEPT ![d] = "hash"]
    /\ UNCHANGED <<phone, phase, path, part, dest, installVars, rivals, left, running, crashes>>

\* A file that cannot be verified is discarded, or stays because it cannot be deleted: the
\* error is swallowed.  The desktop reports before it deletes, the phone after.
Unlink == \/ dest' = "absent" /\ left' = FALSE
          \/ UNCHANGED dest /\ left' = TRUE
Discard(d) ==
    /\ dl' = [dl EXCEPT ![d] = "discard"]
    /\ IF phone THEN Unlink /\ UNCHANGED phase
                ELSE phase' = "error" /\ UNCHANGED <<dest, left>>
    /\ UNCHANGED <<phone, path, part, installVars, rivals, running, crashes>>

DiscardQuietly(d) ==
    /\ dl' = [dl EXCEPT ![d] = "done"] /\ dest' = "absent"
    /\ UNCHANGED <<phone, phase, path, part, installVars, rivals, left, running, crashes>>
NoSumsQuietly(d) == running /\ dl[d] = "sums" /\ DiscardQuietly(d)
NoSumsProceed(d) ==
    /\ running /\ dl[d] = "sums"
    /\ dl' = [dl EXCEPT ![d] = "ready"]
    /\ UNCHANGED <<phone, phase, path, part, dest, installVars, rivals, left, running, crashes>>
NoSums(d) == running /\ dl[d] = "sums" /\ Discard(d)

\* The desktop's _fetch_checksum catches URLError, TimeoutError and OSError; an
\* IncompleteRead is none of them and ends the thread.  A file that is gone when
\* it is hashed ends the thread as well, and on the phone the coroutine.
SumsRaise(d) ==
    /\ running
    /\ \/ ~phone /\ dl[d] = "sums" /\ left' = TRUE
       \/ dl[d] = "hash" /\ dest = "absent" /\ UNCHANGED left
    /\ dl' = [dl EXCEPT ![d] = "done"]
    /\ UNCHANGED <<phone, phase, path, part, dest, installVars, rivals, running, crashes>>

\* The hash is taken of the file as it is now.
Match(d) ==
    /\ running /\ dl[d] = "hash" /\ dest = "good"
    /\ dl' = [dl EXCEPT ![d] = "ready"]
    /\ UNCHANGED <<phone, phase, path, part, dest, installVars, rivals, left, running, crashes>>
Mismatch(d) ==
    /\ running /\ dl[d] = "hash" /\ dest \in {"bad", "partial"} /\ Discard(d)

\* The second half of a discard.
KeepDiscarded(d) ==
    /\ running /\ dl[d] = "discard"
    /\ dl' = [dl EXCEPT ![d] = "done"]
    /\ phase' = "error"
    /\ UNCHANGED <<phone, path, part, dest, installVars, rivals, left, running, crashes>>
Discarded(d) ==
    /\ running /\ dl[d] = "discard"
    /\ dl' = [dl EXCEPT ![d] = "done"]
    /\ IF phone THEN phase' = "error" /\ UNCHANGED <<dest, left>>
                ELSE Unlink /\ UNCHANGED phase
    /\ UNCHANGED <<phone, path, part, installVars, rivals, running, crashes>>

\* The verified file is offered for installation.
Ready(d) ==
    /\ running /\ dl[d] = "ready"
    /\ dl' = [dl EXCEPT ![d] = "done"] /\ phase' = "ready" /\ path' = TRUE
    /\ UNCHANGED <<phone, part, dest, installVars, rivals, left, running, crashes>>

-----------------------------------------------------------------------------
(* Installing *)

\* The snapshot of the state, the refusals, and the check that the file exists.
Install(i) ==
    /\ running /\ inst[i] = "new"
    /\ IF phase = "ready" /\ path /\ dest # "absent"
       THEN inst' = [inst EXCEPT ![i] = "launch"] /\ UNCHANGED phase
       ELSE /\ inst' = [inst EXCEPT ![i] = "done"]
            /\ phase' = IF phone \/ (phase = "ready" /\ path) THEN "error" ELSE phase
    /\ UNCHANGED <<path, part, dest, downloadVars, helper, launched, rivals, left, running, crashes>>

\* The helper is started, and the desktop is to exit in a second; or it is not, with an
\* error, or on a desktop that is no Windows.
Launch(i) ==
    /\ running /\ inst[i] = "launch"
    /\ inst' = [inst EXCEPT ![i] = IF phone THEN "done" ELSE "exit"]
    /\ helper' = TRUE
    /\ phase' = IF phone THEN phase ELSE "installing"
    /\ UNCHANGED <<path, part, dest, downloadVars, launched, rivals, left, running, crashes>>
LaunchFails(i) ==
    /\ running /\ inst[i] = "launch" /\ ~phone
    /\ inst' = [inst EXCEPT ![i] = "done"] /\ phase' \in {"error", phase}
    /\ UNCHANGED <<path, part, dest, downloadVars, helper, launched, rivals, left, running, crashes>>

\* The process is gone, and what it held in memory; the files stay, and with them one
\* whose verdict was still to come.
Gone ==
    /\ running' = FALSE
    /\ phase' = "idle" /\ path' = FALSE
    /\ left' = (left \/ \E d \in Downloads : dl[d] \in {"moved", "sums", "hash", "discard"})
    /\ dl'   = [d \in Downloads |-> IF dl[d] = "new" THEN "new" ELSE "done"]
    /\ inst' = [i \in Installs |-> IF inst[i] = "new" THEN "new" ELSE "done"]
    /\ UNCHANGED <<phone, part, dest, helper, launched, rivals>>
Exit(i) == running /\ inst[i] = "exit" /\ Gone /\ UNCHANGED crashes
Crash   == running /\ crashes < MaxCrashes /\ Gone /\ crashes' = crashes + 1

\* The helper waits for the process to be gone, or for its deadline; the phone's
\* installer opens the file when the user has agreed, who may decline.  Then the app
\* starts again, by the helper or before it by a person.
RunInstaller ==
    /\ helper /\ helper' = FALSE
    /\ launched' = launched \union {dest}
    /\ running' = TRUE
    /\ UNCHANGED <<phase, path, part, dest, downloadVars, inst, rivals, left, crashes>>
Declined ==
    /\ phone /\ helper /\ helper' = FALSE
    /\ UNCHANGED <<phase, path, part, dest, downloadVars, inst, launched, rivals, left, running, crashes>>
Restart ==
    /\ ~running /\ running' = TRUE
    /\ UNCHANGED <<phase, path, part, dest, downloadVars, installVars, rivals, left, crashes>>

-----------------------------------------------------------------------------
Init ==
    /\ phone \in BOOLEAN
    /\ phase = "idle" /\ path = FALSE
    /\ part = "absent" /\ dest = "absent"
    /\ dl = [d \in Downloads |-> "new"] /\ inst = [i \in Installs |-> "new"]
    /\ helper = FALSE /\ launched = {}
    /\ rivals = FALSE /\ left = FALSE
    /\ running = TRUE /\ crashes = 0

DownloadStep(d) ==
    \/ NothingNew(d) \/ Offer(d) \/ (~phone /\ Begin(d)) \/ OpenPart(d) \/ Read(d) \/ Move(d)
    \/ OpenDest(d) \/ Copy(d) \/ DownloadFails(d) \/ Verify(d) \/ HaveSums(d)
    \/ NoSums(d) \/ SumsRaise(d) \/ Match(d) \/ Mismatch(d) \/ Discarded(d) \/ Ready(d)
InstallStep(i) == Launch(i) \/ LaunchFails(i) \/ Exit(i)

Next ==
    \/ \E d \in Downloads : Check(d) \/ (phone /\ Begin(d)) \/ DownloadStep(d)
    \/ \E i \in Installs : Install(i) \/ InstallStep(i)
    \/ RunInstaller \/ Declined \/ Restart \/ Crash

\* The threads and the helper go on by themselves; nobody has to press a button.
Fairness == /\ \A d \in Downloads : WF_vars(DownloadStep(d))
            /\ \A i \in Installs : WF_vars(InstallStep(i))
            /\ WF_vars(RunInstaller) /\ WF_vars(Restart)
Spec     == Init /\ [][Next]_vars
FairSpec == Spec /\ Fairness
-----------------------------------------------------------------------------
(* Properties *)

TypeOK ==
    /\ phone \in BOOLEAN /\ phase \in Phases /\ path \in BOOLEAN
    /\ part \in Contents /\ dest \in Contents
    /\ dl \in [Downloads -> {"new", "check", "offered", "get", "read", "move", "copy",
                             "moved", "sums", "hash", "ready", "discard", "done"}]
    /\ inst \in [Installs -> {"new", "launch", "exit", "done"}]
    /\ helper \in BOOLEAN /\ launched \in SUBSET Contents
    /\ rivals \in BOOLEAN /\ left \in BOOLEAN
    /\ running \in BOOLEAN /\ crashes \in Nat

\* Nothing but a verified file is installed, after however many broken, unverifiable or
\* interrupted downloads to the same name, files that could not be discarded and restarts:
\* as long as no download began beside another one or an installation.  "This can never
\* launch an unverified download" (install_and_restart) is said without that condition;
\* start_download tests the phase once, before it asks GitHub without its lock, and only
\* the phase, so that two of them may write to the same file.
InstalledVerified == rivals \/ launched \subseteq {"good"}

\* A file that the checksum did not vouch for does not stay once the download has ended:
\* what a later start finds in place was verified, unless the file could not be deleted,
\* or the thread or the process ended between the move and the verdict.
DiscardedWhenUnverified ==
    Resting /\ ~rivals /\ ~left => dest \in {"absent", "good", "partial"}

\* The phone's download always comes to a verdict the screen can show.
PhoneSettles ==
    \A d \in Downloads :
        (phone /\ dl[d] = "get") ~> (phase \in {"ready", "error", "idle"})
=============================================================================
