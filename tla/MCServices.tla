----------------------------- MODULE MCServices -----------------------------
(***************************************************************************)
(* The small services of the program, which share no state: each behaviour *)
(* runs one of them, while the others rest in an initial state.            *)
(*   streams:  two cameras of three frames, one of which may hang          *)
(*   demo:     two demos one after the other; clips with a held gap, a     *)
(*             card and a late start                                       *)
(*   update:   two downloads to the same file and two installs           *)
(*   watch:    two files that are written while the folder is watched      *)
(***************************************************************************)
EXTENDS Naturals, TLC

CONSTANTS
    Cameras, LastFrame, BufferSize, Stall, Hanging,     \* of Streams; the demo's clip is as long
    Demos, Modes, Keeps, HoldMax, Overlap,              \* of Demo
    Downloads, Installs, MaxCrashes,                    \* of Update
    Files, Full, Checks, PauseMax, FaultsMax            \* of Watchfolder

VARIABLES
    which,
    turn, cursor, alive, reader, next, hung, buffer, quiet, given,
    demoRunning, shown, demoPc, suffix, kept, video, screen, newest, rows,
    phone, phase, path, part, dest, dl, inst, helper, launched, rivals, left, running, crashes,
    size, paused, marks, daemon, todo, current, dry, how, taken, faults

C == INSTANCE Streams WITH phase <- turn, got <- given
D == INSTANCE Demo WITH running <- demoRunning, pc <- demoPc
U == INSTANCE Update
W == INSTANCE Watchfolder

streamVars == <<turn, cursor, alive, reader, next, hung, buffer, quiet, given>>
demoVars   == <<demoRunning, shown, demoPc, suffix, kept, video, screen, newest, rows>>
updateVars == <<phone, phase, path, part, dest, dl, inst, helper, launched, rivals, left, running, crashes>>
watchVars  == <<size, paused, marks, daemon, todo, current, dry, how, taken, faults>>
vars == <<which, streamVars, demoVars, updateVars, watchVars>>

Init ==
    /\ which \in {"streams", "demo", "update", "watch"}
    /\ C!Init /\ D!Init
    /\ W!Init /\ (dry => which = "watch")
    /\ U!Init /\ (phone => which = "update")

Streams == which = "streams" /\ C!Next /\ UNCHANGED <<demoVars, updateVars, watchVars>>
Show    == which = "demo" /\ D!Next /\ UNCHANGED <<streamVars, updateVars, watchVars>>
Update  == which = "update" /\ U!Next /\ UNCHANGED <<streamVars, demoVars, watchVars>>
Watch   == which = "watch" /\ W!Next /\ UNCHANGED <<streamVars, demoVars, updateVars>>
Next == UNCHANGED which /\ (Streams \/ Show \/ Update \/ Watch)

(* The fairness of the service that runs.                                     *)
Fairness ==
    /\ WF_streamVars(which = "streams" /\ C!CallerStep)
    /\ \A c \in Cameras : WF_streamVars(which = "streams" /\ C!ReaderStep(c))
    /\ \A d \in Demos : WF_demoVars(which = "demo" /\ D!DemoStep(d))
    /\ \A d \in Downloads : WF_updateVars(which = "update" /\ U!DownloadStep(d))
    /\ \A i \in Installs : WF_updateVars(which = "update" /\ U!InstallStep(i))
    /\ WF_updateVars(which = "update" /\ U!RunInstaller)
    /\ WF_updateVars(which = "update" /\ U!Restart)
    /\ WF_watchVars(which = "watch" /\ W!Grow) /\ WF_watchVars(which = "watch" /\ W!Daemon)

Spec == Init /\ [][Next]_vars /\ Fairness

-----------------------------------------------------------------------------
\* The frames of several cameras arrive in order, in bounded memory.
FramesInOrder == which = "streams" => C!StreamsInOrder

\* A rendered demo keeps the time of its source.
KeepsTime == which = "demo" => D!KeepsTime

\* run_demo.py on its index: "one demo run shows up as one row"; the rows of the modes are
\* listed as well, and that of the composite is not.
OneRow == which = "demo" => D!OneRow

\* A demo that ends shows its own result, or an error.
ResultIsOwn == [][D!ShowsOwn]_demoVars

\* Only a verified file is installed, and what fails its verification does not stay.
InstalledVerified == which = "update" => U!TypeOK /\ U!InstalledVerified /\ U!DiscardedWhenUnverified

\* A file is hidden from later scans only when it is whole, by an encode that returned or
\* a dry run.
IngestedWhole == which = "watch" => W!IngestedWhole

\* What a service has begun comes to its end: a download on the phone comes to a
\* verdict, a file is ingested for all the pauses, failures and crashes, a demo lets
\* the next one start, a camera is read for all that another hangs.
Settles ==
    /\ U!PhoneSettles /\ D!DemoEnds
    /\ (which = "watch" => W!AllIngested)
    /\ (which = "streams" => C!StreamsGoOn)
=============================================================================
