-------------------------------- MODULE Setup -------------------------------
(***************************************************************************)
(* Where the outputs go: the folders the first-run page offers             *)
(* (gui/services/cloud_detection.py), the choice and the other settings in *)
(* _status["config"] and their copy on disk (gui_state_persist.py), the    *)
(* factory reset (setup_bp.py, utils/paths.py) and the default that every  *)
(* route falls back to.  Settings change one request at a time: a request  *)
(* that overtakes the write of another is the README's.                    *)
(***************************************************************************)
EXTENDS Naturals, Sequences, FiniteSets, FiniteSetsExt

CONSTANTS
    Homes,      \* the sets of candidate folders that may exist on the machine
    Custom,     \* the folders a user may type
    Policies,   \* the settings of a service: auto-compress, retention
    MaxFaults, MaxRequests  \* bounds

VARIABLES
    there,      \* the candidate folders that exist
    config,     \* _status["config"] and the flags beside it
    file,       \* gui_state.json: "absent", "torn" or a copy
    writing,    \* the snapshots being written, at most one
    chosen,     \* the output folders the user has named since a reset deleted the file
    faults, requests

vars == <<there, config, file, writing, chosen, faults, requests>>

Unset == "unset"
Blank == [output_dir |-> Unset, encrypted_dir |-> Unset, library_folder |-> Unset,
          autocompress |-> Unset, retention |-> Unset, setup_complete |-> FALSE, demo |-> Unset]
Whole(copy) == [state |-> "whole", copy |-> copy]
NoFile == [state |-> "absent", copy |-> Blank]
Torn   == [state |-> "torn", copy |-> Blank]

-----------------------------------------------------------------------------
(* What is offered: the first candidate of each kind that exists.             *)
FirstOf(candidates) == LET found == {i \in DOMAIN candidates : candidates[i] \in there}
                       IN  IF found = {} THEN Unset ELSE candidates[Min(found)]

OneDrive(preferBusiness) ==
    FirstOf(IF preferBusiness
            THEN <<"registry business", "registry personal", "home OneDrive - org", "home OneDrive", "home OneDrive other">>
            ELSE <<"registry personal", "registry business", "home OneDrive", "home OneDrive - org", "home OneDrive other">>)
GDrive == FirstOf(<<"registry My Drive", "registry mount", "drive My Drive", "drive",
                    "home Google Drive/My Drive", "home Google Drive", "home My Drive", "CloudStorage My Drive">>)
ICloud == FirstOf(<<"CloudDocs", "iCloudDrive", "iCloud Drive">>)
CloudRoot == IF OneDrive(TRUE) # Unset THEN OneDrive(TRUE) ELSE GDrive
Drives == there \intersect {"drive C", "drive D"}
VideosDir == LET found == FirstOf(<<"Videos", "Movies", "Documents/Videos">>) IN IF found = Unset THEN "home" ELSE found

Clouds == {OneDrive(TRUE), OneDrive(FALSE), GDrive, ICloud} \ {Unset}
Destinations == {VideosDir} \union Drives \union ({OneDrive(TRUE), GDrive, ICloud} \ {Unset})

(* _default_output_dir: what was chosen, if it is absolute, or a local folder. *)
Absolute(folder) == folder \notin {Unset, "relative"}
DefaultOf(dir) == IF Absolute(dir) THEN dir ELSE VideosDir
DefaultCloud == IF Absolute(config.output_dir) THEN config.output_dir
                ELSE IF CloudRoot # Unset THEN CloudRoot ELSE VideosDir
Default == DefaultOf(config.output_dir)

-----------------------------------------------------------------------------
(* The settings: each request changes the memory and writes a snapshot.       *)
Ready == writing = {} /\ requests < MaxRequests /\ requests' = requests + 1
Saves(new) == config' = new /\ writing' = {new}

\* POST /api/setup/choose.
ChooseUnsaved ==
    /\ Ready
    /\ \E dir \in Destinations \union Custom, enc \in {Unset} \union Custom :
          /\ Absolute(dir)
          /\ config' = [config EXCEPT !.output_dir = dir, !.setup_complete = TRUE,
                                      !.encrypted_dir = IF enc = Unset THEN dir ELSE enc]
          /\ writing' = {} /\ chosen' = chosen \union {dir}
    /\ UNCHANGED <<there, file, faults>>
Choose ==
    /\ Ready
    /\ \E dir \in Destinations \union Custom, enc \in {Unset} \union Custom :
          /\ Absolute(dir)
          /\ Saves([config EXCEPT !.output_dir = dir, !.setup_complete = TRUE,
                                  !.encrypted_dir = IF enc = Unset THEN dir ELSE enc])
          /\ chosen' = chosen \union {dir}
    /\ UNCHANGED <<there, file, faults>>

\* set_autocompress_config, set_retention_config.
Configure ==
    /\ Ready
    /\ \E p \in Policies :
          Saves([config EXCEPT !.autocompress = p]) \/ Saves([config EXCEPT !.retention = p])
    /\ UNCHANGED <<there, file, chosen, faults>>

\* set_library_folder, saved only when it changed.
Browse ==
    /\ Ready
    /\ \E dir \in Custom :
          LET new == [config EXCEPT !.library_folder = dir]
          IN  config' = new /\ writing' = IF new = config THEN {} ELSE {new}
    /\ UNCHANGED <<there, file, chosen, faults>>

\* A run puts its own configuration in the place of config, the other settings with it.
RunStarts ==
    /\ Ready
    /\ \E dir \in {Default} \union Custom :
          /\ Absolute(dir)
          /\ Saves([Blank EXCEPT !.output_dir = dir, !.setup_complete = config.setup_complete, !.demo = config.demo])
          /\ chosen' = chosen \union (Custom \intersect {dir})
    /\ UNCHANGED <<there, file, faults>>
DemoStarts ==
    /\ Ready /\ \E dir \in {Default} \union Custom : Saves([config EXCEPT !.demo = dir])
    /\ UNCHANGED <<there, file, chosen, faults>>

\* The write of a snapshot, in place; a failed one is not reported.
Write ==
    /\ \E copy \in writing :
          \/ file' = Whole(copy) /\ UNCHANGED faults
          \/ faults < MaxFaults /\ faults' = faults + 1 /\ file' = Torn
    /\ writing' = {}
    /\ UNCHANGED <<there, config, chosen, requests>>

(* POST /api/setup/reset: the files go, then what memory knows of the choice.  *)
ResetKeepsMemory ==
    /\ Ready /\ file' = NoFile /\ chosen' = {}
    /\ config' = [config EXCEPT !.setup_complete = FALSE] /\ UNCHANGED <<there, writing, faults>>

\* A file that cannot be deleted is passed over and stays.
StateFileStays ==
    /\ file.state # "absent" /\ faults < MaxFaults /\ faults' = faults + 1
    /\ UNCHANGED <<file, chosen>>
Reset ==
    /\ Ready
    /\ \/ file' = NoFile /\ chosen' = {} /\ UNCHANGED faults
       \/ StateFileStays
    /\ config' = [config EXCEPT !.output_dir = Unset, !.encrypted_dir = Unset, !.setup_complete = FALSE]
    /\ UNCHANGED <<there, writing>>

(* _load_gui_state, into an empty memory.  A file that cannot be read is as none. *)
Restart ==
    /\ \/ writing = {} /\ UNCHANGED <<file, faults>>
       \/ writing # {} /\ faults < MaxFaults /\ faults' = faults + 1 /\ file' \in {file, Torn}
    /\ config' = file'.copy
    /\ writing' = {}
    /\ UNCHANGED <<there, chosen, requests>>

Init ==
    /\ there \in Homes /\ config = Blank /\ file = NoFile /\ writing = {} /\ chosen = {}
    /\ faults = 0 /\ requests = 0
Next == Choose \/ Configure \/ Browse \/ RunStarts \/ DemoStarts \/ Write \/ Reset \/ Restart
Spec == Init /\ [][Next]_vars

-----------------------------------------------------------------------------
\* Outputs never go to a cloud folder the user has not chosen since the last reset that
\* deleted gui_state.json: no sequence of runs, demos, resets and restarts makes one the
\* default (cloud_detection.py:41-55).  After a reset that could not delete the file, a
\* restart brings the choice back (reset_state passes over the error, paths.py:187-194).
DefaultIsChosen == Default \in Clouds => Default \in chosen

\* At rest and without a failed write a restart finds the destination that memory holds, and
\* of the other settings what memory holds or, after a reset, nothing.
ChoiceLasts ==
    writing = {} /\ faults = 0 =>
        /\ \A k \in {"output_dir", "encrypted_dir", "setup_complete"} : file.copy[k] = config[k]
        /\ \A k \in {"library_folder", "autocompress", "retention", "demo"} : file.copy[k] \in {config[k], Unset}
=============================================================================
