-------------------------------- MODULE Demo --------------------------------
(***************************************************************************)
(* The comparison demo: the request and the worker thread                  *)
(* (gui/routes/demo_bp.py, gui/services/demo_runner.py), the runs of each  *)
(* mode and their folders (demo/run_demo.py), the rendering of what a mode *)
(* kept on the source's time line (demo/demo.py), the split screen         *)
(* (demo/split_screen.py) and the rows that the dashboard lists of it      *)
(* (gui/routes/files_bp.py).                                               *)
(*                                                                         *)
(* A frame is its index in the source.  What a mode keeps of the clip is   *)
(* chosen when its run ends.                                               *)
(***************************************************************************)
EXTENDS Integers, FiniteSets, FiniteSetsExt, Sequences, SequencesExt

CONSTANTS
    Demos,      \* requests to start a demo
    Modes,
    LastFrame,  \* last frame of the clip
    Keeps,      \* the sets of frames that a mode may keep
    HoldMax,    \* gaps of fewer missing frames hold the picture
    Overlap     \* whether two requests may pass the check together

VARIABLES
    running,    \* _demo_state["running"]
    shown,      \* status and result in _demo_state: which demo's manifest
    pc,         \* where each demo is
    suffix,     \* folder number of each demo, 0 before
    kept,       \* frames each demo's modes kept
    video,      \* what each demo rendered, by mode: frames and fillers
    screen,     \* frames of the split screen, by demo
    newest,     \* the demo that wrote the newest manifest.json on disk, 0 without one
    rows        \* per demo, its databases: the modes with rows, the columns of the composite's

demoVars == <<running, shown, pc, suffix, kept, video, screen, newest, rows>>

\* The columns of a segments table that later versions have added (utils/db/schema.py), and
\* those of the table that _index_demo_outputs makes.
AllColumns   == {"hidden", "object_classes", "pose_verified_person_count"}
IndexColumns == {"hidden", "object_classes"}

NoVideo == [m \in Modes |-> <<>>]
NotRunning == {"idle", "refused", "done", "failed"}
Go(d, from, to) == pc[d] = from /\ pc' = [pc EXCEPT ![d] = to]

\* compute_missing_frame_count: the gap in frames less one.
MissingGap(previous, current) == current - previous
Missing(previous, current) == IF current <= previous THEN 0 ELSE current - previous - 1

\* A filler is negative: the picture held, or a skip card.
Hold == -1
Card == -2
Filler(n) == [i \in 1..n |-> IF n < HoldMax THEN Hold ELSE Card]

\* render_demo: each record is preceded by what fills the time since the one before.
Rendered(frames) ==
    FoldLeft(LAMBDA out, f :
                 IF out.prev = -1 THEN [prev |-> f, seq |-> <<f>>]
                 ELSE [prev |-> f, seq |-> out.seq \o Filler(Missing(out.prev, f)) \o <<f>>],
             [prev |-> -1, seq |-> <<>>],
             SetToSortSeq(frames, <)).seq

\* get_next_run_suffix: the first number that no folder has, of this or any demo.
NextSuffix == Min({n \in 1..(Cardinality(Demos) + 1) : \A d \in Demos : suffix[d] # n})

-----------------------------------------------------------------------------
\* api_demo: the check, and later the claim, each under the lock.
Check(d) ==
    /\ pc[d] = "idle"
    /\ Overlap \/ (\A e \in Demos : pc[e] # "claim")
    /\ pc' = [pc EXCEPT ![d] = IF running THEN "refused" ELSE "claim"]
    /\ UNCHANGED <<running, shown, suffix, kept, video, screen, newest, rows>>

Claim(d) ==
    /\ Go(d, "claim", "start") /\ running' = TRUE /\ shown' = <<"queued", 0>>
    /\ UNCHANGED <<suffix, kept, video, screen, newest, rows>>

\* The worker says "running", run_all_demos takes its folders.
Begin(d) ==
    /\ Go(d, "start", "modes") /\ shown' = <<"running", 0>>
    /\ suffix' = [suffix EXCEPT ![d] = NextSuffix]
    /\ UNCHANGED <<running, kept, video, screen, newest, rows>>

\* run_pipeline of each mode in turn, and the rendering of its records.
RunModes(d) ==
    /\ Go(d, "modes", "render")
    /\ \E keep \in [Modes -> Keeps] :
          /\ kept' = [kept EXCEPT ![d] = keep]
          /\ rows' = [rows EXCEPT ![d].modes = {m \in Modes : keep[m] # {}}]
    /\ UNCHANGED <<running, shown, suffix, video, screen, newest>>

\* A mode that kept nothing has no records to render, which ends the demo.
Render(d) ==
    /\ Go(d, "render", "manifest") /\ \A m \in Modes : kept[d][m] # {}
    /\ video' = [video EXCEPT ![d] = [m \in Modes |-> Rendered(kept[d][m])]]
    /\ UNCHANGED <<running, shown, suffix, kept, screen, newest, rows>>

WriteManifest(d) ==
    /\ Go(d, "manifest", "split")
    /\ newest' = d
    /\ UNCHANGED <<running, shown, suffix, kept, video, screen, rows>>

\* build_split_screen_from_manifest: one frame of every mode at a time, until one ends.
Split(d) ==
    /\ Go(d, "split", "index")
    /\ LET n == Min({Len(video[d][m]) : m \in Modes})
       IN  screen' = [screen EXCEPT ![d] = [i \in 1..n |-> [m \in Modes |-> video[d][m][i]]]]
    /\ UNCHANGED <<running, shown, suffix, kept, video, newest, rows>>

\* _index_demo_outputs: a row for the split screen in a database of its own, with a table
\* of its own; a failure is only printed.
Index(d) ==
    /\ Go(d, "index", "locate")
    /\ \E fails \in BOOLEAN :
          rows' = IF fails \/ Cardinality(Modes) = 1 THEN rows
                  ELSE [rows EXCEPT ![d].composite = IndexColumns]
    /\ UNCHANGED <<running, shown, suffix, kept, video, screen, newest>>

\* The newest manifest under the output root becomes the result.
Locate(d) ==
    /\ Go(d, "locate", "done") /\ running' = FALSE
    /\ shown' = <<"done", newest>>
    /\ UNCHANGED <<suffix, kept, video, screen, newest, rows>>

\* Any exception before: a failing run, an empty mode, a damaged file.
FailShowsNewest(d) ==
    /\ pc[d] \in {"modes", "render", "manifest", "split"} /\ pc' = [pc EXCEPT ![d] = "failed"]
    /\ running' = FALSE
    /\ shown' = IF newest = 0 THEN <<"error", 0>> ELSE <<"done", newest>>
    /\ UNCHANGED <<suffix, kept, video, screen, newest, rows>>
FailQuietly(d) ==
    /\ pc[d] \in {"modes", "render", "manifest", "split"} /\ pc' = [pc EXCEPT ![d] = "failed"]
    /\ shown' = <<"error", 0>>
    /\ UNCHANGED <<running, suffix, kept, video, screen, newest, rows>>
Fail(d) ==
    /\ pc[d] \in {"modes", "render", "manifest", "split"} /\ pc' = [pc EXCEPT ![d] = "failed"]
    /\ running' = FALSE /\ shown' = <<"error", 0>>
    /\ UNCHANGED <<suffix, kept, video, screen, newest, rows>>

Init ==
    /\ running = FALSE /\ shown = <<"idle", 0>> /\ pc = [d \in Demos |-> "idle"]
    /\ suffix = [d \in Demos |-> 0] /\ kept = [d \in Demos |-> [m \in Modes |-> {}]]
    /\ video = [d \in Demos |-> NoVideo] /\ screen = [d \in Demos |-> <<>>] /\ newest = 0
    /\ rows = [d \in Demos |-> [modes |-> {}, composite |-> {}]]

DemoStep(d) ==
    \/ Claim(d) \/ Begin(d) \/ RunModes(d) \/ Render(d) \/ WriteManifest(d)
    \/ Split(d) \/ Index(d) \/ Locate(d) \/ Fail(d)
Next == \E d \in Demos : Check(d) \/ DemoStep(d)
Fairness == \A d \in Demos : WF_demoVars(DemoStep(d))
Spec == Init /\ [][Next]_demoVars /\ Fairness
-----------------------------------------------------------------------------
\* In a rendered video the time between two frames is that of the source, however the
\* gaps between them are filled (demo.py: "Aligns frames using source timestamps").
KeepsTime ==
    \A d \in Demos, m \in Modes :
        LET v == video[d][m]
        IN  \A i \in DOMAIN v : v[i] >= 0 => v[i] - v[1] = i - 1

\* When the page says that a demo is done, it shows the newest run that wrote a manifest,
\* and that run is the one that has just ended; a failed run never passes an older result
\* off as its own.  Requests do not overlap.
ShowsOwn ==
    \A d \in Demos : (pc[d] \notin NotRunning /\ pc'[d] \in {"done", "failed"})
        => shown' = <<"error", 0>> \/ (pc'[d] = "done" /\ shown' = <<"done", d>>)
ResultIsOwn == [][ShowsOwn]_demoVars

\* api_segments lists the rows of every metadata.db below the output folder, and passes over
\* a database that lacks a column it asks for.
Listed(d) == rows[d].modes \union (IF AllColumns \subseteq rows[d].composite THEN {"composite"} ELSE {})

\* The composite of a finished demo is listed, and nothing but it (run_demo.py:219-220: "Only
\* the composite is indexed so one demo run shows up as one row").
OneRow == \A d \in Demos : pc[d] = "done" /\ rows[d].composite # {} => Listed(d) = {"composite"}

\* A demo that was claimed ends, and then the next may run.
DemoEnds == running ~> ~running
=============================================================================
