------------------------------ MODULE MCParts ------------------------------
(***************************************************************************)
(* The parts that keep their own state and talk to no other: each          *)
(* behaviour runs one of them, of those in MCKept, of those in MCClips or  *)
(* of these.  v1 .. v10 hold the state of whichever of these runs.         *)
(*   events:   three frames of at most two boxes around one line and zone  *)
(*   plates:   clips of up to six frames, two looks each                   *)
(*   advice:   clips of up to seven frames, three of them analysed         *)
(*   manifest: two outputs appended while the folder is verified, one      *)
(*             failed write, one change from outside                       *)
(***************************************************************************)
EXTENDS MCKept, MCClips

\* The state of the part that runs, in the order of its module's VARIABLES.
VARIABLES v1, v2, v3, v4, v5, v6, v7, v8, v9, v10

T == INSTANCE TrackEvents WITH
        Far <- 3, Fence <- 1, Zone <- {2, 3}, LoiterFor <- 2, Debounce <- 2, MaxMisses <- 1,
        BoxesMax <- 2, FramesMax <- 3,
        filtered <- v1, engine <- v2, tracks <- v3, nextId <- v4, now <- v5, seen <- v6, raised <- v7, trail <- v8,
        known <- v9, fired <- v10
P == INSTANCE Plates WITH
        Texts <- {"p", "q"}, NoText <- "-", Levels <- {3, 5, 8}, MinLevel <- 4, MinVotes <- 1,
        Stride <- 2, CapMax <- 3, LengthMax <- 6, LooksMax <- 2,
        engine <- v1, stage <- v2, length <- v3, at <- v4, examined <- v5, reads <- v6, result <- v7
A == INSTANCE ContentDetect WITH
        Shares <- {0, 10, 60, 200}, Step <- 2, MaxFrames <- 7, Length <- 7, Warmup <- 1,
        Moving <- 4, Static <- 20, Close <- 180, Idle <- 40, Busy <- 75,
        clip <- v1, warmed <- v2, fractions <- v3, advice <- v4
M == INSTANCE Manifest WITH
        Files <- {"a", "b"}, MaxFaults <- 1, MaxTampers <- 1,
        disk <- v1, lines <- v2, ended <- v3, at <- v4, digest <- v5, prev <- v6, lock <- v7, verifier <- v8, faults <- v9,
        tampers <- v10

\* What the cfg gives to the constants of MCKept and MCClips.
ThreeMachines ==
    {{"Videos", "drive D", "registry personal", "home OneDrive - org", "home Google Drive"},
     {"CloudDocs", "Movies", "home OneDrive"}, {}}
Setting(seconds, crf, ground, encrypt, secret) ==
    [seconds |-> seconds, mode |-> IF seconds = 60 THEN "mode2" ELSE "odd", preset |-> "doorbell",
     crf |-> crf, background |-> ground, encrypt |-> encrypt, knob |-> 1,
     origin |-> IF seconds = -2 THEN "" ELSE "rtsp", secret |-> secret]
SomeSettings == {Setting(n, crf, b, e, x) : n \in {60, 5000}, crf \in {-1, 0, 70}, b \in {-1, 30},
                                            e \in BOOLEAN, x \in {"none", "password"}}
SomeFiles == {Setting(n, 0, 30, TRUE, "password") : n \in {-2, 5, 60}}
Told(preset, mode, origin, failure) ==
    [preset |-> preset, mode |-> mode, codec |-> "libx264", source |-> origin, failure |-> failure]
SameMode == <<"mode0", "mode0">>
ShippedScales == "lapsrn" :> {2, 4, 8} @@ "edsr" :> {2, 3, 4}
TwoDetails == {Told("nothing", "mode1", "rtsp", "none"), Told("mine", "a path", "webcam", "codec")}
SomeSources == {[seconds |-> 2, audio |-> TRUE, rate |-> 4000], [seconds |-> 2, audio |-> FALSE, rate |-> 700]}
TwoDetections == {<<0, 2>>, <<1, 8>>}
TwoSights == {<<1, 2>>, <<5, 3>>}
Earlier(age, share, fell) == [row |-> -age, limit |-> 1, fell |-> fell, pass |-> 1, share |-> share, regions |-> 0]
TwoPasts == {{Earlier(1, 80, FALSE), Earlier(2, share, share = 60), Earlier(3, 80, FALSE)} : share \in {60, 80}}
TwoFolders == "clip" :> "f" @@ "chunk" :> "f" @@ "small" :> "g"
TheirPlaces == "clip" :> "top" @@ "chunk" :> "hls" @@ "small" :> "top"
List(folder, recursive, force, kind) == [folder |-> folder, recursive |-> recursive, force |-> force, kind |-> kind]
ThreeListings == {List("f", FALSE, FALSE, "all"), List("g", TRUE, FALSE, "compressed"), List("unset", TRUE, TRUE, "all")}

slots == <<v1, v2, v3, v4, v5, v6, v7, v8, v9, v10>>
vars  == <<keptVars, clipVars, slots>>

\* The slots that a part does not use, from the first one on.
Free8 == v8 = Nil /\ v9 = Nil /\ v10 = Nil
Free5 == v5 = Nil /\ v6 = Nil /\ v7 = Nil /\ Free8
Free1 == v1 = Nil /\ v2 = Nil /\ v3 = Nil /\ v4 = Nil /\ Free5

Others == {"events", "plates", "advice", "manifest"}
Init ==
    /\ \/ which \in Kept \union Others /\ making = NoPart
       \/ which = Nil /\ making \in Clips
    /\ KeptInit /\ ClipsInit
    /\ \/ which \notin Others /\ Free1
       \/ which = "events"   /\ T!Init
       \/ which = "plates"   /\ P!Init /\ Free8
       \/ which = "advice"   /\ A!Init /\ Free5
       \/ which = "manifest" /\ M!Init

SlotStep ==
    \/ which = "events"   /\ T!Next
    \/ which = "plates"   /\ P!Next /\ UNCHANGED <<v8, v9, v10>>
    \/ which = "advice"   /\ A!Next /\ UNCHANGED <<v5, v6, v7, v8, v9, v10>>
    \/ which = "manifest" /\ M!Next
Next ==
    \/ KeptNext /\ UNCHANGED <<clipVars, slots>>
    \/ ClipsNext /\ UNCHANGED <<keptVars, slots>>
    \/ SlotStep /\ UNCHANGED <<keptVars, clipVars>>

Spec == Init /\ [][Next]_vars
-----------------------------------------------------------------------------
\* Every event is earned: a dwell without a gap, a crossing that happened; none repeats
\* within its debounce, and the crossing of an object alone in the view is not missed.  A
\* plate's verdict rests on as many frames as it needs, and these are spread over the clip.
\* The preset that is advised rests on the frames it should, and more motion never makes it
\* a quieter one.  A mode's average counts every sample of its runs, and each once.  The
\* verification of a manifest shows what was changed and nothing else.
ReportsEarned ==
    /\ which = "events" =>
          T!LoiteringContinuous /\ T!EventsApart /\ T!CrossingsHappened /\ T!CrossingsReported
    /\ which = "plates" => P!VerdictCapped /\ P!SamplesSpread
    /\ which = "advice" => A!AdviceOfSample /\ A!AdviceMonotone
    /\ which = "sampler" => C!AveragesCount
    /\ which = "manifest" => M!TamperShown

\* The engine's docstring: "class_filter: only these labels raise events"; every box here
\* has such a class, and run_pipeline hands over none of them.
FilteredCrossingsReported == which = "events" => T!FilteredCrossingsReported

\* run_pipeline: "the background must match the upscaled frame dimensions"; the one that is
\* learnt while a segment is open is as large as the source, and so is what is written.
ComposedFits == which = "enhancer" => H!ComposedFits
=============================================================================
