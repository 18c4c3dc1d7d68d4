----------------------------- MODULE TrackEvents -----------------------------
(***************************************************************************)
(* Behavior events on tracked objects (utils/track_events.py): the greedy  *)
(* tracker, line crossings, loitering and their debounce, stepped once per *)
(* frame by run_pipeline, which appends the events to the event log.       *)
(*                                                                         *)
(* Boxes are one unit wide and stand at 0..Far on a line across the view,  *)
(* so two boxes overlap exactly when they stand at the same place, and a   *)
(* track reaches two and a half units.  Time is counted in frames.         *)
(***************************************************************************)
EXTENDS Integers, Sequences, FiniteSets, SequencesExt

CONSTANTS
    Far,        \* places are 0..Far
    Fence,      \* the place of the line
    Zone,       \* the places of the loiter zone
    LoiterFor,  \* loiter_s, in frames
    Debounce,   \* debounce_s, in frames
    MaxMisses,  \* max_misses
    BoxesMax, FramesMax     \* bounds on the boxes of a frame, and on the frames

Places == 0..Far
Reach  == 2             \* whole units below 2.5 widths
Never  == -1

VARIABLES
    filtered,   \* the camera has a class filter
    engine,     \* the engine of this run is on
    tracks,     \* in the order they were made
    nextId,
    now,        \* frames so far
    seen,       \* boxes of the last frame
    raised,     \* events of the last frame
    trail,      \* boxes of every frame
    known,      \* tracks before the last frame
    fired       \* per kind and track, the frames of its events

vars == <<filtered, engine, tracks, nextId, now, seen, raised, trail, known, fired>>

Dist(a, b) == IF a < b THEN b - a ELSE a - b
Side(p)    == IF p < Fence THEN -1 ELSE IF p > Fence THEN 1 ELSE 0

-----------------------------------------------------------------------------
(* Matching: first by overlap, then by the distance of the centers *)

\* The first of the free boxes that suits track k best, or 0.
ByOverlap(k, boxes, free) ==
    LET ok == {j \in free : boxes[j] = tracks[k].at}
    IN  IF ok = {} THEN 0 ELSE CHOOSE j \in ok : \A i \in ok : j <= i
ByDistance(k, boxes, free) ==
    LET ok == {j \in free : Dist(boxes[j], tracks[k].at) <= Reach}
        d(j) == Dist(boxes[j], tracks[k].at)
    IN  IF ok = {} THEN 0
        ELSE CHOOSE j \in ok : \A i \in ok : d(j) < d(i) \/ (d(j) = d(i) /\ j <= i)

\* One pass over the tracks without a box: each takes the one that suits it best.
Pass(Best(_, _, _), boxes, m) ==
    FoldLeft(LAMBDA a, k :
               IF a.box[k] # 0 THEN a
               ELSE LET j == Best(k, boxes, a.free)
                    IN  [box |-> [a.box EXCEPT ![k] = j], free |-> a.free \ {j}],
             m, [k \in DOMAIN tracks |-> k])
Match(boxes) ==
    Pass(ByDistance, boxes,
      Pass(ByOverlap, boxes,
        [box |-> [k \in DOMAIN tracks |-> 0], free |-> DOMAIN boxes]))

-----------------------------------------------------------------------------
(* One track in one frame *)

\* A track that misses keeps its centers and its debounce; its dwell starts anew.
MissedKeepsDwell(tr) == [tr EXCEPT !.misses = @ + 1]
Missed(tr)   == [tr EXCEPT !.misses = @ + 1, !.entered = Never]
Moved(tr, p) == [tr EXCEPT !.at = p, !.prev = tr.at, !.misses = 0]
NewTrack(p)  == [id |-> nextId, at |-> p, prev |-> Never, misses |-> 0, entered |-> Never,
                 crossed |-> Never, loitered |-> Never]

\* step passes no labels: with a class filter, no track has a class it asks for.
Speaks(tr) == tr.misses = 0 /\ ~filtered

DebouncedAlways(last) == TRUE
Debounced(last) == last = Never \/ now' - last >= Debounce

CrossesAtZero(tr) ==
    /\ Speaks(tr) /\ tr.prev # Never
    /\ Side(tr.prev) # Side(tr.at)
    /\ Debounced(tr.crossed)

Crosses(tr) ==
    /\ Speaks(tr) /\ tr.prev # Never
    /\ Side(tr.prev) * Side(tr.at) = -1
    /\ Debounced(tr.crossed)

\* zone_entered_at of a track that is asked about its zone, then whether it loiters.
Dwelling(tr) == IF tr.at \notin Zone THEN Never
                ELSE IF tr.entered = Never THEN now' ELSE tr.entered
Loiters(tr) ==
    /\ Speaks(tr) /\ Dwelling(tr) # Never
    /\ now' - Dwelling(tr) >= LoiterFor
    /\ Debounced(tr.loitered)

Asked(tr) ==
    IF ~Speaks(tr) THEN tr
    ELSE [tr EXCEPT !.entered  = Dwelling(tr),
                    !.crossed  = IF Crosses(tr) THEN now' ELSE @,
                    !.loitered = IF Loiters(tr) THEN now' ELSE @]

-----------------------------------------------------------------------------
(* One frame *)

\* step: match, drop the tracks missed too often, ask the rest for their events.
Step(boxes) ==
    LET m   == Match(boxes)
        old == [k \in DOMAIN tracks |->
                  IF m.box[k] = 0 THEN Missed(tracks[k]) ELSE Moved(tracks[k], boxes[m.box[k]])]
        made == SetToSortSeq(m.free, <)
        new == [n \in DOMAIN made |-> [NewTrack(boxes[made[n]]) EXCEPT !.id = nextId + n - 1]]
        all == SelectSeq(old \o new, LAMBDA tr : tr.misses <= MaxMisses)
        events == UNION {(IF Crosses(tr) THEN {[kind |-> "line", id |-> tr.id, at |-> tr.at]} ELSE {})
                     \union (IF Loiters(tr) THEN {[kind |-> "loiter", id |-> tr.id, at |-> tr.at]} ELSE {})
                         : tr \in ToSet(all)}
    IN  /\ tracks' = [k \in DOMAIN all |-> Asked(all[k])]
        /\ nextId' = nextId + Len(new)
        /\ raised' = events
        /\ fired'  = fired \union {[kind |-> e.kind, id |-> e.id, when |-> now'] : e \in events}

Frame ==
    /\ now < FramesMax /\ now' = now + 1
    /\ \E boxes \in SeqOf(Places, BoxesMax) :
          /\ seen' = boxes /\ trail' = Append(trail, boxes)
          /\ IF engine THEN Step(boxes) ELSE raised' = {} /\ UNCHANGED <<tracks, nextId, fired>>
    /\ known' = tracks
    /\ UNCHANGED <<filtered, engine>>

\* An exception of the engine or of the log turns events off for the run.
EngineFails ==
    /\ engine /\ engine' = FALSE /\ raised' = {}
    /\ UNCHANGED <<filtered, tracks, nextId, now, seen, trail, known, fired>>

Init ==
    /\ filtered \in BOOLEAN /\ engine = TRUE
    /\ tracks = <<>> /\ nextId = 1 /\ now = 0
    /\ seen = <<>> /\ raised = {} /\ trail = <<>> /\ known = <<>> /\ fired = {}

Next == Frame \/ EngineFails
Spec == Init /\ [][Next]_vars
-----------------------------------------------------------------------------
(* Properties *)

\* "Loitering demands CONTINUOUS observed presence": whatever tracks were matched,
\* missed or taken over, somebody stood in the zone in every frame of the dwell.
LoiteringContinuous ==
    \A e \in raised : e.kind = "loiter" =>
        /\ now > LoiterFor
        /\ \A f \in (now - LoiterFor)..now : ToSet(trail[f]) \intersect Zone # {}

\* "one object must not emit a burst of duplicate events": the events of one kind
\* from one track are at least the debounce time apart.
EventsApart ==
    \A e, f \in fired :
        (e.kind = f.kind /\ e.id = f.id /\ e.when < f.when) => f.when - e.when >= Debounce

\* A crossing that is reported happened: before the gap that a track may coast
\* through, a box stood on the other side of the line.
CrossingsHappened ==
    \A e \in raised : e.kind = "line" =>
        \E f \in 1..(now - 1) :
            /\ now - f <= MaxMisses + 1
            /\ \E p \in ToSet(trail[f]) : Side(p) * Side(e.at) = -1

\* An object alone in the view that steps over the line is reported.
StepsOver ==
    /\ engine /\ Len(known) = 1 /\ now > 1
    /\ Len(seen) = 1 /\ Len(trail[now - 1]) = 1
    /\ Dist(seen[1], trail[now - 1][1]) <= Reach
    /\ Side(seen[1]) * Side(trail[now - 1][1]) = -1
Reported == \E e \in fired : e.kind = "line" /\ now - e.when < Debounce
CrossingsReported == (StepsOver /\ ~filtered) => Reported

\* The engine's docstring: "class_filter: only these labels raise events ... Line-crossing
\* with a class filter is the reliable workhorse".  Every box here has such a class.
FilteredCrossingsReported == StepsOver => Reported
=============================================================================
