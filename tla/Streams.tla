------------------------------- MODULE Streams ------------------------------
(***************************************************************************)
(* Several cameras read at once (utils/multi_source.py): a thread for each *)
(* puts its frames into a buffer of two, and the caller goes round the     *)
(* cameras taking a frame of each.  A camera may hang, with its thread in  *)
(* the read.  The caller goes round often enough for a frame to be taken   *)
(* before the camera counts as stalled: a stall is counted in the rounds   *)
(* that find no frame.                                                     *)
(***************************************************************************)
EXTENDS Naturals, Sequences

CONSTANTS
    Cameras,        \* 1 .. n, in the order the caller reads them
    LastFrame,      \* bound: the frames of a camera's stream
    BufferSize,     \* BUFFER_SIZE
    Stall,          \* FRAME_TIMEOUT, in rounds of the caller
    Hanging         \* the cameras that may hang

VARIABLES
    phase,          \* of the caller: open, read, release, over
    cursor,         \* the camera it is at
    alive, reader,  \* _running and the thread of each camera
    next, hung,     \* the next frame of a camera, and whether its reads return
    buffer, quiet,  \* the buffered frames, and the rounds since the last one
    got             \* the frames the caller was given, of each camera

vars == <<phase, cursor, alive, reader, next, hung, buffer, quiet, got>>

Forward(from, to) ==
    /\ phase = from
    /\ IF cursor \in Cameras /\ cursor + 1 \in Cameras
       THEN cursor' = cursor + 1 /\ phase' = phase
       ELSE cursor' = 1 /\ phase' = to

-----------------------------------------------------------------------------
(* open, start: a stream that does not open has no thread.                    *)
Open ==
    /\ Forward("open", "read")
    /\ \E opens \in BOOLEAN :
          /\ alive' = [alive EXCEPT ![cursor] = opens]
          /\ reader' = [reader EXCEPT ![cursor] = IF opens THEN "reads" ELSE "none"]
    /\ UNCHANGED <<next, hung, buffer, quiet, got>>

(* _read_loop.                                                                *)
Dropped(frames) == IF Len(frames) > BufferSize THEN Tail(frames) ELSE frames
ReadFrameNoDrop(c) ==
    /\ reader[c] = "reads" /\ ~hung[c] /\ next[c] <= LastFrame
    /\ buffer' = [buffer EXCEPT ![c] = Append(@, next[c])]
    /\ next' = [next EXCEPT ![c] = @ + 1] /\ quiet' = [quiet EXCEPT ![c] = 0]
    /\ UNCHANGED <<phase, cursor, alive, reader, hung, got>>
ReadFrame(c) ==
    /\ reader[c] = "reads" /\ ~hung[c] /\ next[c] <= LastFrame
    /\ buffer' = [buffer EXCEPT ![c] = Dropped(Append(@, next[c]))]
    /\ next' = [next EXCEPT ![c] = @ + 1] /\ quiet' = [quiet EXCEPT ![c] = 0]
    /\ UNCHANGED <<phase, cursor, alive, reader, hung, got>>
Leave(c) ==
    /\ reader[c] = "reads" /\ ~hung[c] /\ (~alive[c] \/ next[c] > LastFrame)
    /\ reader' = [reader EXCEPT ![c] = "left"] /\ alive' = [alive EXCEPT ![c] = FALSE]
    /\ UNCHANGED <<phase, cursor, next, hung, buffer, quiet, got>>
Hang(c) ==
    /\ c \in Hanging /\ reader[c] = "reads" /\ hung' = [hung EXCEPT ![c] = ~@]
    /\ UNCHANGED <<phase, cursor, alive, reader, next, buffer, quiet, got>>

(* read_all, get_frame: the oldest buffered frame, unless the camera ended or  *)
(* stalled.                                                                    *)
Round == Forward("read", "read")
Nothing(c) == quiet' = [quiet EXCEPT ![c] = IF @ > Stall THEN @ ELSE @ + 1] /\ UNCHANGED <<buffer, got>>
TakeNewest(c) ==
    /\ got' = [got EXCEPT ![c] = Append(@, buffer[c][Len(buffer[c])])]
    /\ buffer' = [buffer EXCEPT ![c] = SubSeq(@, 1, Len(@) - 1)] /\ UNCHANGED quiet
Take(c) ==
    /\ got' = [got EXCEPT ![c] = Append(@, Head(buffer[c]))]
    /\ buffer' = [buffer EXCEPT ![c] = Tail(@)] /\ UNCHANGED quiet
GetFrameWaits ==
    /\ Round
    /\ IF buffer[cursor] = <<>> THEN ~alive[cursor] /\ Nothing(cursor) ELSE Take(cursor)
    /\ UNCHANGED <<alive, reader, next, hung>>
GetFrame ==
    /\ Round
    /\ IF buffer[cursor] = <<>> \/ quiet[cursor] > Stall THEN Nothing(cursor) ELSE Take(cursor)
    /\ UNCHANGED <<alive, reader, next, hung>>

(* release, stop: a thread that has not left after two seconds is left behind. *)
Release ==
    /\ phase = "read" /\ phase' = "release" /\ cursor' = 1
    /\ UNCHANGED <<alive, reader, next, hung, buffer, quiet, got>>
StopReader ==
    /\ phase = "release" /\ alive[cursor]
    /\ alive' = [alive EXCEPT ![cursor] = FALSE]
    /\ UNCHANGED <<phase, cursor, reader, next, hung, buffer, quiet, got>>
Join ==
    /\ ~alive[cursor] /\ Forward("release", "over")
    /\ UNCHANGED <<alive, reader, next, hung, buffer, quiet, got>>

Init ==
    /\ phase = "open" /\ cursor = 1
    /\ alive = [c \in Cameras |-> FALSE] /\ reader = [c \in Cameras |-> "none"]
    /\ next = [c \in Cameras |-> 1] /\ hung = [c \in Cameras |-> FALSE]
    /\ buffer = [c \in Cameras |-> <<>>] /\ quiet = [c \in Cameras |-> 0] /\ got = [c \in Cameras |-> <<>>]
ReaderStep(c) == ReadFrame(c) \/ Leave(c)
CallerStep == Open \/ GetFrame \/ StopReader \/ Join
Next == CallerStep \/ Release \/ \E c \in Cameras : ReaderStep(c) \/ Hang(c)
Spec ==
    /\ Init /\ [][Next]_vars
    /\ WF_vars(CallerStep) /\ \A c \in Cameras : WF_vars(ReaderStep(c))

-----------------------------------------------------------------------------
\* The caller gets each camera's frames in the order they were read, and the memory a
\* camera takes is bounded (multi_source.py:39-40).
StreamsInOrder ==
    \A c \in Cameras :
        /\ Len(buffer[c]) <= BufferSize
        /\ \A i \in 1 .. Len(got[c]) - 1 : got[c][i] < got[c][i + 1]

\* A camera that hangs does not keep the others' frames from the caller: what has opened is
\* read to its last frame unless the caller stops (multi_source.py:6), and stopping ends.
StreamsGoOn ==
    /\ \A c \in Cameras \ Hanging :
          reader[c] = "reads" ~> phase \in {"release", "over"} \/ (got[c] # <<>> /\ got[c][Len(got[c])] = LastFrame)
    /\ phase = "release" ~> phase = "over"
=============================================================================
