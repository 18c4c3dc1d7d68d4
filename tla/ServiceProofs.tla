---------------------------- MODULE ServiceProofs ----------------------------
(***************************************************************************)
(* Proofs about the services that MCServices runs (the cameras of Streams,  *)
(* the demo, the self-update and the watch folder) and about the parts that *)
(* MCClips runs (the object filter, the search for a CRF, the encoder, the  *)
(* layers, the library and the phone).  Each is about one of them, for      *)
(* every value of its constants, and about the module as a whole, in whose  *)
(* behaviours one of them runs and the others rest.                         *)
(***************************************************************************)
EXTENDS MCServices, MCClips, FiniteSetTheorems, SequenceTheorems, WellFoundedInduction, TLAPS

-----------------------------------------------------------------------------
(* MCServices *)

\* A behaviour of MCServices is one of each service, as what runs leaves the others alone.
THEOREM EachRuns ==
    Spec => /\ C!Init /\ [][C!Next]_(C!vars)
            /\ D!Init /\ [][D!Next]_(D!demoVars)
            /\ U!Init /\ [][U!Next]_(U!vars)
            /\ W!Init /\ [][W!Next]_(W!vars)
<1>1. Init => C!Init /\ D!Init /\ U!Init /\ W!Init
  BY DEF Init
<1>2. /\ UNCHANGED streamVars => UNCHANGED C!vars
      /\ UNCHANGED demoVars => UNCHANGED D!demoVars
      /\ UNCHANGED updateVars => UNCHANGED U!vars
      /\ UNCHANGED watchVars => UNCHANGED W!vars
  BY DEF streamVars, demoVars, updateVars, watchVars, C!vars, D!demoVars, U!vars, U!downloadVars,
         U!installVars, W!vars
<1>3. [Next]_vars => /\ [C!Next]_(C!vars) /\ [D!Next]_(D!demoVars)
                     /\ [U!Next]_(U!vars) /\ [W!Next]_(W!vars)
  BY <1>2 DEF Next, Streams, Show, Update, Watch, vars
<1> QED BY <1>1, <1>3, PTL DEF Spec

-----------------------------------------------------------------------------
(* Streams *)

\* The cameras are numbered, and the buffer holds a frame (BUFFER_SIZE is 2).
StreamConstants ==
    /\ \E n \in Nat \ {0} : Cameras = 1..n
    /\ BufferSize \in Nat \ {0} /\ LastFrame \in Nat

\* What is buffered comes after what was given, and both come in order before frame n.
InOrder(b, n, g) ==
    /\ Len(b) <= BufferSize
    /\ \A i \in 1 .. Len(b) : b[i] < n
    /\ \A i, j \in 1 .. Len(b) : i < j => b[i] < b[j]
    /\ \A i \in 1 .. Len(g) : g[i] < n
    /\ \A i \in 1 .. Len(g), j \in 1 .. Len(b) : g[i] < b[j]
    /\ \A i \in 1 .. Len(g) - 1 : g[i] < g[i + 1]

\* The invariant of the reader threads and the caller.
StreamsInv ==
    /\ turn \in {"open", "read", "release", "over"} /\ cursor \in Cameras
    /\ next \in [Cameras -> Nat] /\ buffer \in [Cameras -> Seq(Nat)] /\ given \in [Cameras -> Seq(Nat)]
    /\ \A c \in Cameras : InOrder(buffer[c], next[c], given[c])

\* A frame that is read goes to the end of a buffer that drops its oldest (_read_loop).
LEMMA Buffering ==
    ASSUME StreamConstants, NEW b \in Seq(Nat), NEW n \in Nat, NEW g \in Seq(Nat), InOrder(b, n, g)
    PROVE  /\ C!Dropped(Append(b, n)) \in Seq(Nat)
           /\ InOrder(C!Dropped(Append(b, n)), n + 1, g)
<1> DEFINE a == Append(b, n)
<1>1. /\ a \in Seq(Nat) /\ Len(a) = Len(b) + 1
      /\ \A i \in 1 .. Len(b) : a[i] = b[i]
      /\ a[Len(b) + 1] = n
  OBVIOUS
<1>2. /\ \A i, j \in 1 .. Len(a) : i < j => a[i] < a[j]
      /\ \A i \in 1 .. Len(a) : a[i] < n + 1
      /\ \A i \in 1 .. Len(g), j \in 1 .. Len(a) : g[i] < a[j]
  BY <1>1 DEF InOrder
<1> HIDE DEF a
<1>0. C!Dropped(a) = IF Len(a) > BufferSize THEN Tail(a) ELSE a
  BY DEF C!Dropped
<1>3. CASE Len(a) <= BufferSize
  <2>1. \A i \in 1 .. Len(g) : g[i] < n + 1
    BY DEF InOrder
  <2>2. InOrder(a, n + 1, g)
    BY <1>2, <1>3, <2>1 DEF InOrder
  <2>3. C!Dropped(a) = a
    BY <1>0, <1>1, <1>3 DEF StreamConstants
  <2> QED BY <1>1, <2>2, <2>3 DEF a
<1>4. CASE Len(a) > BufferSize
  <2>1. /\ Tail(a) \in Seq(Nat) /\ Len(Tail(a)) = Len(b)
        /\ \A i \in 1 .. Len(b) : Tail(a)[i] = a[i + 1]
    BY <1>1
  <2> DEFINE t == Tail(a)
  <2> HIDE DEF t
  <2>0. /\ Len(t) = Len(b) /\ Len(b) <= BufferSize
        /\ \A i \in 1 .. Len(t) : t[i] = a[i + 1] /\ i + 1 \in 1 .. Len(a)
    BY <1>1, <2>1 DEF InOrder, t
  <2>2. /\ \A i \in 1 .. Len(t) : t[i] < n + 1
        /\ \A i \in 1 .. Len(g), j \in 1 .. Len(t) : g[i] < t[j]
    BY <1>2, <2>0
  <2>3. \A i, j \in 1 .. Len(t) : i < j => t[i] < t[j]
    <3> TAKE i, j \in 1 .. Len(t)
    <3> HAVE i < j
    <3>0. i + 1 \in 1 .. Len(a) /\ j + 1 \in 1 .. Len(a) /\ i + 1 < j + 1
      BY <2>0
    <3>1. a[i + 1] < a[j + 1]
      BY <1>2, <3>0
    <3> QED BY <3>1, <2>0
  <2>4. \A i \in 1 .. Len(g) : g[i] < n + 1
    BY DEF InOrder
  <2>5. InOrder(t, n + 1, g)
    BY <2>0, <2>2, <2>3, <2>4 DEF InOrder
  <2> QED BY <1>0, <1>4, <2>1, <2>5 DEF a, t
<1> QED BY <1>1, <1>3, <1>4 DEF StreamConstants

\* The oldest buffered frame is given to the caller (get_frame).
LEMMA Taking ==
    ASSUME StreamConstants, NEW b \in Seq(Nat), b # <<>>, NEW n \in Nat, NEW g \in Seq(Nat), InOrder(b, n, g)
    PROVE  /\ Tail(b) \in Seq(Nat) /\ Append(g, Head(b)) \in Seq(Nat)
           /\ InOrder(Tail(b), n, Append(g, Head(b)))
<1> DEFINE h == Append(g, Head(b))
<1>1. /\ Tail(b) \in Seq(Nat) /\ Len(Tail(b)) = Len(b) - 1 /\ Len(b) > 0
      /\ \A i \in 1 .. Len(b) - 1 : Tail(b)[i] = b[i + 1]
      /\ Head(b) = b[1] /\ b[1] \in Nat
  OBVIOUS
<1>2. /\ h \in Seq(Nat) /\ Len(h) = Len(g) + 1 /\ h[Len(g) + 1] = b[1]
      /\ \A i \in 1 .. Len(g) : h[i] = g[i]
  BY <1>1
<1> HIDE DEF h
<1> DEFINE t == Tail(b)
<1> HIDE DEF t
<1>3. /\ Len(t) <= BufferSize
      /\ \A i \in 1 .. Len(t) : t[i] < n
      /\ \A i, j \in 1 .. Len(t) : i < j => t[i] < t[j]
  BY <1>1 DEF InOrder, StreamConstants, t
<1>4. \A j \in 1 .. Len(t) : t[j] = b[j + 1] /\ j + 1 \in 1 .. Len(b) /\ b[1] < b[j + 1]
  BY <1>1 DEF InOrder, t
<1>5. /\ b[1] < n
      /\ \A i \in 1 .. Len(g) : g[i] < n /\ g[i] < b[1]
      /\ \A i \in 1 .. Len(g), j \in 1 .. Len(b) : g[i] < b[j]
      /\ \A i \in 1 .. Len(g) - 1 : g[i] < g[i + 1]
  BY <1>1 DEF InOrder
<1>6. /\ \A i \in 1 .. Len(g) + 1 : i \in 1 .. Len(g) \/ i = Len(g) + 1
      /\ \A i \in 1 .. Len(g) : i = Len(g) \/ (i \in 1 .. Len(g) - 1 /\ i + 1 \in 1 .. Len(g))
  OBVIOUS
<1>8. \A i \in 1 .. Len(h) : h[i] < n
  BY <1>2, <1>5, <1>6
<1>9. \A i \in 1 .. Len(h) - 1 : h[i] < h[i + 1]
  <2> SUFFICES ASSUME NEW i \in 1 .. Len(h) - 1 PROVE h[i] < h[i + 1]
    OBVIOUS
  <2>1. i \in 1 .. Len(g) /\ h[i] = g[i]
    BY <1>2
  <2>2. CASE i = Len(g)
    BY <1>2, <1>5, <2>1, <2>2
  <2>3. CASE i # Len(g)
    <3>1. i \in 1 .. Len(g) - 1 /\ i + 1 \in 1 .. Len(g)
      BY <2>1, <2>3
    <3> QED BY <1>2, <1>5, <2>1, <3>1
  <2> QED BY <2>2, <2>3
<1>10. \A i \in 1 .. Len(h), j \in 1 .. Len(t) : h[i] < t[j]
  BY <1>2, <1>4, <1>5, <1>6
<1>7. InOrder(t, n, h)
  BY <1>3, <1>8, <1>9, <1>10 DEF InOrder
<1> QED BY <1>1, <1>2, <1>7 DEF h, t

\* Before the cameras are opened nothing is buffered or given.
LEMMA StreamsStart == StreamConstants /\ C!Init => StreamsInv
  BY DEF StreamConstants, StreamsInv, InOrder, C!Init

\* A round of the caller starts at a camera.
LEMMA FirstCamera == StreamConstants => 1 \in Cameras
  BY DEF StreamConstants

\* A thread reads a frame.
LEMMA Reads ==
    ASSUME StreamConstants, StreamsInv, NEW c \in Cameras, C!ReadFrame(c)
    PROVE  StreamsInv'
<1>1. /\ C!Dropped(Append(buffer[c], next[c])) \in Seq(Nat)
      /\ InOrder(C!Dropped(Append(buffer[c], next[c])), next[c] + 1, given[c])
  BY Buffering DEF StreamsInv
<1>2. /\ buffer' = [buffer EXCEPT ![c] = C!Dropped(Append(buffer[c], next[c]))]
      /\ next' = [next EXCEPT ![c] = next[c] + 1] /\ UNCHANGED <<turn, cursor, given>>
  BY DEF C!ReadFrame
<1> QED BY <1>1, <1>2 DEF StreamsInv

\* The caller asks a camera for a frame, and is given one or none.
LEMMA Gets ==
    ASSUME StreamConstants, StreamsInv, C!GetFrame
    PROVE  StreamsInv'
<1>1. /\ turn' \in {"open", "read", "release", "over"} /\ cursor' \in Cameras
      /\ UNCHANGED next
  BY FirstCamera DEF StreamsInv, C!GetFrame, C!Round, C!Forward
<1>2. CASE C!Take(cursor) /\ buffer[cursor] # <<>>
  <2>1. /\ Tail(buffer[cursor]) \in Seq(Nat) /\ Append(given[cursor], Head(buffer[cursor])) \in Seq(Nat)
        /\ InOrder(Tail(buffer[cursor]), next[cursor], Append(given[cursor], Head(buffer[cursor])))
    BY <1>2, Taking DEF StreamsInv
  <2>2. /\ given' = [given EXCEPT ![cursor] = Append(given[cursor], Head(buffer[cursor]))]
        /\ buffer' = [buffer EXCEPT ![cursor] = Tail(buffer[cursor])]
    BY <1>2 DEF C!Take
  <2> QED BY <1>1, <2>1, <2>2 DEF StreamsInv
<1>3. CASE C!Nothing(cursor)
  BY <1>1, <1>3 DEF StreamsInv, C!Nothing
<1> QED BY <1>2, <1>3 DEF C!GetFrame

\* Nothing else touches a frame.
LEMMA OtherStreamSteps ==
    ASSUME StreamConstants, StreamsInv,
           C!Open \/ C!Release \/ C!StopReader \/ C!Join \/ \E c \in Cameras : C!Leave(c) \/ C!Hang(c)
    PROVE  StreamsInv'
<1>1. /\ turn' \in {"open", "read", "release", "over"} /\ cursor' \in Cameras
  BY FirstCamera DEF StreamsInv, C!Open, C!Forward, C!Release, C!StopReader, C!Join, C!Leave, C!Hang
<1>2. UNCHANGED <<next, buffer, given>>
  BY DEF C!Open, C!Forward, C!Release, C!StopReader, C!Join, C!Leave, C!Hang
<1> QED BY <1>1, <1>2 DEF StreamsInv

\* What is buffered and given stays in order in every behaviour of the cameras.
THEOREM StreamsIsInductive == StreamConstants => (C!Init /\ [][C!Next]_(C!vars) => []StreamsInv)
<1> SUFFICES ASSUME StreamConstants PROVE C!Init /\ [][C!Next]_(C!vars) => []StreamsInv
  OBVIOUS
<1>1. StreamsInv /\ UNCHANGED C!vars => StreamsInv'
  BY DEF C!vars, StreamsInv
<1>2. StreamsInv /\ [C!Next]_(C!vars) => StreamsInv'
  BY <1>1, Reads, Gets, OtherStreamSteps DEF C!Next, C!CallerStep, C!ReaderStep
<1> QED BY StreamsStart, <1>2, PTL

\* The caller gets each camera's frames in the order they were read, and a camera's buffer
\* never outgrows BUFFER_SIZE, however many cameras hang, end or are released meanwhile.
THEOREM FramesComeInOrder == StreamConstants => (Spec => []FramesInOrder)
<1> SUFFICES ASSUME StreamConstants PROVE Spec => []FramesInOrder
  OBVIOUS
<1>1. StreamsInv => FramesInOrder
  BY DEF StreamsInv, InOrder, C!StreamsInOrder, FramesInOrder
<1> QED BY <1>1, StreamsIsInductive, EachRuns, PTL

-----------------------------------------------------------------------------
(* Demo *)

\* A request that was let in and has not ended.
Busy(d) == demoPc[d] \notin D!NotRunning

\* One demo is busy at a time, it has set the flag that refuses the next, and what it has
\* written is the newest manifest until it ends.
DemoInv ==
    /\ demoPc \in [Demos -> D!NotRunning \union {"claim", "start", "modes", "render", "manifest",
                                             "split", "index", "locate"}]
    /\ \A d, e \in Demos : Busy(d) /\ Busy(e) => d = e
    /\ \A d \in Demos : Busy(d) => demoPc[d] = "claim" \/ demoRunning
    /\ \A d \in Demos : demoPc[d] \in {"split", "index", "locate"} => newest = d

\* No demo has been asked for.
LEMMA DemoStarts == D!Init => DemoInv
  BY DEF DemoInv, Busy, D!Init, D!NotRunning

\* A step of a request or of its worker.
LEMMA DemoSteps ==
    ASSUME ~Overlap, DemoInv, NEW d \in Demos, D!Check(d) \/ D!DemoStep(d)
    PROVE  DemoInv' /\ D!ShowsOwn
<1> USE DEF DemoInv, Busy, D!NotRunning, D!Go, D!DemoStep, D!Check, D!Claim, D!Begin, D!RunModes,
            D!Render, D!WriteManifest, D!Split, D!Index, D!Locate, D!Fail
<1>1. DemoInv'
  OBVIOUS
<1>2. D!ShowsOwn
  BY DEF D!ShowsOwn
<1> QED BY <1>1, <1>2

\* When requests do not pass the check together, the page shows at the end of a demo that
\* demo's manifest or an error, after however many demos that failed or were refused
\* (demo_runner.py).
THEOREM DemoShowsItsOwnResult == ~Overlap => (Spec => ResultIsOwn)
<1> SUFFICES ASSUME ~Overlap PROVE Spec => ResultIsOwn
  OBVIOUS
<1>1. DemoInv /\ [D!Next]_(D!demoVars) => DemoInv' /\ [D!ShowsOwn]_(D!demoVars)
  <2>1. DemoInv /\ UNCHANGED D!demoVars => DemoInv'
    BY DEF DemoInv, Busy, D!demoVars
  <2> QED BY <2>1, DemoSteps DEF D!Next
<1>2. UNCHANGED D!demoVars => UNCHANGED demoVars
  BY DEF D!demoVars, demoVars
<1>3. [D!ShowsOwn]_(D!demoVars) => [D!ShowsOwn]_demoVars
  BY <1>2
<1> QED BY DemoStarts, <1>1, <1>3, EachRuns, PTL DEF ResultIsOwn

-----------------------------------------------------------------------------
(* Update *)

\* A download that has begun has withdrawn the offer before it touches the file; no other
\* one, and no installation, is under way.
Withdrawn ==
    /\ \A d, e \in Downloads : U!Fetching(d) /\ U!Fetching(e) => d = e
    /\ \A d \in Downloads : U!Fetching(d) =>
          ~path /\ ~helper /\ \A i \in Installs : inst[i] \in {"new", "done"}

\* What is offered, about to be installed or installed was verified.
Vouched ==
    /\ path \/ helper => dest = "good"
    /\ \A d \in Downloads : dl[d] = "ready" => dest = "good"
    /\ \A i \in Installs : inst[i] \in {"launch", "exit"} => dest = "good"
    /\ launched \subseteq {"good"}

\* A file that the checksum does not vouch for is under verification, is about to be
\* discarded, which the phone does at once, or could not be.
UnderVerification ==
    dest = "bad" =>
        \/ left
        \/ \E d \in Downloads : dl[d] \in {"moved", "sums", "hash"} \/ (~phone /\ dl[d] = "discard")

\* The invariant of the update, as long as no download began beside another one or an
\* installation.
UpdateInv == U!TypeOK /\ (rivals \/ (Withdrawn /\ Vouched /\ UnderVerification))

\* The process has just started, with nothing downloaded.
LEMMA UpdateStarts == U!Init => UpdateInv
<1> SUFFICES ASSUME U!Init PROVE UpdateInv
  OBVIOUS
<1> USE DEF U!Init
<1>1. U!TypeOK
 BY DEF U!TypeOK, U!Contents, U!Phases
<1>2. Withdrawn /\ Vouched /\ UnderVerification
 BY DEF U!Fetching, Withdrawn, Vouched, UnderVerification
<1> QED BY <1>1, <1>2 DEF UpdateInv

\* The steps of a download, from its check to its verdict.
LEMMA DownloadTypes ==
    ASSUME U!TypeOK, NEW d \in Downloads, U!Check(d) \/ U!Begin(d) \/ U!DownloadStep(d)
    PROVE  U!TypeOK'
<1> USE DEF U!TypeOK, U!Contents, U!Phases, U!installVars, U!Busy, U!Discard, U!Unlink
<1>1. CASE U!Check(d)
  BY <1>1, ZenonT(30) DEF U!Check
<1>2. CASE U!NothingNew(d)
  BY <1>2, ZenonT(30) DEF U!NothingNew
<1>3. CASE U!Offer(d)
  BY <1>3, ZenonT(30) DEF U!Offer
<1>4. CASE U!Begin(d)
  <2>1. rivals' \in BOOLEAN
    BY <1>4 DEF U!Begin
  <2> QED BY <1>4, <2>1, ZenonT(30) DEF U!Begin
<1>5. CASE U!OpenPart(d)
  BY <1>5, ZenonT(30) DEF U!OpenPart
<1>6. CASE U!Read(d)
  BY <1>6, ZenonT(30) DEF U!Read
<1>7. CASE U!Move(d)
  BY <1>7, ZenonT(30) DEF U!Move
<1>8. CASE U!OpenDest(d)
  BY <1>8, ZenonT(30) DEF U!OpenDest
<1>9. CASE U!Copy(d)
  BY <1>9, ZenonT(30) DEF U!Copy
<1>10. CASE U!DownloadFails(d)
  BY <1>10, ZenonT(30) DEF U!DownloadFails
<1>11. CASE U!Verify(d)
  BY <1>11, ZenonT(30) DEF U!Verify
<1>12. CASE U!HaveSums(d)
  BY <1>12 DEF U!HaveSums
<1>13. CASE U!NoSums(d)
  BY <1>13, ZenonT(30) DEF U!NoSums
<1>14. CASE U!SumsRaise(d)
  BY <1>14, ZenonT(30) DEF U!SumsRaise
<1>15. CASE U!Match(d)
  BY <1>15, ZenonT(30) DEF U!Match
<1>16. CASE U!Mismatch(d)
  BY <1>16, ZenonT(30) DEF U!Mismatch
<1>17. CASE U!Discarded(d)
  BY <1>17, ZenonT(30) DEF U!Discarded
<1>18. CASE U!Ready(d)
  BY <1>18, ZenonT(30) DEF U!Ready
<1> QED BY <1>1, <1>2, <1>3, <1>4, <1>5, <1>6, <1>7, <1>8, <1>9, <1>10,
           <1>11, <1>12, <1>13, <1>14, <1>15, <1>16, <1>17, <1>18 DEF U!DownloadStep

LEMMA DownloadSteps ==
    ASSUME UpdateInv, NEW d \in Downloads, U!Check(d) \/ U!Begin(d) \/ U!DownloadStep(d)
    PROVE  UpdateInv'
<1>1. U!TypeOK'
  BY DownloadTypes DEF UpdateInv
<1>2. rivals => rivals'
  BY DEF UpdateInv, U!TypeOK, U!DownloadStep, U!Check, U!NothingNew, U!Offer, U!Begin, U!OpenPart,
         U!Read, U!Move, U!OpenDest, U!Copy, U!DownloadFails, U!Verify, U!HaveSums, U!NoSums,
         U!SumsRaise, U!Match, U!Mismatch, U!Discarded, U!Ready, U!Discard
<1>3. ASSUME ~rivals' PROVE Withdrawn' /\ Vouched' /\ UnderVerification'
  <2> USE <1>2, <1>3 DEF UpdateInv, U!TypeOK, U!installVars, U!Busy, U!Discard, U!Unlink
  <2>1. CASE U!Begin(d)
    <3>1. Withdrawn'
      BY <2>1 DEF U!Begin, U!Fetching, U!Rival, Withdrawn
    <3>2. Vouched' /\ UnderVerification'
      BY <2>1 DEF U!Begin, U!Fetching, U!Rival, Vouched, UnderVerification
    <3> QED BY <3>1, <3>2
  <2>2. CASE U!Check(d)
    BY <2>2 DEF U!Check, U!Fetching, Withdrawn, Vouched, UnderVerification
  <2>3. CASE U!NothingNew(d)
    BY <2>3 DEF U!NothingNew, U!Fetching, Withdrawn, Vouched, UnderVerification
  <2>4. CASE U!Offer(d)
    BY <2>4 DEF U!Offer, U!Fetching, Withdrawn, Vouched, UnderVerification
  <2>5. CASE U!OpenPart(d)
    BY <2>5 DEF U!OpenPart, U!Fetching, Withdrawn, Vouched, UnderVerification
  <2>6. CASE U!Read(d)
    BY <2>6 DEF U!Read, U!Fetching, Withdrawn, Vouched, UnderVerification
  <2>7. CASE U!Move(d)
    BY <2>7 DEF U!Move, U!Fetching, Withdrawn, Vouched, UnderVerification
  <2>8. CASE U!OpenDest(d)
    BY <2>8 DEF U!OpenDest, U!Fetching, Withdrawn, Vouched, UnderVerification
  <2>9. CASE U!Copy(d)
    BY <2>9 DEF U!Copy, U!Fetching, Withdrawn, Vouched, UnderVerification
  <2>10. CASE U!DownloadFails(d)
    BY <2>10 DEF U!DownloadFails, U!Fetching, Withdrawn, Vouched, UnderVerification
  <2>11. CASE U!Verify(d)
    BY <2>11 DEF U!Verify, U!Fetching, Withdrawn, Vouched, UnderVerification
  <2>12. CASE U!HaveSums(d)
    BY <2>12 DEF U!HaveSums, U!Fetching, Withdrawn, Vouched, UnderVerification
  <2>13. CASE U!NoSums(d)
    BY <2>13 DEF U!NoSums, U!Fetching, Withdrawn, Vouched, UnderVerification
  <2>14. CASE U!SumsRaise(d)
    BY <2>14 DEF U!SumsRaise, U!Fetching, Withdrawn, Vouched, UnderVerification
  <2>15. CASE U!Match(d)
    BY <2>15 DEF U!Match, U!Fetching, Withdrawn, Vouched, UnderVerification
  <2>16. CASE U!Mismatch(d)
    BY <2>16 DEF U!Mismatch, U!Fetching, Withdrawn, Vouched, UnderVerification
  <2>17. CASE U!Discarded(d)
    BY <2>17 DEF U!Discarded, U!Fetching, Withdrawn, Vouched, UnderVerification
  <2>18. CASE U!Ready(d)
    BY <2>18 DEF U!Ready, U!Fetching, Withdrawn, Vouched, UnderVerification
  <2> QED BY <2>1, <2>2, <2>3, <2>4, <2>5, <2>6, <2>7, <2>8, <2>9, <2>10,
             <2>11, <2>12, <2>13, <2>14, <2>15, <2>16, <2>17, <2>18 DEF U!DownloadStep
<1>4. rivals' \in BOOLEAN
  BY <1>1 DEF U!TypeOK
<1> QED BY <1>1, <1>3, <1>4 DEF UpdateInv

\* The install requests, up to the exit of the process.
LEMMA InstallTypes ==
    ASSUME U!TypeOK, NEW i \in Installs, U!Install(i) \/ U!InstallStep(i)
    PROVE  U!TypeOK' /\ rivals' = rivals
<1> USE DEF U!TypeOK, U!Phases, U!downloadVars
<1>1. CASE U!Install(i)
  <2>1. inst' \in [Installs -> {"new", "launch", "exit", "done"}] /\ phase' \in U!Phases
    BY <1>1 DEF U!Install
  <2>2. UNCHANGED <<phone, path, part, dest, dl, helper, launched, rivals, left, running, crashes>>
    BY <1>1 DEF U!Install
  <2> QED BY <2>1, <2>2, ZenonT(30)
<1>2. CASE U!Launch(i)
  <2>1. inst' \in [Installs -> {"new", "launch", "exit", "done"}] /\ phase' \in U!Phases /\ helper' = TRUE
    BY <1>2 DEF U!Launch
  <2>2. UNCHANGED <<phone, path, part, dest, dl, launched, rivals, left, running, crashes>>
    BY <1>2 DEF U!Launch
  <2> QED BY <2>1, <2>2, ZenonT(30)
<1>3. CASE U!LaunchFails(i)
  <2>1. inst' \in [Installs -> {"new", "launch", "exit", "done"}] /\ phase' \in U!Phases
    BY <1>3 DEF U!LaunchFails
  <2>2. UNCHANGED <<phone, path, part, dest, dl, helper, launched, rivals, left, running, crashes>>
    BY <1>3 DEF U!LaunchFails
  <2> QED BY <2>1, <2>2, ZenonT(30)
<1>4. CASE U!Exit(i)
  <2>1. /\ dl' \in [Downloads -> {"new", "done"}] /\ inst' \in [Installs -> {"new", "done"}]
        /\ phase' = "idle" /\ path' = FALSE /\ running' = FALSE /\ left' \in BOOLEAN
        /\ UNCHANGED <<phone, part, dest, helper, launched, rivals, crashes>>
    BY <1>4 DEF U!Exit, U!Gone
  <2> QED BY <2>1
<1> QED BY <1>1, <1>2, <1>3, <1>4 DEF U!InstallStep

LEMMA InstallSteps ==
    ASSUME UpdateInv, NEW i \in Installs, U!Install(i) \/ U!InstallStep(i)
    PROVE  UpdateInv'
<1> USE DEF UpdateInv, U!TypeOK, U!Phases, U!Fetching,
            U!downloadVars, U!InstallStep, U!Install, U!Launch, U!LaunchFails, U!Exit, U!Gone
<1>1. U!TypeOK' /\ rivals' = rivals
  BY InstallTypes DEF UpdateInv
<1>2. ~rivals => Withdrawn'
  BY DEF Withdrawn, Vouched
<1>3. ~rivals => Vouched'
  BY DEF Vouched
<1>4. ~rivals => UnderVerification'
  BY DEF UnderVerification
<1> QED BY <1>1, <1>2, <1>3, <1>4

\* The helper, a restart and the end of the process.
LEMMA ProcessTypes ==
    ASSUME U!TypeOK, U!RunInstaller \/ U!Declined \/ U!Restart \/ U!Crash
    PROVE  U!TypeOK' /\ rivals' = rivals
<1> USE DEF U!TypeOK, U!downloadVars, U!installVars
<1>1. CASE U!RunInstaller
  <2>1. launched' \in SUBSET U!Contents
    BY <1>1 DEF U!RunInstaller
  <2>2. /\ helper' = FALSE /\ running' = TRUE
        /\ UNCHANGED <<phone, phase, path, part, dest, dl, inst, rivals, left, crashes>>
    BY <1>1 DEF U!RunInstaller
  <2> QED BY <2>1, <2>2, ZenonT(30)
<1>2. CASE U!Declined
  BY <1>2, ZenonT(30) DEF U!Declined
<1>3. CASE U!Restart
  BY <1>3, ZenonT(30) DEF U!Restart
<1>4. CASE U!Crash
  <2>1. crashes' \in Nat
    BY <1>4 DEF U!Crash
  <2>2. /\ dl' \in [Downloads -> {"new", "done"}] /\ inst' \in [Installs -> {"new", "done"}]
        /\ phase' = "idle" /\ path' = FALSE /\ running' = FALSE /\ left' \in BOOLEAN
        /\ UNCHANGED <<phone, part, dest, helper, launched, rivals>>
    BY <1>4 DEF U!Crash, U!Gone
  <2> QED BY <2>1, <2>2 DEF U!Phases
<1> QED BY <1>1, <1>2, <1>3, <1>4

LEMMA ProcessSteps ==
    ASSUME UpdateInv, U!RunInstaller \/ U!Declined \/ U!Restart \/ U!Crash
    PROVE  UpdateInv'
<1> USE DEF UpdateInv, U!TypeOK, U!Phases, U!Contents, U!Fetching,
            U!downloadVars, U!installVars, U!RunInstaller, U!Declined, U!Restart, U!Crash, U!Gone
<1>1. U!TypeOK' /\ rivals' = rivals
  BY ProcessTypes DEF UpdateInv
<1>2. ~rivals => Withdrawn'
  BY DEF Withdrawn
<1>3. ~rivals => Vouched'
  BY DEF Vouched
<1>4. ~rivals => UnderVerification'
  BY DEF UnderVerification
<1> QED BY <1>1, <1>2, <1>3, <1>4

\* A step of something else.
LEMMA UpdateStutters == UpdateInv /\ UNCHANGED U!vars => UpdateInv'
  BY DEF UpdateInv, U!vars, U!TypeOK, U!downloadVars, U!installVars, U!Fetching,
         Withdrawn, Vouched, UnderVerification

\* The invariant holds in every behaviour: until a download begins beside another one or an
\* installation, the offer is withdrawn before the file is touched, and what is offered or
\* installed was verified (update_manager.py, UpdateManager.kt).
THEOREM UpdateIsInductive == U!Init /\ [][U!Next]_(U!vars) => []UpdateInv
<1>1. UpdateInv /\ [U!Next]_(U!vars) => UpdateInv'
  BY DownloadSteps, InstallSteps, ProcessSteps, UpdateStutters DEF U!Next
<1> QED BY UpdateStarts, <1>1, PTL

\* Until a download begins beside another one or an installation, nothing but a file that the
\* checksum vouched for is installed, on the desktop and on the phone, after any number of
\* broken, unverifiable and interrupted downloads, failed deletions, installs and restarts;
\* and a file that it does not vouch for stays behind only when it could not be deleted or
\* its verdict never came.
THEOREM OnlyVerifiedIsInstalled == Spec => []InstalledVerified
<1>1. UpdateInv => InstalledVerified
  BY DEF UpdateInv, Withdrawn, Vouched, UnderVerification, U!DiscardedWhenUnverified, U!Resting,
         U!TypeOK, U!Contents, U!InstalledVerified, InstalledVerified
<1> QED BY UpdateIsInductive, EachRuns, <1>1, PTL

-----------------------------------------------------------------------------
(* Watchfolder *)

\* The daemon looks at a file for longer than a writer pauses.
WatchConstants ==
    /\ Files # {} /\ Full \in Nat \ {0} /\ PauseMax \in Nat
    /\ Checks \in Nat /\ Checks > PauseMax

\* Every variable holds a value of its kind.
WatchTypeOK ==
    /\ size \in [Files -> 0..Full] /\ paused \in [Files -> 0..PauseMax]
    /\ marks \in [Files -> SUBSET {"processing", "ingested"}]
    /\ daemon \in {"off", "sleep", "scan", "poll", "encode", "run", "done"}
    /\ todo \subseteq Files
    /\ current \in [file : Files, seen : 0..Full, left : 0..Checks]
    /\ dry \in BOOLEAN /\ how \in [Files -> {"none", "all", "early", "cut", "dry"}]
    /\ taken \in [Files -> 0..Full] /\ faults \in Nat

\* A file that is still unfinished and has kept its size since it was first seen has been
\* paused for every poll since; so a file that passes the last poll is finished.
Seen == size[current.file] = current.seen
Settled ==
    /\ \A f \in todo : size[f] > 0
    /\ daemon = "poll" =>
          /\ current.left > 0 /\ current.seen > 0 /\ size[current.file] >= current.seen
          /\ Seen /\ current.seen < Full => paused[current.file] >= Checks - current.left
    /\ daemon \in {"encode", "run"} => size[current.file] = Full

\* The invariant of the watch folder.
WatchInv == WatchTypeOK /\ Settled /\ W!IngestedWhole

\* No file has been begun.
LEMMA WatchStarts ==
    ASSUME WatchConstants, W!Init
    PROVE  WatchInv
  BY DEF WatchConstants, WatchInv, WatchTypeOK, Settled, W!IngestedWhole, W!Init, W!Nobody

\* A writer writes to a file, which may be the one that the daemon looks at.
LEMMA WriterSteps ==
    ASSUME WatchConstants, WatchInv, W!Grow
    PROVE  WatchInv'
<1> USE DEF WatchConstants, WatchInv, WatchTypeOK, W!Grow
<1>1. WatchTypeOK'
  OBVIOUS
<1>2. Settled'
  BY DEF Settled, Seen
<1>3. W!IngestedWhole'
  BY DEF W!IngestedWhole
<1> QED BY <1>1, <1>2, <1>3

\* The stability poll.
LEMMA PollSteps ==
    ASSUME WatchConstants, WatchInv, W!Poll
    PROVE  WatchInv'
<1> USE DEF WatchConstants, WatchInv, WatchTypeOK, W!Poll, W!Settle
<1>1. WatchTypeOK'
  BY DEF Settled
<1>2. Settled'
  BY DEF Settled, Seen
<1>3. W!IngestedWhole'
  BY DEF W!IngestedWhole
<1> QED BY <1>1, <1>2, <1>3

\* The scan, and a start of the daemon.
LEMMA ScanSteps ==
    ASSUME WatchConstants, WatchInv, W!Scan \/ W!EndScan \/ W!Try \/ W!Start
    PROVE  WatchInv'
<1> USE DEF WatchConstants, WatchInv, WatchTypeOK, W!Scan, W!EndScan, W!Try, W!Start
<1>1. WatchTypeOK'
  OBVIOUS
<1>2. Settled'
  BY DEF Settled, Seen
<1>3. W!IngestedWhole'
  BY DEF W!IngestedWhole
<1> QED BY <1>1, <1>2, <1>3

\* The encode of a file, and the ways it may be cut short.
LEMMA EncodeSteps ==
    ASSUME WatchConstants, WatchInv,
           \/ W!Mark \/ W!MarkDry \/ W!MarkFails \/ W!EncodeEnds \/ W!Clear
           \/ W!EncodeFails \/ W!Interrupt \/ W!Crash
    PROVE  WatchInv'
<1> USE DEF WatchConstants, WatchInv, WatchTypeOK
<1>1. CASE W!Mark \/ W!MarkFails \/ W!Clear \/ W!EncodeFails \/ W!Crash
  BY <1>1 DEF W!Mark, W!MarkFails, W!Clear, W!EncodeFails, W!Crash, Settled, Seen, W!IngestedWhole
<1>2. ASSUME NEW manner \in {"all", "early", "cut", "dry"}, NEW n \in 0..Full,
             manner = "all" => n = Full, W!MarkIngested(manner, n),
             daemon \in {"encode", "run"}, daemon' \in {"scan", "done"}, faults' \in Nat,
             UNCHANGED <<size, paused, todo, current, dry>>
      PROVE  WatchInv'
  <2>1. WatchTypeOK'
    BY <1>2 DEF W!MarkIngested
  <2>2. Settled'
    BY <1>2 DEF Settled, Seen
  <2>3. W!IngestedWhole'
    BY <1>2 DEF W!IngestedWhole, W!MarkIngested, Settled
  <2> QED BY <2>1, <2>2, <2>3
<1>3. CASE W!MarkDry
  BY <1>2, <1>3 DEF W!MarkDry
<1>4. CASE W!EncodeEnds
  BY <1>2, <1>4 DEF W!EncodeEnds, Settled
<1>5. CASE W!Interrupt
  <2>1. CASE daemon = "run"
    BY <1>2, <1>5, <2>1 DEF W!Interrupt, Settled
  <2>2. CASE daemon # "run"
    BY <1>5, <2>2 DEF W!Interrupt, Settled, Seen, W!IngestedWhole
  <2> QED BY <2>1, <2>2
<1> QED BY <1>1, <1>3, <1>4, <1>5

\* The invariant holds in every behaviour of the writers and the daemon.
THEOREM WatchIsInductive == WatchConstants => (W!Init /\ [][W!Next]_(W!vars) => []WatchInv)
<1> SUFFICES ASSUME WatchConstants PROVE W!Init /\ [][W!Next]_(W!vars) => []WatchInv
  OBVIOUS
<1>1. WatchInv /\ UNCHANGED W!vars => WatchInv'
  BY DEF W!vars, WatchInv, WatchTypeOK, Settled, Seen, W!IngestedWhole
<1>2. WatchInv /\ [W!Next]_(W!vars) => WatchInv'
  BY <1>1, WriterSteps, PollSteps, ScanSteps, EncodeSteps DEF W!Next, W!Daemon
<1> QED BY WatchStarts, <1>2, PTL

\* A file is hidden from later scans only when it is whole, by a dry run or by an encode
\* that returned, whatever is written, fails or crashes meanwhile, when no writer pauses
\* for as many polls as the daemon makes.
THEOREM IngestedFilesAreWhole == WatchConstants => (Spec => []IngestedWhole)
<1> SUFFICES ASSUME WatchConstants PROVE Spec => []IngestedWhole
  OBVIOUS
<1>1. WatchInv => IngestedWhole
  BY DEF WatchInv, IngestedWhole
<1> QED BY <1>1, WatchIsInductive, EachRuns, PTL

\* A set of numbers has a least one.
LEMMA LeastNumber ==
    ASSUME NEW T \in SUBSET Nat, T # {}
    PROVE  \E x \in T : \A y \in T : x <= y
<1> DEFINE Less == OpToRel(<, Nat)
<1>1. IsWellFoundedOn(Less, Nat)
  BY NatLessThanWellFounded
<1>2. \A x, y \in Nat : x < y => <<x, y>> \in Less
  BY DEF OpToRel
<1> HIDE DEF Less
<1>3. PICK x \in T : \A y \in T : ~(<<y, x>> \in Less)
  BY <1>1, WFMin
<1>4. \A y \in T : ~(y < x)
  BY <1>2, <1>3
<1>5. x \in Nat /\ \A y \in T : y \in Nat
  OBVIOUS
<1> QED BY <1>4, <1>5

-----------------------------------------------------------------------------
(* The search for a CRF *)

\* The window of CRFs is not empty, and a score is a number.
SearchConstants ==
    /\ CrfFirst \in Int /\ CrfLast \in Int /\ CrfFirst <= CrfLast
    /\ MaxScore \in Nat /\ Wanted \in Int

\* The invariant of the search: what met the target lies below what did not, the window is
\* bounded by the closest of both, and only a CRF that met the target is kept or answered.
Met(c) == c \in Q!CRFs /\ quality[c] >= Wanted
Window ==
    /\ Q!Above = {} => best = Q!None /\ lower = CrfFirst
    /\ Q!Above # {} => best \in Q!Above /\ lower = best /\ \A a \in Q!Above : a <= lower
    /\ Q!Below = {} => upper = CrfLast
    /\ Q!Below # {} => upper \in Q!Below /\ \A b \in Q!Below : upper <= b
SearchInv ==
    /\ quality \in [Q!CRFs -> 0..MaxScore] /\ step \in {"idle", "probe", "done"}
    /\ measured \subseteq Q!CRFs
    /\ Window
    /\ searches \in Nat /\ (step = "probe" => searches # 0)
    /\ step = "probe" /\ measured # {} => upper - lower > 1
    /\ cachedCrf = Q!None \/ (Met(cachedCrf) /\ searches # 0)
    /\ step = "done" /\ verdict[2] = "none" => Met(verdict[1])
    /\ step = "done" /\ best # Q!None /\ upper - lower <= 1 => verdict[1] = best

\* The window is one of CRFs.
LEMMA WindowOfCrfs ==
    ASSUME SearchConstants, Window, measured \subseteq Q!CRFs
    PROVE  lower \in Q!CRFs /\ upper \in Q!CRFs /\ lower \in Int /\ upper \in Int
<1>1. /\ Q!Above \subseteq measured /\ Q!Below \subseteq measured /\ Q!CRFs \subseteq Int
      /\ CrfFirst \in Q!CRFs /\ CrfLast \in Q!CRFs
  BY DEF Q!Above, Q!Below, Q!CRFs, SearchConstants
<1>2. lower \in Q!CRFs
  <2>1. lower = CrfFirst \/ lower \in Q!Above
    BY DEF Window
  <2> QED BY <1>1, <2>1
<1>3. upper \in Q!CRFs
  <2>1. upper = CrfLast \/ upper \in Q!Below
    BY DEF Window
  <2> QED BY <1>1, <2>1
<1> QED BY <1>1, <1>2, <1>3

LEMMA PairParts ==
    ASSUME NEW a, NEW b
    PROVE  <<a, b>>[1] = a /\ <<a, b>>[2] = b
OBVIOUS

LEMMA MaxOfTwo ==
    ASSUME NEW a \in Int, NEW b \in Int
    PROVE  Q!Max({a, b}) = (IF a >= b THEN a ELSE b)
BY DEF Q!Max

LEMMA MinOfTwo ==
    ASSUME NEW a \in Int, NEW b \in Int
    PROVE  Q!Min({a, b}) = (IF a <= b THEN a ELSE b)
BY DEF Q!Min

LEMMA ClampBounds ==
    ASSUME NEW lo \in Int, NEW hi \in Int, lo <= hi, NEW x \in Int
    PROVE  /\ Q!Clamp(lo, hi, x) \in lo..hi
           /\ x \in lo..hi => Q!Clamp(lo, hi, x) = x
<1>1. Q!Min({hi, x}) = IF hi <= x THEN hi ELSE x
  BY MinOfTwo
<1>2. Q!Min({hi, x}) \in Int
  BY <1>1
<1>3. Q!Max({lo, Q!Min({hi, x})}) = IF lo >= Q!Min({hi, x}) THEN lo ELSE Q!Min({hi, x})
  BY <1>2, MaxOfTwo
<1> QED BY <1>1, <1>3 DEF Q!Clamp

LEMMA RoundedIsWhole ==
    ASSUME NEW a \in Int, NEW b \in Int, b > 0
    PROVE  Q!Rounded(a, b) \in Int
<1>1. a \div b \in Int
  OBVIOUS
<1> QED BY <1>1 DEF Q!Rounded

\* The next CRF to measure lies between what met the target and what did not.
LEMMA ProbeBetween ==
    ASSUME SearchConstants, SearchInv, step = "probe", Q!Probe \notin measured
    PROVE  /\ Q!Probe \in Q!CRFs
           /\ \A a \in Q!Above : a < Q!Probe
           /\ \A b \in Q!Below : Q!Probe < b
<1> DEFINE mid == (lower + upper) \div 2
<1> HIDE DEF mid
<1>00. /\ CrfFirst \in Int /\ CrfLast \in Int /\ CrfFirst <= CrfLast /\ Wanted \in Int
       /\ \A c \in Q!CRFs : quality[c] \in Int
       /\ measured \subseteq Q!CRFs
       /\ Q!CRFs \subseteq Int
  BY DEF SearchInv, SearchConstants, Q!CRFs
<1>0. /\ Q!Above \subseteq Q!CRFs /\ Q!Below \subseteq Q!CRFs /\ Q!Above \union Q!Below = measured
      /\ \A c \in Q!Above : quality[c] \in Int /\ quality[c] >= Wanted
      /\ \A c \in Q!Below : quality[c] \in Int /\ quality[c] < Wanted
  <2>1. /\ Q!Above \subseteq measured /\ Q!Below \subseteq measured /\ Q!Above \union Q!Below = measured
        /\ \A c \in Q!Above : quality[c] >= Wanted
        /\ \A c \in Q!Below : ~(quality[c] >= Wanted)
    BY DEF Q!Above, Q!Below
  <2> QED BY <2>1, <1>00
<1>1. CASE Q!Above # {} /\ Q!Below # {}
  <2>1. /\ lower \in Q!Above /\ \A a \in Q!Above : lower >= a
        /\ upper \in Q!Below /\ \A b \in Q!Below : upper <= b
    BY <1>1 DEF SearchInv, Window
  <2>2. Q!Max(Q!Above) = lower
    <3>1. \A m \in Q!Above : (\A a \in Q!Above : m >= a) => m = lower
      BY <1>00, <1>0, <2>1
    <3> QED BY <2>1, <3>1 DEF Q!Max
  <2>3. Q!Min(Q!Below) = upper
    <3>1. \A m \in Q!Below : (\A b \in Q!Below : m <= b) => m = upper
      BY <1>00, <1>0, <2>1
    <3> QED BY <2>1, <3>1 DEF Q!Min
  <2>4. upper - lower > 1 /\ lower \in Int /\ upper \in Int /\ lower \in CrfFirst..CrfLast /\ upper \in CrfFirst..CrfLast
    BY <1>0, <1>1, <2>1 DEF SearchInv, Q!CRFs
  <2>5. quality[lower] - quality[upper] \in Int /\ quality[lower] - quality[upper] > 0
    BY <1>0, <2>1 DEF SearchConstants
  <2> DEFINE x == Q!Rounded(lower * (quality[lower] - quality[upper]) + (quality[lower] - Wanted) * (upper - lower),
                            quality[lower] - quality[upper])
  <2>6. x \in Int
    <3>1. lower * (quality[lower] - quality[upper]) \in Int
      BY <2>4, <2>5
    <3>2. (quality[lower] - Wanted) * (upper - lower) \in Int
      BY <1>0, <2>1, <2>4 DEF SearchConstants
    <3> QED BY <3>1, <3>2, <2>5, RoundedIsWhole
  <2>7. Q!Interpolate = Q!Clamp(lower + 1, upper - 1, x)
    BY <1>1, <2>2, <2>3, <2>4 DEF Q!Interpolate
  <2> HIDE DEF x
  <2>8. Q!Interpolate \in (lower + 1)..(upper - 1)
    BY <2>4, <2>6, <2>7, ClampBounds
  <2>9. Q!Probe = Q!Interpolate
    <3>1. Q!Interpolate \in Int /\ Q!Interpolate \in CrfFirst..CrfLast
      BY <1>00, <2>4, <2>8
    <3> QED BY <1>00, <3>1, ClampBounds DEF Q!Probe
  <2>10. Q!Probe \in Int /\ Q!Probe > lower /\ Q!Probe < upper
    BY <2>4, <2>8, <2>9
  <2> QED BY <1>00, <1>0, <2>1, <2>4, <2>10 DEF Q!CRFs
<1>2. CASE ~(Q!Above # {} /\ Q!Below # {})
  <2>1. Q!Interpolate = mid
    BY <1>2 DEF Q!Interpolate, mid
  <2>2. /\ lower \in CrfFirst..CrfLast /\ \A a \in Q!Above : a <= lower
        /\ upper \in CrfFirst..CrfLast /\ \A b \in Q!Below : upper <= b
    <3>1. lower \in CrfFirst..CrfLast /\ \A a \in Q!Above : a <= lower
      <4>1. CASE Q!Above = {}
        BY <1>00, <4>1 DEF SearchInv, Window
      <4>2. CASE Q!Above # {}
        BY <1>0, <4>2 DEF SearchInv, Window, Q!CRFs
      <4> QED BY <4>1, <4>2
    <3>2. upper \in CrfFirst..CrfLast /\ \A b \in Q!Below : upper <= b
      <4>1. CASE Q!Below = {}
        BY <1>00, <4>1 DEF SearchInv, Window
      <4>2. CASE Q!Below # {}
        BY <1>0, <4>2 DEF SearchInv, Window, Q!CRFs
      <4> QED BY <4>1, <4>2
    <3> QED BY <3>1, <3>2
  <2>3. lower \in Int /\ upper \in Int /\ lower <= upper
    <3>1. Q!Above = {} \/ Q!Below = {}
      BY <1>2
    <3>2. Q!Above = {} => lower = CrfFirst
      BY DEF SearchInv, Window
    <3>3. Q!Below = {} => upper = CrfLast
      BY DEF SearchInv, Window
    <3> QED BY <1>00, <2>2, <3>1, <3>2, <3>3
  <2>4. mid \in Int /\ lower <= mid /\ mid <= upper
    BY <2>3 DEF mid
  <2>5. Q!Probe = mid
    <3>1. mid \in CrfFirst..CrfLast
      BY <1>00, <2>2, <2>3, <2>4
    <3> QED BY <1>00, <2>1, <2>4, <3>1, ClampBounds DEF Q!Probe
  <2>6. measured # {} => lower < mid /\ mid < upper
    <3>1. measured # {} => upper - lower > 1
      BY DEF SearchInv
    <3> QED BY <2>3, <3>1 DEF mid
  <2>7. \A a \in Q!Above : a < mid
    BY <1>00, <1>0, <2>2, <2>3, <2>4, <2>6
  <2>8. \A b \in Q!Below : mid < b
    BY <1>00, <1>0, <2>2, <2>3, <2>4, <2>6
  <2>9. mid \in Q!CRFs
    BY <1>00, <2>2, <2>3, <2>4 DEF Q!CRFs
  <2> QED BY <2>5, <2>7, <2>8, <2>9
<1> QED BY <1>1, <1>2

LEMMA SearchStarts ==
    ASSUME SearchConstants, Q!Init
    PROVE  SearchInv
<1>1. quality \in [Q!CRFs -> 0..MaxScore]
  BY DEF Q!Init, SearchConstants
<1>2. Q!Above = {} /\ Q!Below = {}
  BY DEF Q!Init, Q!Above, Q!Below
<1> QED BY <1>1, <1>2 DEF Q!Init, SearchInv, Window

\* What a search that ends leaves behind, from the window after its last step.
LEMMA SearchFinishes ==
    ASSUME SearchConstants, SearchInv, step = "probe", Q!Finish, UNCHANGED <<quality, searches>>,
           Window', measured' \subseteq Q!CRFs
    PROVE  SearchInv'
<1>1. /\ quality \in [Q!CRFs -> 0..MaxScore] /\ searches \in Nat /\ searches # 0
      /\ cachedCrf = Q!None \/ Met(cachedCrf)
  BY DEF SearchInv
<1>2. (\A c : Met(c))' = (\A c : Met(c)) /\ \A c : Met(c) => (c \in Q!CRFs /\ quality'[c] >= Wanted)
  BY DEF Met
<1>3. best' # Q!None => best' \in Q!CRFs /\ quality'[best'] >= Wanted
  <2>1. best' # Q!None => best' \in Q!Above'
    BY DEF Window
  <2> QED BY <2>1 DEF Q!Above
<1>4. step' = "done"
  BY DEF Q!Finish
<1>5. cachedCrf' = Q!None \/ (cachedCrf' \in Q!CRFs /\ quality'[cachedCrf'] >= Wanted)
  BY <1>1, <1>2, <1>3 DEF Q!Finish
<1>7. best' # Q!None => verdict'[1] = best'
  BY DEF Q!Finish
<1>8. best' = Q!None => verdict'[2] # "none"
  <2>1. best' = Q!None => verdict' = <<Fixed, "target not met">>
    BY DEF Q!Finish
  <2>2. <<Fixed, "target not met">>[2] = "target not met"
    BY PairParts
  <2>3. "target not met" # "none"
    OBVIOUS
  <2> QED BY <2>1, <2>2, <2>3, Zenon
<1>6. verdict'[2] = "none" => verdict'[1] \in Q!CRFs /\ quality'[verdict'[1]] >= Wanted
  BY <1>3, <1>7, <1>8
<1> QED BY <1>1, <1>4, <1>5, <1>6, <1>7 DEF SearchInv, Met

LEMMA SearchBegins ==
    ASSUME SearchConstants, SearchInv, Q!Begin
    PROVE  SearchInv'
<1>1. Window' /\ measured' = {} /\ best' = Q!None
  <2>1. measured' = {}
    BY DEF Q!Begin
  <2>2. Q!Above' = {} /\ Q!Below' = {}
    BY <2>1 DEF Q!Above, Q!Below
  <2> QED BY <2>1, <2>2 DEF Q!Begin, Window
<1>2. searches' = searches + 1 /\ searches \in Nat /\ cachedCrf' = cachedCrf
  BY DEF Q!Begin, SearchInv
<1>3. searches' \in Nat /\ searches' # 0
  BY <1>2
<1>4. quality' \in [Q!CRFs -> 0..MaxScore] /\ (searches # 0 => quality' = quality)
  BY DEF Q!Begin, SearchInv
<1>5. cachedCrf' = Q!None \/ (cachedCrf' \in Q!CRFs /\ quality'[cachedCrf'] >= Wanted)
  BY <1>2, <1>4 DEF SearchInv, Met
<1>6. step' \in {"probe", "done"}
  BY DEF Q!Begin
<1>7. step' = "done" /\ verdict'[2] = "none" => verdict'[1] = cachedCrf' /\ cachedCrf' # Q!None
  <2>1. \/ step' = "probe"
        \/ verdict'[2] = "cannot run"
        \/ verdict'[1] = cachedCrf /\ cachedCrf # Q!None
    <3>1. \/ step' = "probe"
          \/ verdict' = <<Fixed, "cannot run">>
          \/ verdict' = <<cachedCrf, "none">> /\ cachedCrf # Q!None
      BY DEF Q!Begin
    <3>2. <<Fixed, "cannot run">>[2] = "cannot run" /\ <<cachedCrf, "none">>[1] = cachedCrf
      BY PairParts
    <3> QED BY <3>1, <3>2, Zenon
  <2> QED BY <1>2, <2>1
<1> QED BY <1>1, <1>3, <1>4, <1>5, <1>6, <1>7 DEF SearchInv, Met

LEMMA SearchMeasures ==
    ASSUME SearchConstants, SearchInv, Q!Measure
    PROVE  SearchInv'
<1>1. /\ step = "probe" /\ Q!Probe \notin measured
      /\ measured' = measured \union {Q!Probe} /\ quality' = quality /\ searches' = searches
  BY DEF Q!Measure
<1>2. /\ Q!Probe \in Q!CRFs
      /\ \A a \in Q!Above : a < Q!Probe
      /\ \A b \in Q!Below : Q!Probe < b
  BY <1>1, ProbeBetween
<1>3. /\ measured \subseteq Q!CRFs /\ measured' \subseteq Q!CRFs /\ Q!Above \subseteq measured /\ Q!Below \subseteq measured
      /\ CrfFirst \in Int /\ CrfLast \in Int /\ Q!CRFs \subseteq Int /\ Q!None \in Int
      /\ Q!None = CrfFirst - 1 /\ \A c \in Q!CRFs : CrfFirst <= c
  BY <1>1, <1>2 DEF SearchInv, SearchConstants, Q!Above, Q!Below, Q!CRFs, Q!None
<1>4. Window'
  <2>1. CASE quality[Q!Probe] >= Wanted
    <3>1. Q!Above' = Q!Above \union {Q!Probe} /\ Q!Below' = Q!Below
      BY <1>1, <2>1 DEF Q!Above, Q!Below
    <3>2. best \in Int /\ best < Q!Probe
      <4>1. best = Q!None \/ best \in Q!Above
        BY DEF SearchInv, Window
      <4>2. \A a \in Q!Above : a \in Int /\ a < Q!Probe
        BY <1>2, <1>3
      <4>3. Q!None \in Int /\ Q!None < Q!Probe
        BY <1>2, <1>3
      <4> QED BY <4>1, <4>2, <4>3
    <3>3. best' = Q!Probe
      <4>1. Q!Max({best, Q!Probe}) = Q!Probe
        BY <1>2, <1>3, <3>2, MaxOfTwo
      <4> QED BY <2>1, <4>1 DEF Q!Measure
    <3>4. lower' = Q!Probe /\ upper' = upper
      BY <2>1 DEF Q!Measure
    <3>5. \A a \in Q!Above' : a <= lower'
      BY <1>2, <1>3, <3>1, <3>4
    <3> QED BY <3>1, <3>3, <3>4, <3>5 DEF SearchInv, Window
  <2>2. CASE ~(quality[Q!Probe] >= Wanted)
    <3>1. Q!Above' = Q!Above /\ Q!Below' = Q!Below \union {Q!Probe}
      BY <1>1, <2>2 DEF Q!Above, Q!Below
    <3>2. upper' = Q!Probe /\ lower' = lower /\ best' = best
      BY <2>2 DEF Q!Measure
    <3>3. \A b \in Q!Below' : upper' <= b
      BY <1>2, <1>3, <3>1, <3>2
    <3> QED BY <3>1, <3>2, <3>3 DEF SearchInv, Window
  <2> QED BY <2>1, <2>2
<1>5. CASE Q!Finish
  BY <1>1, <1>3, <1>4, <1>5, SearchFinishes
<1>6. CASE ~Q!Finish
  <2>0. ~(upper' - lower' <= 1)  \* the window is still open
    BY <1>6 DEF Q!Measure
  <2>1. step' = step /\ verdict' = verdict /\ cachedCrf' = cachedCrf
    BY <1>6 DEF Q!Measure
  <2>2. upper' \in Int /\ lower' \in Int
    BY <1>2, <1>3, <1>4 DEF Window, SearchConstants, Q!Above, Q!Below
  <2>3. upper' - lower' > 1
    <3>1. PICK u \in Int, l \in Int : u = upper' /\ l = lower'
      BY <2>2
    <3>2. ~(u - l <= 1)
      BY <2>0, <3>1
    <3>3. u - l > 1
      BY <3>2
    <3> QED BY <3>1, <3>3
  <2> QED BY <1>1, <1>3, <1>4, <2>1, <2>3 DEF SearchInv, Met
<1> QED BY <1>5, <1>6

LEMMA SearchFails ==
    ASSUME SearchConstants, SearchInv, Q!MeasureFails
    PROVE  SearchInv'
<1>1. /\ step = "probe" /\ Q!Finish
      /\ UNCHANGED <<best, quality, measured, lower, upper, probes, searches>>
  BY DEF Q!MeasureFails
<1>2. Window' /\ measured' \subseteq Q!CRFs
  BY <1>1 DEF SearchInv, Window, Q!Above, Q!Below
<1> QED BY <1>1, <1>2, SearchFinishes

LEMMA SearchErrs ==
    ASSUME SearchConstants, SearchInv, Q!SearchError
    PROVE  SearchInv'
<1>1. /\ step = "probe" /\ step' = "done" /\ verdict' = <<Fixed, "error">>
      /\ UNCHANGED <<quality, measured, best, lower, upper, probes, cachedCrf, searches>>
  BY DEF Q!SearchError
<1>2. Window'
  BY <1>1 DEF SearchInv, Window, Q!Above, Q!Below
<1>3. best # Q!None => measured # {}
  BY DEF SearchInv, Window, Q!Above
<1>4. best' # Q!None => ~(upper' - lower' <= 1)
  <2>1. upper \in Int /\ lower \in Int
    BY WindowOfCrfs DEF SearchInv
  <2>2. measured # {} => upper - lower > 1
    BY <1>1 DEF SearchInv
  <2> QED BY <1>1, <1>3, <2>1, <2>2
<1> QED BY <1>1, <1>2, <1>4 DEF SearchInv, Met

\* Scores that fall as the CRF rises stay below the target from the first CRF that misses it.
LEMMA MissesStay ==
    ASSUME SearchConstants, SearchInv, Q!Monotone, NEW u \in Q!CRFs, quality[u] < Wanted
    PROVE  \A c \in u..CrfLast : quality[c] < Wanted
<1> DEFINE Bad == {n \in Nat : u + n <= CrfLast /\ ~(quality[u + n] < Wanted)}
<1>1. /\ CrfFirst \in Int /\ CrfLast \in Int /\ u \in Int /\ CrfFirst <= u /\ Wanted \in Int
      /\ \A c \in CrfFirst..CrfLast : quality[c] \in Int
  BY DEF SearchInv, SearchConstants, Q!CRFs
<1>2. Bad = {}
  <2> SUFFICES ASSUME Bad # {} PROVE FALSE
    OBVIOUS
  <2>1. PICK n \in Bad : \A m \in Bad : n <= m
    BY LeastNumber
  <2>2. n # 0
    BY <1>1, <2>1
  <2>3. n - 1 \in Nat /\ n - 1 < n /\ u + n <= CrfLast
    BY <2>1, <2>2
  <2>4. n - 1 \notin Bad
    BY <2>1, <2>3
  <2>5. quality[u + (n - 1)] < Wanted
    BY <1>1, <2>3, <2>4
  <2>6. u + (n - 1) \in CrfFirst..(CrfLast - 1) /\ (u + (n - 1)) + 1 = u + n /\ u + n \in CrfFirst..CrfLast
    BY <1>1, <2>1, <2>3
  <2>7. quality[u + (n - 1)] >= quality[u + n]
    BY <2>6 DEF Q!Monotone
  <2> QED BY <1>1, <2>1, <2>5, <2>6, <2>7
<1>3. SUFFICES ASSUME NEW c \in u..CrfLast PROVE quality[c] < Wanted
  OBVIOUS
<1>4. c - u \in Nat /\ u + (c - u) = c /\ c <= CrfLast
  BY <1>1
<1>5. c - u \notin Bad
  BY <1>2
<1> QED BY <1>4, <1>5

LEMMA SearchAnswers ==
    ASSUME SearchConstants, SearchInv
    PROVE  Q!MeetsTarget /\ Q!NarrowsToLargest
<1>1. Q!MeetsTarget
  BY DEF SearchInv, Met, Q!MeetsTarget
<1>2. ASSUME step = "done", Q!Monotone, best # Q!None, upper - lower <= 1
      PROVE  verdict[1] = best /\ \A c \in (best + 1)..(CrfLast - 1) : quality[c] < Wanted
  <2>1. verdict[1] = best
    BY <1>2 DEF SearchInv
  <2>2. /\ CrfFirst \in Int /\ CrfLast \in Int /\ Q!CRFs \subseteq Int
        /\ best \in Q!CRFs /\ lower = best
    <3>1. best \in Q!Above /\ lower = best
      BY <1>2 DEF SearchInv, Window
    <3>2. Q!Above \subseteq Q!CRFs
      BY DEF SearchInv, Q!Above
    <3> QED BY <3>1, <3>2 DEF SearchConstants, Q!CRFs
  <2>3. CASE Q!Below = {}
    <3>1. upper = CrfLast
      BY <2>3 DEF SearchInv, Window
    <3>2. (best + 1)..(CrfLast - 1) = {}
      BY <1>2, <2>2, <3>1
    <3> QED BY <2>1, <3>2
  <2>4. CASE Q!Below # {}
    <3>1. upper \in Q!Below
      BY <2>4 DEF SearchInv, Window
    <3>2. upper \in Q!CRFs /\ ~(quality[upper] >= Wanted)
      BY <3>1 DEF Q!Below, Q!Above, SearchInv
    <3>3. quality[upper] < Wanted
      BY <3>2 DEF SearchInv, SearchConstants
    <3>4. \A c \in upper..CrfLast : quality[c] < Wanted
      BY <1>2, <3>2, <3>3, MissesStay
    <3>5. \A c \in (best + 1)..(CrfLast - 1) : c \in upper..CrfLast
      BY <1>2, <2>2, <3>2
    <3> QED BY <2>1, <3>4, <3>5
  <2> QED BY <2>3, <2>4
<1> QED BY <1>1, <1>2 DEF Q!NarrowsToLargest

\* Whatever fails on the way and however the scores behave, the CRF that a search or its
\* cache answers with meets the target; with falling scores it is the largest that does.
THEOREM AnswersFoundedHolds ==
    ASSUME SearchConstants
    PROVE  ClipsSpec => []AnswersFounded
<1> DEFINE Inv == making = "search" => SearchInv
<1>1. ClipsInit => Inv
  BY SearchStarts DEF ClipsInit
<1>2. ASSUME Inv, [ClipsNext]_clipVars PROVE Inv'
  <2>1. SUFFICES ASSUME making' = "search" PROVE SearchInv'
    OBVIOUS
  <2>2. making = "search" /\ SearchInv
    BY <1>2, <2>1 DEF ClipsNext, clipVars
  <2>3. CASE Q!Next
    BY <2>2, <2>3, SearchBegins, SearchMeasures, SearchFails, SearchErrs DEF Q!Next
  <2>4. CASE UNCHANGED searchVars
    BY <2>2, <2>4 DEF searchVars, SearchInv, Met, Window, Q!Above, Q!Below
  <2>5. Q!Next \/ UNCHANGED searchVars
    BY <1>2, <2>2 DEF ClipsNext, clipVars, MakeFilter, MakeSearch, MakeSegment, MakeLayers, MakeListing, MakeVideo
  <2> QED BY <2>3, <2>4, <2>5
<1>3. Inv => AnswersFounded
  BY SearchAnswers DEF AnswersFounded
<1> QED BY <1>1, <1>2, <1>3, PTL DEF ClipsSpec

-----------------------------------------------------------------------------
(* The classification gate *)

\* Frames have boxes, and no target class is called what a dropped box is.
FilterConstants ==
    /\ GateWidth \in Nat /\ BoxesAtOnce \in Nat \ {0} /\ SuppressAfter \in Nat
    /\ "drop" \notin Targets

\* The invariant of the gate: a cell has no more dismissals than the boxes of the frames since
\* it was confirmed, one box of that frame apart, and the mask is made of the counts.
Room(since) == BoxesAtOnce * since + BoxesAtOnce
CellInv(c) ==
    /\ counts[c] \in Nat /\ confirmed[c] \in Nat /\ confirmed[c] <= frames
    /\ counts[c] < Room(frames - confirmed[c])
FilterInv ==
    /\ frames \in Nat
    /\ \A c \in O!Cells : CellInv(c)
    /\ mask \subseteq {c \in O!Cells : counts[c] >= SuppressAfter}
    /\ O!MaskNeedsEvidence

LEMMA FilterCounts == \A S : O!Cardinality(S) = Cardinality(S)
BY DEF O!Cardinality, Cardinality

\* A frame makes room for its boxes, and none is left for evidence that is too little.
LEMMA RoomGrows ==
    ASSUME FilterConstants, NEW n \in Nat
    PROVE  /\ Room(n) \in Nat /\ Room(n) >= BoxesAtOnce /\ Room(n + 1) = Room(n) + BoxesAtOnce
           /\ SuppressAfter < Room(n) => n + 1 > SuppressAfter \div BoxesAtOnce
<1>1. BoxesAtOnce \in Nat /\ BoxesAtOnce >= 1 /\ SuppressAfter \in Nat
  BY DEF FilterConstants
<1>2. BoxesAtOnce * n \in Nat
  BY <1>1
<1>3. BoxesAtOnce * (n + 1) = BoxesAtOnce * n + BoxesAtOnce
  BY <1>1
<1>4. ASSUME SuppressAfter < BoxesAtOnce * (n + 1) PROVE n + 1 > SuppressAfter \div BoxesAtOnce
  <2>1. PICK q \in Int : q = SuppressAfter \div BoxesAtOnce /\ BoxesAtOnce * q <= SuppressAfter
    BY <1>1
  <2>2. ASSUME n + 1 <= q PROVE FALSE
    <3>1. BoxesAtOnce * (n + 1) <= BoxesAtOnce * q
      BY <1>1, <2>1, <2>2
    <3>2. BoxesAtOnce * q \in Int /\ BoxesAtOnce * (n + 1) \in Int
      BY <1>1, <2>1
    <3> QED BY <1>1, <1>4, <2>1, <3>1, <3>2
  <2> QED BY <2>1, <2>2
<1> QED BY <1>1, <1>2, <1>3, <1>4 DEF Room

LEMMA FilterStarts ==
    ASSUME FilterConstants, O!Init
    PROVE  FilterInv
<1>1. \A c \in O!Cells : counts[c] = 0 /\ confirmed[c] = 0
  BY DEF O!Init
<1>2. frames = 0 /\ missed = {} /\ mask = {}
  BY DEF O!Init
<1>3. \A c \in O!Cells : CellInv(c)
  <2>1. 0 < Room(0) /\ 0 - 0 = 0
    BY RoomGrows DEF FilterConstants
  <2> QED BY <1>1, <1>2, <2>1 DEF CellInv
<1> QED BY <1>2, <1>3 DEF FilterInv, O!MaskNeedsEvidence

\* The boxes of a frame that are dismissed are boxes of the frame.
LEMMA FewDismissed ==
    ASSUME FilterConstants, NEW boxes, NEW m \in 0..BoxesAtOnce, DOMAIN boxes = 1..m, NEW c
    PROVE  /\ Cardinality(O!DismissedAt(boxes, c)) \in Nat
           /\ Cardinality(O!DismissedAt(boxes, c)) <= BoxesAtOnce
           /\ \A i \in 1..m : i \notin O!DismissedAt(boxes, c) =>
                  Cardinality(O!DismissedAt(boxes, c)) <= BoxesAtOnce - 1
<1> DEFINE Gone == O!DismissedAt(boxes, c)
<1>1. Gone \in SUBSET (1..m)
  BY DEF O!DismissedAt, O!Judged
<1> HIDE DEF Gone
<1>2. BoxesAtOnce \in Nat /\ m \in Nat /\ m <= BoxesAtOnce
  BY DEF FilterConstants
<1>3. IsFiniteSet(1..m) /\ Cardinality(1..m) = m
  BY <1>2, FS_Interval
<1>4. IsFiniteSet(Gone) /\ Cardinality(Gone) \in Nat /\ Cardinality(Gone) <= m
  <2>1. IsFiniteSet(Gone) /\ Cardinality(Gone) <= Cardinality(1..m)
    BY <1>1, <1>3, FS_Subset
  <2> QED BY <1>3, <2>1, FS_CardinalityType
<1>5. ASSUME NEW i \in 1..m, i \notin Gone PROVE Cardinality(Gone) <= BoxesAtOnce - 1
  <2>1. Gone \in SUBSET ((1..m) \ {i})
    BY <1>1, <1>5
  <2>2. IsFiniteSet((1..m) \ {i}) /\ Cardinality((1..m) \ {i}) = m - 1
    BY <1>3, FS_RemoveElement
  <2>3. Cardinality(Gone) <= Cardinality((1..m) \ {i})
    BY <2>1, <2>2, FS_Subset
  <2> QED BY <1>2, <1>4, <2>2, <2>3
<1> QED BY <1>2, <1>4, <1>5 DEF Gone

LEMMA GateKeepsCounts ==
    ASSUME FilterConstants, FilterInv, frames' = frames + 1, NEW m \in 0..BoxesAtOnce,
           NEW boxes \in [1..m -> O!Boxes], O!GateFrame(boxes)
    PROVE  (\A c \in O!Cells : CellInv(c)') /\ mask' \subseteq {c \in O!Cells : counts'[c] >= SuppressAfter}
<1>0. /\ frames \in Nat /\ frames' \in Nat /\ BoxesAtOnce \in Nat /\ BoxesAtOnce >= 1
      /\ \A c \in O!Cells : CellInv(c)
  BY DEF FilterInv, FilterConstants
<1>1. /\ passing' = {boxes[i] : i \in O!Passed(boxes)}
      /\ labels' = [b \in passing' |-> O!LabelsOf(b)]
      /\ \A c \in O!Cells : confirmed'[c] =
              IF \E b \in passing' : labels'[b] # {} /\ c \in O!Covers(b) THEN frames' ELSE confirmed[c]
  BY DEF O!GateFrame
<1>2. CASE detector = "none" \/ boxes = <<>>
  <2>1. counts' = counts /\ mask' = mask
    BY <1>2 DEF O!GateFrame
  <2>2. \A b \in passing' : labels'[b] = {}
    <3>1. CASE detector = "none"
      BY <1>1, <3>1 DEF O!LabelsOf
    <3>2. CASE boxes = <<>>
      <4>1. DOMAIN boxes = {}
        BY <3>2
      <4>2. O!Passed(boxes) = {}
        BY <4>1 DEF O!Passed, O!Judged
      <4> QED BY <1>1, <4>2
    <3> QED BY <1>2, <3>1, <3>2
  <2>3. \A c \in O!Cells : confirmed'[c] = confirmed[c]
    BY <1>1, <2>2
  <2>4. \A c \in O!Cells : CellInv(c)'
    <3> SUFFICES ASSUME NEW c \in O!Cells PROVE CellInv(c)'
      OBVIOUS
    <3>1. /\ counts[c] \in Nat /\ confirmed[c] \in Nat /\ confirmed[c] <= frames
          /\ counts[c] < Room(frames - confirmed[c])
      BY <1>0 DEF CellInv
    <3>2. frames' - confirmed[c] = (frames - confirmed[c]) + 1 /\ frames - confirmed[c] \in Nat
      BY <1>0, <3>1
    <3>4. /\ Room(frames' - confirmed[c]) = Room(frames - confirmed[c]) + BoxesAtOnce
          /\ Room(frames - confirmed[c]) \in Nat
      BY <3>2, RoomGrows
    <3>3. counts[c] < Room(frames' - confirmed[c]) /\ confirmed[c] <= frames'
      BY <1>0, <3>1, <3>4
    <3> QED BY <2>1, <2>3, <3>1, <3>2, <3>3 DEF CellInv
  <2> QED BY <2>1, <2>4 DEF FilterInv
<1>3. CASE ~(detector = "none" \/ boxes = <<>>)
  <2>1. counts' = O!Counts(boxes) /\ mask' = {c \in O!Cells : counts'[c] >= SuppressAfter}
    BY <1>3 DEF O!GateFrame
  <2>2. \A c \in O!Cells : CellInv(c)'
    <3> SUFFICES ASSUME NEW c \in O!Cells PROVE CellInv(c)'
      OBVIOUS
    <3> DEFINE n == Cardinality(O!DismissedAt(boxes, c))
    <3>1. /\ counts[c] \in Nat /\ confirmed[c] \in Nat /\ confirmed[c] <= frames
          /\ counts[c] < Room(frames - confirmed[c])
      BY <1>0 DEF CellInv
    <3>2. n \in Nat /\ n <= BoxesAtOnce
      BY FewDismissed
    <3>3. counts'[c] = (IF \E i \in O!Judged(boxes) : O!Confirms(boxes[i]) /\ c \in O!Covers(boxes[i])
                        THEN 0 ELSE counts[c]) + n
      BY <2>1, FilterCounts DEF O!Counts
    <3>4. CASE \E i \in O!Judged(boxes) : O!Confirms(boxes[i]) /\ c \in O!Covers(boxes[i])
      <4>1. PICK i \in O!Judged(boxes) : O!Confirms(boxes[i]) /\ c \in O!Covers(boxes[i])
        BY <3>4
      <4>2. i \in 1..m /\ i \notin O!DismissedAt(boxes, c)
        BY <4>1 DEF O!Judged, O!DismissedAt, O!Confirms, O!Dismisses
      <4>3. n <= BoxesAtOnce - 1
        BY <4>2, FewDismissed
      <4>4. counts'[c] = n
        BY <3>2, <3>3, <3>4
      <4>5. confirmed'[c] = confirmed[c] \/ confirmed'[c] = frames'
        BY <1>1
      <4>6. frames' - confirmed[c] \in Nat /\ frames' - frames' = 0 /\ 0 \in Nat
        BY <1>0, <3>1
      <4>7. Room(frames' - confirmed[c]) \in Nat /\ Room(frames' - confirmed[c]) >= BoxesAtOnce
            /\ Room(0) \in Nat /\ Room(0) >= BoxesAtOnce
        BY <4>6, RoomGrows
      <4> HIDE DEF n
      <4>8. n < Room(frames' - confirmed[c]) /\ n < Room(0) /\ confirmed[c] <= frames'
        BY <1>0, <3>1, <3>2, <4>3, <4>7
      <4> QED BY <1>0, <3>1, <3>2, <4>4, <4>5, <4>6, <4>8 DEF CellInv
    <3>5. CASE ~\E i \in O!Judged(boxes) : O!Confirms(boxes[i]) /\ c \in O!Covers(boxes[i])
      <4>1. counts'[c] = counts[c] + n
        BY <3>3, <3>5
      <4>2. \A b \in passing' : labels'[b] # {} => ~(c \in O!Covers(b))
        <5> SUFFICES ASSUME NEW b \in passing', labels'[b] # {}, c \in O!Covers(b) PROVE FALSE
          OBVIOUS
        <5>1. PICK i \in O!Passed(boxes) : b = boxes[i]
          BY <1>1
        <5>2. i \in O!Judged(boxes) /\ ~O!Dismisses(b)
          BY <1>3, <5>1 DEF O!Passed
        <5>3. ~b.small
          BY <1>1 DEF O!LabelsOf
        <5>4. O!Confirms(b)
          BY <5>2, <5>3 DEF O!Confirms, O!Dismisses
        <5> QED BY <3>5, <5>1, <5>2, <5>4
      <4>3. confirmed'[c] = confirmed[c]
        BY <1>1, <4>2
      <4> HIDE DEF n
      <4>4. frames' - confirmed[c] = (frames - confirmed[c]) + 1 /\ frames - confirmed[c] \in Nat
        BY <1>0, <3>1
      <4>7. /\ Room(frames' - confirmed[c]) = Room(frames - confirmed[c]) + BoxesAtOnce
            /\ Room(frames - confirmed[c]) \in Nat
        BY <4>4, RoomGrows
      <4>5. counts[c] + n < Room(frames' - confirmed[c]) /\ confirmed[c] <= frames'
        BY <1>0, <3>1, <3>2, <4>7
      <4>6. counts[c] + n \in Nat
        BY <3>1, <3>2
      <4> QED BY <3>1, <4>1, <4>3, <4>5, <4>6 DEF CellInv
    <3> QED BY <3>4, <3>5
  <2> QED BY <2>1, <2>2
<1> QED BY <1>2, <1>3

LEMMA GateNeedsEvidence ==
    ASSUME FilterConstants, FilterInv, frames' = frames + 1, NEW m \in 0..BoxesAtOnce,
           NEW boxes \in [1..m -> O!Boxes], O!GateFrame(boxes)
    PROVE  O!MaskNeedsEvidence'
<1> SUFFICES ASSUME NEW b \in missed'
             PROVE  LET since == frames' - confirmed'[O!Centre(b)]
                    IN  since = 0 \/ since > SuppressAfter \div BoxesAtOnce
  BY DEF O!MaskNeedsEvidence
<1> DEFINE c == O!Centre(b)
<1>1. /\ passing' = {boxes[i] : i \in O!Passed(boxes)}
      /\ missed' = {boxes[i] : i \in {j \in DOMAIN boxes : boxes[j].holds \in Targets}} \ passing'
  BY DEF O!GateFrame
<1>2. PICK i \in DOMAIN boxes : b = boxes[i] /\ b.holds \in Targets /\ b \notin passing'
  BY <1>1
<1>3. i \notin O!Passed(boxes)
  BY <1>1, <1>2
<1>4. detector # "none" /\ (i \notin O!Judged(boxes) \/ O!Dismisses(b))
  BY <1>2, <1>3 DEF O!Passed
<1>5. ~O!Dismisses(b)
  BY <1>2 DEF O!Dismisses, O!Judgement, FilterConstants
<1>6. c \in mask
  BY <1>2, <1>4, <1>5 DEF O!Judged
<1>7. c \in O!Cells /\ counts[c] >= SuppressAfter /\ CellInv(c) /\ frames \in Nat
  BY <1>6 DEF FilterInv
<1> HIDE DEF c
<1>8. confirmed'[c] = confirmed[c] \/ confirmed'[c] = frames'
  BY <1>7 DEF O!GateFrame
<1>9. ASSUME confirmed'[c] = confirmed[c] PROVE frames' - confirmed[c] > SuppressAfter \div BoxesAtOnce
  <2>1. /\ counts[c] \in Nat /\ counts[c] >= SuppressAfter /\ counts[c] < Room(frames - confirmed[c])
        /\ frames - confirmed[c] \in Nat /\ frames' - confirmed[c] = (frames - confirmed[c]) + 1
    BY <1>7 DEF CellInv
  <2>2. Room(frames - confirmed[c]) \in Nat /\ SuppressAfter \in Nat
    BY <2>1, RoomGrows DEF FilterConstants
  <2>3. SuppressAfter < Room(frames - confirmed[c])
    BY <2>1, <2>2
  <2> QED BY <2>1, <2>3, RoomGrows
<1>10. frames' - confirmed'[c] = 0 \/ frames' - confirmed'[c] > SuppressAfter \div BoxesAtOnce
  BY <1>7, <1>8, <1>9 DEF CellInv
<1> QED BY <1>10 DEF c

LEMMA FilterSteps ==
    ASSUME FilterConstants, FilterInv, O!Next
    PROVE  FilterInv'
<1>1. CASE O!Frame
  <2>1. PICK boxes \in O!SeqOf(O!Boxes, BoxesAtOnce) : O!GateFrame(boxes)
    BY <1>1 DEF O!Frame
  <2>2. PICK m \in 0..BoxesAtOnce : boxes \in [1..m -> O!Boxes]
    BY DEF O!SeqOf
  <2>3. frames' = frames + 1 /\ frames' \in Nat
    BY <1>1 DEF O!Frame, FilterInv
  <2> QED BY <2>1, <2>2, <2>3, GateKeepsCounts, GateNeedsEvidence DEF FilterInv
<1>2. CASE O!CloseSegment
  BY <1>2 DEF O!CloseSegment, FilterInv, CellInv, O!MaskNeedsEvidence
<1> QED BY <1>1, <1>2 DEF O!Next

\* The classes of the row follow those of the frames, from the frame that opened the segment.
LEMMA RowSteps ==
    ASSUME O!RowOfItsSegment, O!Next
    PROVE  O!RowOfItsSegment'
<1>1. CASE O!Frame
  <2>1. \/ classes' = found'
        \/ /\ holding' = holding
           /\ classes' = classes \union (IF holding THEN O!LabelUnion(labels') ELSE {})
           /\ found' = found \union (IF holding THEN O!LabelUnion(labels') ELSE {})
    BY <1>1 DEF O!Frame, O!Metadata
  <2> QED BY <2>1 DEF O!RowOfItsSegment
<1>2. CASE O!CloseSegment
  BY <1>2 DEF O!CloseSegment, O!RowOfItsSegment
<1> QED BY <1>1, <1>2 DEF O!Next

\* A target is dropped only on the evidence that closes a cell, and the classes of a segment's
\* row are those of its frames, for every sequence of frames.
THEOREM FilterFaithfulHolds ==
    ASSUME FilterConstants
    PROVE  ClipsSpec => []FilterFaithful
<1> DEFINE Inv == making = "filter" => FilterInv /\ O!RowOfItsSegment
<1>1. ClipsInit => Inv
  <2>1. O!Init => O!RowOfItsSegment
    BY DEF O!Init, O!RowOfItsSegment
  <2> QED BY <2>1, FilterStarts DEF ClipsInit
<1>2. ASSUME Inv, [ClipsNext]_clipVars PROVE Inv'
  <2>1. SUFFICES ASSUME making' = "filter" PROVE FilterInv' /\ O!RowOfItsSegment'
    OBVIOUS
  <2>2. making = "filter" /\ FilterInv /\ O!RowOfItsSegment
    BY <1>2, <2>1 DEF ClipsNext, clipVars
  <2>3. CASE O!Next
    BY <2>2, <2>3, FilterSteps, RowSteps
  <2>4. CASE UNCHANGED filterVars
    BY <2>2, <2>4 DEF filterVars, FilterInv, CellInv, O!MaskNeedsEvidence, O!RowOfItsSegment
  <2>5. O!Next \/ UNCHANGED filterVars
    BY <1>2, <2>2 DEF ClipsNext, clipVars, MakeFilter, MakeSearch, MakeSegment, MakeLayers, MakeListing, MakeVideo
  <2> QED BY <2>3, <2>4, <2>5
<1>3. Inv => FilterFaithful
  BY DEF FilterFaithful, FilterInv
<1> QED BY <1>1, <1>2, <1>3, PTL DEF ClipsSpec

-----------------------------------------------------------------------------
(* The layer encoder *)

\* The regions of a frame are numbered, and there are finitely many of them.
LayerConstants == LayerRegions \in SUBSET Nat /\ IsFiniteSet(LayerRegions)

\* The files of the objects of a list of frames.
HasFiles(w, recs, disk) ==
    \A k \in DOMAIN recs : \A r \in recs[k].objects :
        /\ <<w, "crop", recs[k].frame, r>> \in disk
        /\ options.masks => <<w, "mask", recs[k].frame, r>> \in disk
Rising(recs) == \A k \in 1 .. Len(recs) - 1 : recs[k].frame < recs[k + 1].frame
Spans(pair, recs) == pair = <<recs[1].frame, recs[Len(recs)].frame>>

\* A row that is right, and the invariant of the encoder.
RowInv(row) ==
    /\ row.frames \in Seq([frame : Nat, objects : SUBSET LayerRegions])
    /\ row.roi_count = Cardinality(Y!Objects(row.frames)) /\ Y!Objects(row.frames) # {}
    /\ HasFiles(row.segment, row.frames, layerFiles)
    /\ <<row.segment, "metadata", 0, 0>> \in layerFiles
    /\ Spans(row.span, row.frames) /\ Rising(row.frames)
RecordsInv ==
    /\ records \in Seq([frame : Nat, objects : SUBSET LayerRegions])
    /\ \A k \in DOMAIN records : 0 < records[k].frame /\ records[k].frame < layerFrame
    /\ HasFiles(window, records, layerFiles) /\ Rising(records)
    /\ IF records = <<>> THEN span = <<0, 0>> ELSE Spans(span, records)
    /\ IsFiniteSet(Y!Objects(records))
LayersInv ==
    /\ layerFrame \in Nat \ {0} /\ layer.raised \in BOOLEAN
    /\ RecordsInv
    /\ ~layer.raised => objects = Cardinality(Y!Objects(records))
    /\ \A row \in layerRows : RowInv(row)

LEMMA LayerCounts == \A S : Y!Cardinality(S) = Cardinality(S)
BY DEF Y!Cardinality, Cardinality

LEMMA NoObjects == Y!Objects(<<>>) = {}
BY DEF Y!Objects

LEMMA LayersStart ==
    ASSUME LayerConstants, Y!Init
    PROVE  LayersInv
<1>1. records = <<>> /\ objects = 0 /\ span = <<0, 0>> /\ layerRows = {} /\ layerFrame = 1 /\ layer = Y!Closed
  BY DEF Y!Init, Y!None
<1>2. IsFiniteSet(Y!Objects(records)) /\ Cardinality(Y!Objects(records)) = 0
  BY <1>1, NoObjects, FS_EmptySet
<1>3. RecordsInv
  BY <1>1, <1>2 DEF RecordsInv, HasFiles, Rising
<1>4. layer.raised \in BOOLEAN
  BY <1>1, Zenon DEF Y!Closed
<1> QED BY <1>1, <1>2, <1>3, <1>4 DEF LayersInv

\* A frame with objects adds as many as it has to those of the segment.
LEMMA ObjectsAdded ==
    ASSUME LayerConstants, NEW recs \in Seq([frame : Nat, objects : SUBSET LayerRegions]),
           IsFiniteSet(Y!Objects(recs)), NEW n \in Nat, NEW S \in SUBSET LayerRegions
    PROVE  LET more == Append(recs, [frame |-> n, objects |-> S])
           IN  /\ IsFiniteSet(Y!Objects(more)) /\ IsFiniteSet(S)
               /\ Cardinality(Y!Objects(more)) = Cardinality(Y!Objects(recs)) + Cardinality(S)
<1> DEFINE rec == [frame |-> n, objects |-> S]
<1> DEFINE more == Append(recs, rec)
<1> DEFINE new == {<<Len(recs) + 1, r>> : r \in S}
<1>1. IsFiniteSet(S) /\ Cardinality(S) \in Nat
  BY FS_Subset, FS_CardinalityType DEF LayerConstants
<1>2. IsFiniteSet(new) /\ Cardinality(new) = Cardinality(S)
  <2> DEFINE f == [r \in S |-> <<Len(recs) + 1, r>>]
  <2>1. f \in [S -> new] /\ \A t \in new : \E r \in S : f[r] = t
    OBVIOUS
  <2>2. \A a, b \in S : f[a] = f[b] => a = b
    OBVIOUS
  <2>3. f \in Bijection(S, new)
    BY <2>1, <2>2 DEF Bijection, Injection, Surjection, IsInjective
  <2>4. ExistsBijection(S, new)
    BY <2>3 DEF ExistsBijection
  <2> QED BY <1>1, <2>4, FS_Bijection
<1>3. /\ DOMAIN more = (1 .. Len(recs)) \union {Len(recs) + 1} /\ Len(recs) \in Nat
      /\ DOMAIN recs = 1 .. Len(recs)
      /\ more[Len(recs) + 1] = rec /\ rec.objects = S
      /\ \A k \in 1 .. Len(recs) : more[k] = recs[k]
  <2>1. rec \in [frame : Nat, objects : SUBSET LayerRegions]
    OBVIOUS
  <2> HIDE DEF rec
  <2>2. /\ Len(more) = Len(recs) + 1 /\ DOMAIN more = 1 .. Len(more) /\ Len(recs) \in Nat /\ DOMAIN recs = 1 .. Len(recs)
        /\ more[Len(recs) + 1] = rec /\ \A k \in 1 .. Len(recs) : more[k] = recs[k]
    BY <2>1
  <2>3. 1 .. Len(recs) + 1 = (1 .. Len(recs)) \union {Len(recs) + 1}
    BY <2>2
  <2>4. rec.objects = S
    BY DEF rec
  <2> QED BY <2>2, <2>3, <2>4
<1> HIDE DEF more, rec
<1>4. \A o : o \in Y!Objects(more) <=> o \in Y!Objects(recs) \/ o \in new
  <2> SUFFICES ASSUME NEW o PROVE o \in Y!Objects(more) <=> o \in Y!Objects(recs) \/ o \in new
    OBVIOUS
  <2>1. o \in Y!Objects(more) <=> \E k \in DOMAIN more, r \in LayerRegions : o = <<k, r>> /\ r \in more[k].objects
    BY DEF Y!Objects
  <2>2. o \in Y!Objects(recs) <=> \E k \in DOMAIN recs, r \in LayerRegions : o = <<k, r>> /\ r \in recs[k].objects
    BY DEF Y!Objects
  <2>3. o \in new <=> \E r \in LayerRegions : o = <<Len(recs) + 1, r>> /\ r \in S
    OBVIOUS
  <2> HIDE DEF new
  <2> QED BY <1>3, <2>1, <2>2, <2>3
<1>5. Y!Objects(more) = Y!Objects(recs) \union new
  BY <1>4
<1>6. Y!Objects(recs) \intersect new = {}
  <2> SUFFICES ASSUME NEW o \in Y!Objects(recs), o \in new PROVE FALSE
    OBVIOUS
  <2>1. PICK k \in 1 .. Len(recs), r \in LayerRegions : o = <<k, r>>
    BY <1>3 DEF Y!Objects
  <2>2. PICK r2 \in S : o = <<Len(recs) + 1, r2>>
    OBVIOUS
  <2>3. k = Len(recs) + 1
    BY <2>1, <2>2
  <2> QED BY <1>3, <2>1, <2>3
<1> HIDE DEF new
<1>7. IsFiniteSet(Y!Objects(more))
      /\ Cardinality(Y!Objects(more)) = Cardinality(Y!Objects(recs)) + Cardinality(new) - Cardinality(Y!Objects(recs) \intersect new)
  BY <1>2, <1>5, FS_Union
<1>8. Cardinality(Y!Objects(recs)) \in Nat /\ Cardinality(Y!Objects(recs) \intersect new) = 0
  BY <1>6, FS_EmptySet, FS_CardinalityType
<1>9. Cardinality(Y!Objects(more)) = Cardinality(Y!Objects(recs)) + Cardinality(S)
  BY <1>1, <1>2, <1>7, <1>8
<1> QED BY <1>1, <1>7, <1>9 DEF more, rec

\* The rows that are written stay right as files are added.
LEMMA LayerRowsStay ==
    ASSUME LayersInv, UNCHANGED options, layerFiles \subseteq layerFiles'
    PROVE  \A row \in layerRows : RowInv(row)'
<1> SUFFICES ASSUME NEW row \in layerRows PROVE RowInv(row)'
  OBVIOUS
<1>1. RowInv(row)
  BY DEF LayersInv
<1>2. HasFiles(row.segment, row.frames, layerFiles)'
  BY <1>1 DEF RowInv, HasFiles
<1>3. <<row.segment, "metadata", 0, 0>> \in layerFiles'
  BY <1>1 DEF RowInv
<1> QED BY <1>1, <1>2, <1>3 DEF RowInv, Rising, Spans, Y!Objects

LEMMA FrameNumbered ==
    ASSUME NEW recs \in Seq([frame : Nat, objects : SUBSET LayerRegions]), NEW k \in DOMAIN recs
    PROVE  recs[k].frame \in Nat
<1> DEFINE T == [frame : Nat, objects : SUBSET LayerRegions]
<1>1. recs \in Seq(T)
  OBVIOUS
<1>2. \A rec \in T : rec.frame \in Nat
  OBVIOUS
<1> HIDE DEF T
<1>3. recs[k] \in T
  BY <1>1
<1> QED BY <1>2, <1>3

\* So do the frames of the segment, while none is added.
LEMMA RecordsStay ==
    ASSUME LayersInv, UNCHANGED <<options, records, span, window>>, layerFiles \subseteq layerFiles',
           layerFrame' \in Nat, layerFrame <= layerFrame'
    PROVE  RecordsInv'
<1>1. RecordsInv /\ layerFrame \in Nat
  BY DEF LayersInv
<1>2. \A k \in DOMAIN records : 0 < records[k].frame /\ records[k].frame < layerFrame'
  <2> SUFFICES ASSUME NEW k \in DOMAIN records PROVE 0 < records[k].frame /\ records[k].frame < layerFrame'
    OBVIOUS
  <2>1. records[k].frame \in Nat
    BY <1>1, FrameNumbered DEF RecordsInv
  <2> QED BY <1>1, <2>1 DEF RecordsInv
<1> QED BY <1>1, <1>2 DEF RecordsInv, HasFiles, Rising, Spans, Y!Objects

LEMMA LayersAdd ==
    ASSUME LayerConstants, LayersInv, Y!AddFrame
    PROVE  LayersInv'
<1>1. PICK regions \in SUBSET LayerRegions : \E closed \in SUBSET regions :
          IF regions = {} THEN UNCHANGED <<layer, records, objects, span, layerFiles>>
          ELSE LET inSight == regions \ closed
               IN  /\ layer' = Y!Started
                   /\ layerFiles' = layerFiles \union Y!Stored(inSight)
                   /\ objects' = objects + Y!Cardinality(inSight)
                   /\ IF inSight = {} THEN UNCHANGED <<records, span>>
                      ELSE /\ records' = Append(records, [frame |-> layerFrame, objects |-> inSight])
                           /\ span' = <<IF span[1] = Y!None THEN layerFrame ELSE span[1], layerFrame>>
  BY DEF Y!AddFrame
<1>2. /\ ~layer.raised /\ layerFrame' = layerFrame + 1 /\ UNCHANGED <<options, window, layerRows, failed>>
  BY DEF Y!AddFrame
<1>3. /\ layerFrame \in Nat \ {0} /\ layerFrame' \in Nat \ {0} /\ layerFrame <= layerFrame' /\ layerFrame < layerFrame'
      /\ RecordsInv /\ objects = Cardinality(Y!Objects(records))
  BY <1>2 DEF LayersInv
<1>4. CASE regions = {}
  <2>1. UNCHANGED <<layer, records, objects, span, layerFiles>>
    BY <1>1, <1>4
  <2>2. RecordsInv'
    BY <1>2, <1>3, <2>1, RecordsStay
  <2> QED BY <1>2, <1>3, <2>1, <2>2, LayerRowsStay DEF LayersInv, Y!Objects
<1>5. CASE regions # {}
  <2>1. PICK inSight \in SUBSET LayerRegions :
            /\ layer' = Y!Started
            /\ layerFiles' = layerFiles \union Y!Stored(inSight)
            /\ objects' = objects + Cardinality(inSight)
            /\ IF inSight = {} THEN UNCHANGED <<records, span>>
               ELSE /\ records' = Append(records, [frame |-> layerFrame, objects |-> inSight])
                    /\ span' = <<IF span[1] = 0 THEN layerFrame ELSE span[1], layerFrame>>
    <3>1. PICK closed \in SUBSET regions :
              LET inSight == regions \ closed
              IN  /\ layer' = Y!Started
                  /\ layerFiles' = layerFiles \union Y!Stored(inSight)
                  /\ objects' = objects + Y!Cardinality(inSight)
                  /\ IF inSight = {} THEN UNCHANGED <<records, span>>
                     ELSE /\ records' = Append(records, [frame |-> layerFrame, objects |-> inSight])
                          /\ span' = <<IF span[1] = Y!None THEN layerFrame ELSE span[1], layerFrame>>
      BY <1>1, <1>5
    <3>2. regions \ closed \in SUBSET LayerRegions
      OBVIOUS
    <3> QED BY <3>1, <3>2, LayerCounts DEF Y!None
  <2>2. ~layer'.raised /\ layer'.raised \in BOOLEAN
    BY <1>2, <2>1, Zenon DEF Y!Started, LayersInv
  <2>3. \A row \in layerRows' : RowInv(row)'
    BY <1>2, <2>1, LayerRowsStay
  <2>4. CASE inSight = {}
    <3>1. UNCHANGED <<records, span>> /\ objects' = objects + 0
      BY <2>1, <2>4, FS_EmptySet
    <3>2. RecordsInv'
      BY <1>2, <1>3, <2>1, <3>1, RecordsStay
    <3>3. objects \in Nat
      BY <1>3, FS_CardinalityType DEF RecordsInv
    <3> QED BY <1>3, <2>2, <2>3, <3>1, <3>2, <3>3 DEF LayersInv, Y!Objects
  <2>5. CASE inSight # {}
    <3> DEFINE rec == [frame |-> layerFrame, objects |-> inSight]
    <3>1. records' = Append(records, rec) /\ span' = <<IF span[1] = 0 THEN layerFrame ELSE span[1], layerFrame>>
      BY <2>1, <2>5
    <3>2. /\ IsFiniteSet(Y!Objects(records'))
          /\ Cardinality(Y!Objects(records')) = Cardinality(Y!Objects(records)) + Cardinality(inSight)
      BY <1>3, <3>1, ObjectsAdded DEF RecordsInv
    <3>3. /\ records \in Seq([frame : Nat, objects : SUBSET LayerRegions])
          /\ rec \in [frame : Nat, objects : SUBSET LayerRegions]
          /\ rec.frame = layerFrame /\ rec.objects = inSight
      BY <1>3 DEF RecordsInv
    <3> HIDE DEF rec
    <3>4. /\ records' \in Seq([frame : Nat, objects : SUBSET LayerRegions])
          /\ Len(records) \in Nat /\ Len(records') = Len(records) + 1
          /\ DOMAIN records = 1 .. Len(records) /\ DOMAIN records' = 1 .. Len(records')
          /\ records'[Len(records) + 1] = rec /\ \A k \in 1 .. Len(records) : records'[k] = records[k]
      BY <3>1, <3>3
    <3>5. \A k \in DOMAIN records' : k \in DOMAIN records \/ k = Len(records) + 1
      BY <3>4
    <3>6. \A k \in DOMAIN records' : 0 < records'[k].frame /\ records'[k].frame < layerFrame'
      <4> SUFFICES ASSUME NEW k \in DOMAIN records'
                   PROVE  0 < records'[k].frame /\ records'[k].frame < layerFrame'
        OBVIOUS
      <4>1. CASE k \in DOMAIN records
        <5>1. records[k].frame \in Nat /\ records'[k] = records[k]
          BY <3>3, <3>4, <4>1, FrameNumbered
        <5> QED BY <1>3, <4>1, <5>1 DEF RecordsInv
      <4>2. CASE k = Len(records) + 1
        BY <1>3, <3>3, <3>4, <4>2
      <4> QED BY <3>5, <4>1, <4>2
    <3>7. HasFiles(window, records', layerFiles') /\ options' = options
      <4> SUFFICES ASSUME NEW k \in DOMAIN records', NEW r \in records'[k].objects
                   PROVE  /\ <<window, "crop", records'[k].frame, r>> \in layerFiles'
                          /\ options.masks => <<window, "mask", records'[k].frame, r>> \in layerFiles'
        BY <1>2 DEF HasFiles
      <4>1. CASE k \in DOMAIN records
        BY <1>3, <2>1, <3>4, <4>1 DEF RecordsInv, HasFiles
      <4>2. CASE k = Len(records) + 1
        <5>1. records'[k].frame = layerFrame /\ r \in inSight
          BY <3>3, <3>4, <4>2
        <5> QED BY <2>1, <5>1 DEF Y!Stored, Y!Files
      <4> QED BY <3>5, <4>1, <4>2
    <3>8. Rising(records')
      <4> SUFFICES ASSUME NEW k \in 1 .. Len(records') - 1 PROVE records'[k].frame < records'[k + 1].frame
        BY DEF Rising
      <4>1. k \in 1 .. Len(records) /\ k + 1 \in 1 .. Len(records) + 1 /\ k \in DOMAIN records
        BY <3>4
      <4>2. CASE k = Len(records)
        BY <1>3, <3>3, <3>4, <4>1, <4>2 DEF RecordsInv
      <4>3. CASE k # Len(records)
        <5>1. k \in 1 .. Len(records) - 1 /\ k + 1 \in 1 .. Len(records)
          BY <3>4, <4>1, <4>3
        <5> QED BY <1>3, <3>4, <4>1, <5>1 DEF RecordsInv, Rising
      <4> QED BY <4>2, <4>3
    <3>9. records' # <<>> /\ Spans(span', records')
      <4>1. 1 \in DOMAIN records' /\ records'[Len(records')].frame = layerFrame
        BY <3>3, <3>4
      <4>2. CASE records = <<>>
        <5>1. span[1] = 0 /\ Len(records) = 0
          BY <1>3, <4>2 DEF RecordsInv
        <5> QED BY <3>1, <3>3, <3>4, <4>1, <5>1 DEF Spans
      <4>3. CASE records # <<>>
        <5>1. span = <<records[1].frame, records[Len(records)].frame>> /\ 1 \in DOMAIN records
          BY <1>3, <3>3, <4>3 DEF RecordsInv, Spans
        <5>2. span[1] = records[1].frame /\ records[1].frame # 0
          BY <1>3, <3>3, <5>1 DEF RecordsInv
        <5>3. records'[1] = records[1]
          BY <3>4, <5>1
        <5> QED BY <3>1, <3>4, <4>1, <5>2, <5>3 DEF Spans
      <4> QED BY <4>2, <4>3
    <3>10. RecordsInv'
      BY <1>2, <3>2, <3>4, <3>6, <3>7, <3>8, <3>9 DEF RecordsInv, HasFiles, Rising, Spans, Y!Objects
    <3>11. objects' = Cardinality(Y!Objects(records'))
      BY <1>3, <2>1, <3>2
    <3> QED BY <1>3, <2>2, <2>3, <3>10, <3>11 DEF LayersInv, Y!Objects
  <2> QED BY <2>4, <2>5
<1> QED BY <1>4, <1>5

LEMMA LayersFail ==
    ASSUME LayerConstants, LayersInv, Y!AddFails \/ Y!FlushFails
    PROVE  LayersInv'
<1>1. /\ UNCHANGED <<options, window, records, span, layerRows>>
      /\ layerFiles \subseteq layerFiles'
      /\ layerFrame' = layerFrame \/ layerFrame' = layerFrame + 1
  BY DEF Y!AddFails, Y!FlushFails
<1>2. layer'.raised = TRUE
  <2>1. layer.raised \in BOOLEAN
    BY DEF LayersInv
  <2>2. \/ layer' = [Y!Closed EXCEPT !.raised = TRUE]
        \/ layer' = [Y!Started EXCEPT !.raised = TRUE]
        \/ Y!FlushFails
    BY DEF Y!AddFails
  <2>3. CASE layer' = [Y!Closed EXCEPT !.raised = TRUE]
    BY <2>3, Zenon DEF Y!Closed
  <2>4. CASE layer' = [Y!Started EXCEPT !.raised = TRUE]
    BY <2>4 DEF Y!Started
  <2>5. CASE Y!FlushFails
    BY <2>5 DEF Y!FlushFails
  <2> QED BY <2>2, <2>3, <2>4, <2>5
<1>3. layerFrame' \in Nat \ {0} /\ layerFrame <= layerFrame'
  BY <1>1 DEF LayersInv
<1>4. RecordsInv'
  BY <1>1, <1>3, RecordsStay
<1>5. \A row \in layerRows' : RowInv(row)'
  BY <1>1, LayerRowsStay
<1>6. layer'.raised \in BOOLEAN
  BY <1>2
<1> QED BY <1>2, <1>3, <1>4, <1>5, <1>6 DEF LayersInv

\* What a reset leaves is the state of no segment.
LEMMA LayersReset ==
    ASSUME LayerConstants, LayersInv, Y!Reset, layerFrame' = layerFrame, options' = options
    PROVE  RecordsInv' /\ layer'.raised \in BOOLEAN /\ objects' = Cardinality(Y!Objects(records')) /\ layerFrame' \in Nat \ {0}
<1>1. records' = <<>> /\ objects' = 0 /\ span' = <<0, 0>> /\ layer' = Y!Closed
  BY DEF Y!Reset, Y!None
<1>2. IsFiniteSet(Y!Objects(<<>>)) /\ Cardinality(Y!Objects(<<>>)) = 0
  BY NoObjects, FS_EmptySet
<1>3. RecordsInv'
  BY <1>1, <1>2 DEF RecordsInv, HasFiles, Rising, Y!Objects
<1>4. layer'.raised \in BOOLEAN
  BY <1>1, Zenon DEF Y!Closed
<1> QED BY <1>1, <1>2, <1>3, <1>4 DEF LayersInv

LEMMA LayersAbort ==
    ASSUME LayerConstants, LayersInv, Y!Abort
    PROVE  LayersInv'
<1>1. UNCHANGED <<options, layerFrame, window, layerFiles, layerRows>> /\ Y!Reset
  BY DEF Y!Abort
<1>2. \A row \in layerRows' : RowInv(row)'
  BY <1>1, LayerRowsStay
<1>3. RecordsInv' /\ layer'.raised \in BOOLEAN /\ objects' = Cardinality(Y!Objects(records')) /\ layerFrame' \in Nat \ {0}
  BY <1>1, LayersReset
<1> QED BY <1>2, <1>3 DEF LayersInv, Y!Objects

LEMMA LayersFlush ==
    ASSUME LayerConstants, LayersInv, Y!Flush
    PROVE  LayersInv'
<1>1. UNCHANGED <<options, layerFrame>> /\ Y!Reset /\ ~layer.raised
  BY DEF Y!Flush
<1>2. RecordsInv /\ objects = Cardinality(Y!Objects(records))
  BY <1>1 DEF LayersInv
<1>3. CASE layer.there /\ objects > 0
  <2>1. layerRows' = layerRows \union {Y!Row} /\ layerFiles' = layerFiles \union {<<window, "metadata", 0, 0>>}
    BY <1>3 DEF Y!Flush
  <2>2. /\ Y!Row.segment = window /\ Y!Row.roi_count = objects /\ Y!Row.frames = records /\ Y!Row.span = span
    BY DEF Y!Row
  <2> HIDE DEF Y!Row
  <2>3. Y!Objects(records) # {}
    BY <1>2, <1>3, FS_EmptySet
  <2>4. records # <<>>
    BY <2>3, NoObjects
  <2>5. ASSUME NEW row, row = Y!Row PROVE RowInv(row)'
    <3>1. /\ records \in Seq([frame : Nat, objects : SUBSET LayerRegions])
          /\ HasFiles(window, records, layerFiles) /\ Rising(records) /\ Spans(span, records)
      BY <1>2, <2>4 DEF RecordsInv
    <3>2. row.segment = window /\ row.roi_count = objects /\ row.frames = records /\ row.span = span
      BY <2>2, <2>5
    <3>3. HasFiles(row.segment, row.frames, layerFiles)'
      BY <1>1, <2>1, <3>1, <3>2 DEF HasFiles
    <3>4. <<row.segment, "metadata", 0, 0>> \in layerFiles'
      BY <2>1, <3>2
    <3> QED BY <1>2, <2>3, <3>1, <3>2, <3>3, <3>4 DEF RowInv, Rising, Spans, Y!Objects
  <2>6. \A row \in layerRows : RowInv(row)'
    <3>1. UNCHANGED options /\ layerFiles \subseteq layerFiles'
      BY <1>1, <2>1
    <3> QED BY <3>1, LayerRowsStay
  <2>7. \A row \in layerRows' : RowInv(row)'
    BY <2>1, <2>5, <2>6
  <2>8. RecordsInv' /\ layer'.raised \in BOOLEAN /\ objects' = Cardinality(Y!Objects(records')) /\ layerFrame' \in Nat \ {0}
    BY <1>1, LayersReset
  <2> QED BY <2>7, <2>8 DEF LayersInv, Y!Objects
<1>4. CASE ~(layer.there /\ objects > 0)
  <2>1. layerRows' = layerRows /\ layerFiles' = layerFiles
    BY <1>4 DEF Y!Flush
  <2>2. \A row \in layerRows' : RowInv(row)'
    BY <1>1, <2>1, LayerRowsStay
  <2>3. RecordsInv' /\ layer'.raised \in BOOLEAN /\ objects' = Cardinality(Y!Objects(records')) /\ layerFrame' \in Nat \ {0}
    BY <1>1, LayersReset
  <2> QED BY <2>2, <2>3 DEF LayersInv, Y!Objects
<1> QED BY <1>3, <1>4

LEMMA LayersAreFaithful ==
    ASSUME LayerConstants, LayersInv
    PROVE  Y!LayersFaithful
<1> SUFFICES ASSUME NEW row \in layerRows
             PROVE  /\ row.roi_count = Y!Cardinality(Y!Objects(row.frames)) /\ Y!Objects(row.frames) # {}
                    /\ \A o \in Y!Objects(row.frames) :
                          \A kind \in {"crop"} \union (IF options.masks THEN {"mask"} ELSE {}) :
                              <<row.segment, kind, row.frames[o[1]].frame, o[2]>> \in layerFiles
                    /\ <<row.segment, "metadata", 0, 0>> \in layerFiles
                    /\ row.span = <<row.frames[1].frame, Y!Last(row.frames).frame>>
                    /\ \A k \in 1 .. Len(row.frames) - 1 : row.frames[k].frame < row.frames[k + 1].frame
  BY Zenon DEF Y!LayersFaithful
<1>1. RowInv(row)
  BY DEF LayersInv
<1>2. \A o \in Y!Objects(row.frames) :
         \A kind \in {"crop"} \union (IF options.masks THEN {"mask"} ELSE {}) :
             <<row.segment, kind, row.frames[o[1]].frame, o[2]>> \in layerFiles
  <2> SUFFICES ASSUME NEW o \in Y!Objects(row.frames),
                      NEW kind \in {"crop"} \union (IF options.masks THEN {"mask"} ELSE {})
               PROVE  <<row.segment, kind, row.frames[o[1]].frame, o[2]>> \in layerFiles
    OBVIOUS
  <2>1. PICK k \in DOMAIN row.frames, r \in LayerRegions : o = <<k, r>> /\ r \in row.frames[k].objects
    BY DEF Y!Objects
  <2>2. o[1] = k /\ o[2] = r
    BY <2>1
  <2>3. kind = "crop" \/ (kind = "mask" /\ options.masks)
    OBVIOUS
  <2> QED BY <1>1, <2>1, <2>2, <2>3 DEF RowInv, HasFiles
<1>3. row.span = <<row.frames[1].frame, Y!Last(row.frames).frame>>
  BY <1>1 DEF RowInv, Spans, Y!Last
<1>5. row.roi_count = Y!Cardinality(Y!Objects(row.frames))
  BY <1>1, LayerCounts DEF RowInv
<1> QED BY <1>1, <1>2, <1>3, <1>5 DEF RowInv, Rising

LEMMA LayersStep ==
    ASSUME LayerConstants, LayersInv, Y!Next
    PROVE  LayersInv'
BY LayersAdd, LayersFail, LayersAbort, LayersFlush DEF Y!Next

LEMMA LayersStutter ==
    ASSUME LayersInv, UNCHANGED layerVars
    PROVE  LayersInv'
<1>1. UNCHANGED <<options, layerFrame, window, layer, records, objects, span, layerFiles, layerRows>>
  BY DEF layerVars
<1>2. \A row \in layerRows' : RowInv(row)'
  BY <1>1, LayerRowsStay
<1>3. RecordsInv'
  BY <1>1 DEF LayersInv, RecordsInv, HasFiles, Rising, Spans, Y!Objects
<1> QED BY <1>1, <1>2, <1>3 DEF LayersInv, Y!Objects

-----------------------------------------------------------------------------
(* The segment encoder *)

\* A picture has pixels and cells, a box has a place and a size, a sighting can be halved.
EncoderConstants ==
    /\ PictureWidth \in Nat \ {0} /\ GridCells \in Nat \ {0} /\ Sights \in SUBSET (Nat \X Nat)
    /\ SegmentFrames \in Nat /\ SecondsMax \in Nat /\ SourceLength \in Nat
    /\ \E n \in Nat \ {0} : Sighting = 2 * n

\* The cells of a box seen in this segment and the one before keep a sighting and a half, and
\* what the open pipe degrades was chosen before they aged.
BoxesInv ==
    /\ encoder.roi_qp \in BOOLEAN
    /\ grid \in [E!Col -> Nat]
    /\ sighted.now \in SUBSET Sights /\ sighted.last \in SUBSET Sights
    /\ encoder.roi_qp => /\ \A box \in sighted.now : \A c \in E!Touched(box) : grid[c] >= Sighting
                         /\ \A box \in sighted.last : \A c \in E!Touched(box) : 2 * grid[c] >= Sighting
    /\ \A box \in sighted.last \union sighted.before, r \in rects : E!Pixels(box) \intersect E!Pixels(r) = {}

LEMMA EncoderCounts == \A S : E!Cardinality(S) = Cardinality(S)
BY DEF E!Cardinality, Cardinality

LEMMA LeastOfTwo ==
    ASSUME NEW a \in Int, NEW b \in Int
    PROVE  /\ E!Min({a, b}) = (IF a <= b THEN a ELSE b)
           /\ E!Max({a, b}) = (IF a >= b THEN a ELSE b)
BY DEF E!Min, E!Max

LEMMA Quotient ==
    ASSUME NEW a \in Nat, NEW b \in Nat \ {0}
    PROVE  a \div b \in Nat /\ b * (a \div b) <= a /\ a < b * ((a \div b) + 1)
<1>1. PICK q \in Nat : q = a \div b /\ b * q <= a /\ a < b * q + b
  OBVIOUS
<1>2. b * (q + 1) = b * q + b
  BY <1>1
<1> QED BY <1>1, <1>2

LEMMA FactorsCompare ==
    ASSUME NEW b \in Nat \ {0}, NEW k \in Int, NEW r \in Int, b * k < b * (r + 1)
    PROVE  k <= r
<1>1. SUFFICES ASSUME r + 1 <= k PROVE FALSE
  OBVIOUS
<1>2. b * (r + 1) <= b * k
  BY <1>1
<1>3. b * (r + 1) \in Int /\ b * k \in Int
  OBVIOUS
<1> QED BY <1>2, <1>3

\* A pixel p that a box of m pixels from x on shares with the rectangle of the cells r1 to r2,
\* in a picture of W pixels and C cells, puts the box on one of those cells.
HasPixel(wide, cells, x, m, p, r1, r2) ==
    /\ r1 <= r2 /\ x <= p /\ p + 1 <= x + m
    /\ (r1 * wide) \div cells <= p /\ p + 1 <= (r1 * wide) \div cells + ((r2 - r1 + 1) * wide) \div cells
HasCell(wide, cells, x, m, r1, r2) ==
    (x * cells) \div wide <= r2 /\ r1 <= ((x + m) * cells) \div wide /\ (x * cells) \div wide <= ((x + m) * cells) \div wide
LEMMA SharedPixel ==
    ASSUME NEW wide \in Nat \ {0}, NEW cells \in Nat \ {0}, NEW x \in Nat, NEW m \in Nat, NEW p \in Nat,
           NEW r1 \in Nat, NEW r2 \in Nat, HasPixel(wide, cells, x, m, p, r1, r2)
    PROVE  HasCell(wide, cells, x, m, r1, r2)
<1> DEFINE u == (r1 * wide) \div cells
<1> DEFINE v == ((r2 - r1 + 1) * wide) \div cells
<1> DEFINE k1 == (x * cells) \div wide
<1> DEFINE k2 == ((x + m) * cells) \div wide
<1>1. u \in Nat /\ cells * u <= r1 * wide /\ r1 * wide < cells * (u + 1)
  <2>1. r1 * wide \in Nat
    OBVIOUS
  <2> QED BY <2>1, Quotient
<1>2. v \in Nat /\ cells * v <= (r2 - r1 + 1) * wide
  <2>1. r2 - r1 + 1 \in Nat
    BY DEF HasPixel
  <2>2. (r2 - r1 + 1) * wide \in Nat
    BY <2>1
  <2> QED BY <2>2, Quotient
<1>3. k1 \in Nat /\ wide * k1 <= x * cells
  <2>1. x * cells \in Nat
    OBVIOUS
  <2> QED BY <2>1, Quotient
<1>4. k2 \in Nat /\ (x + m) * cells < wide * (k2 + 1)
  <2>1. (x + m) * cells \in Nat
    OBVIOUS
  <2> QED BY <2>1, Quotient
<1>5. u <= p /\ p + 1 <= u + v /\ r1 <= r2 /\ x <= p /\ p + 1 <= x + m
  BY DEF HasPixel
<1> HIDE DEF u, v, k1, k2
<1>6. k1 <= r2
  <2>1. cells * (x + 1) <= cells * (u + v)
    <3>1. x + 1 <= u + v /\ x + 1 \in Nat /\ u + v \in Nat
      BY <1>1, <1>2, <1>5
    <3> QED BY <3>1
  <2>2. cells * (u + v) = cells * u + cells * v /\ cells * (x + 1) = x * cells + cells
    BY <1>1, <1>2
  <2>3. r1 * wide + (r2 - r1 + 1) * wide = wide * (r2 + 1)
    OBVIOUS
  <2>4. /\ cells * u \in Int /\ cells * v \in Int /\ x * cells \in Int /\ r1 * wide \in Int /\ (r2 - r1 + 1) * wide \in Int
        /\ wide * (r2 + 1) \in Int /\ wide * k1 \in Int
    BY <1>1, <1>2, <1>3
  <2>5. x * cells + cells <= cells * u + cells * v
    BY <2>1, <2>2
  <2>6. x * cells + cells <= wide * (r2 + 1)
    BY <1>1, <1>2, <2>3, <2>4, <2>5
  <2>7. wide * k1 < wide * (r2 + 1)
    BY <1>3, <2>4, <2>6
  <2> QED BY <1>3, <2>7, FactorsCompare
<1>7. r1 <= k2
  <2>1. cells * (u + 1) <= cells * (x + m)
    <3>1. u + 1 <= x + m /\ u + 1 \in Nat /\ x + m \in Nat
      BY <1>1, <1>5
    <3> QED BY <3>1
  <2>2. cells * (x + m) = (x + m) * cells /\ r1 * wide = wide * r1
    OBVIOUS
  <2>3. cells * (u + 1) \in Int /\ cells * (x + m) \in Int /\ r1 * wide \in Int /\ wide * (k2 + 1) \in Int
    BY <1>1, <1>4
  <2>4. wide * r1 < wide * (k2 + 1)
    BY <1>1, <1>4, <2>1, <2>2, <2>3
  <2> QED BY <1>4, <2>4, FactorsCompare
<1>8. k1 <= k2
  <2>1. x * cells <= (x + m) * cells
    OBVIOUS
  <2>2. x * cells \in Int /\ (x + m) * cells \in Int /\ wide * k1 \in Int /\ wide * (k2 + 1) \in Int
    BY <1>3, <1>4
  <2>3. wide * k1 < wide * (k2 + 1)
    BY <1>3, <1>4, <2>1, <2>2
  <2> QED BY <1>3, <1>4, <2>3, FactorsCompare
<1> QED BY <1>6, <1>7, <1>8 DEF k1, k2, HasCell

\* A run of static cells, none of them lit by a box, shares no pixel with it.
LEMMA RunsAvoid ==
    ASSUME EncoderConstants, NEW box \in Sights, NEW r \in E!Col \X E!Col, r[1] <= r[2],
           \A c \in r[1]..r[2] : c \notin E!Touched(box)
    PROVE  E!Pixels(box) \intersect E!Pixels(E!Rectangle(r)) = {}
<1> SUFFICES ASSUME NEW p \in E!Pixels(box), p \in E!Pixels(E!Rectangle(r)) PROVE FALSE
  OBVIOUS
<1> DEFINE x == box[1]
<1> DEFINE w == box[2]
<1> DEFINE m == IF 1 >= w THEN 1 ELSE w
<1> DEFINE u == (r[1] * PictureWidth) \div GridCells
<1> DEFINE v == ((r[2] - r[1] + 1) * PictureWidth) \div GridCells
<1> DEFINE k1 == (x * GridCells) \div PictureWidth
<1> DEFINE k2 == ((x + m) * GridCells) \div PictureWidth
<1>1. PictureWidth \in Nat \ {0} /\ GridCells \in Nat \ {0} /\ x \in Nat /\ w \in Nat /\ m \in Nat /\ w <= m
  BY DEF EncoderConstants
<1>2. r[1] \in Nat /\ r[2] \in Nat /\ r[1] <= GridCells - 1 /\ r[2] <= GridCells - 1
  BY <1>1 DEF E!Col
<1>3. E!Rectangle(r)[1] = u /\ E!Rectangle(r)[2] = v
  BY DEF E!Rectangle
<1>4. u \in Nat /\ v \in Nat
  <2>1. r[2] - r[1] + 1 \in Nat
    BY <1>2
  <2>2. r[1] * PictureWidth \in Nat /\ (r[2] - r[1] + 1) * PictureWidth \in Nat
    BY <1>1, <1>2, <2>1
  <2> QED BY <1>1, <2>2, Quotient
<1>5. k1 \in Nat /\ k2 \in Nat
  <2>1. x + m \in Nat
    BY <1>1
  <2>2. x * GridCells \in Nat /\ (x + m) * GridCells \in Nat
    BY <1>1, <2>1
  <2> QED BY <1>1, <2>2, Quotient
<1>6. E!Touched(box) = {c \in E!Col : c >= E!Min({GridCells - 1, k1}) /\ c <= E!Min({GridCells - 1, k2})}
  <2>1. E!Max({1, w}) = m
    <3>1. 1 \in Int /\ w \in Int
      BY <1>1
    <3> HIDE DEF w
    <3>2. E!Max({1, w}) = IF 1 >= w THEN 1 ELSE w
      BY <3>1, LeastOfTwo
    <3> QED BY <3>2
  <2> QED BY <2>1 DEF E!Touched
<1> HIDE DEF u, v, k1, k2
<1>7. p \in Nat /\ x <= p /\ p + 1 <= x + w
  <2>1. p \in x .. E!Min({PictureWidth, x + w}) - 1
    BY DEF E!Pixels
  <2>2. E!Min({PictureWidth, x + w}) \in Int /\ E!Min({PictureWidth, x + w}) <= x + w
    BY <1>1, LeastOfTwo
  <2> QED BY <1>1, <2>1, <2>2
<1>8. u <= p /\ p + 1 <= u + v
  <2>1. p \in u .. E!Min({PictureWidth, u + v}) - 1
    BY <1>3 DEF E!Pixels
  <2>2. E!Min({PictureWidth, u + v}) \in Int /\ E!Min({PictureWidth, u + v}) <= u + v
    BY <1>1, <1>4, LeastOfTwo
  <2> QED BY <1>4, <1>7, <2>1, <2>2
<1>9. k1 <= r[2] /\ r[1] <= k2 /\ k1 <= k2
  <2>1. p + 1 <= x + m
    BY <1>1, <1>7
  <2>2. (r[1] * PictureWidth) \div GridCells <= p
    BY <1>8 DEF u
  <2>3. p + 1 <= (r[1] * PictureWidth) \div GridCells + ((r[2] - r[1] + 1) * PictureWidth) \div GridCells
    BY <1>8 DEF u, v
  <2> HIDE DEF x, m
  <2>4. HasPixel(PictureWidth, GridCells, x, m, p, r[1], r[2])
    BY <1>7, <2>1, <2>2, <2>3 DEF HasPixel
  <2>5. HasCell(PictureWidth, GridCells, x, m, r[1], r[2])
    BY <1>1, <1>2, <1>7, <2>4, SharedPixel
  <2> QED BY <2>5 DEF k1, k2, HasCell
<1> DEFINE lo == IF GridCells - 1 <= k1 THEN GridCells - 1 ELSE k1
<1> DEFINE hi == IF GridCells - 1 <= k2 THEN GridCells - 1 ELSE k2
<1>10. E!Min({GridCells - 1, k1}) = lo /\ E!Min({GridCells - 1, k2}) = hi
  BY <1>1, <1>5, LeastOfTwo
<1> DEFINE c == IF lo >= r[1] THEN lo ELSE r[1]
<1>11. c \in Nat /\ c <= GridCells - 1 /\ c >= lo /\ c <= hi /\ c >= r[1] /\ c <= r[2]
  BY <1>1, <1>2, <1>5, <1>9
<1>12. c \in E!Col /\ c \in r[1]..r[2]
  BY <1>1, <1>2, <1>11 DEF E!Col
<1> HIDE DEF c, lo, hi
<1>13. c \in E!Touched(box)
  BY <1>6, <1>10, <1>11, <1>12
<1> QED BY <1>12, <1>13

LEMMA BoxesStart ==
    ASSUME EncoderConstants, E!Init
    PROVE  BoxesInv
<1>1. PICK roi_qp \in BOOLEAN : \E chosen : encoder = [codec |-> chosen, roi_qp |-> roi_qp]
  BY Zenon DEF E!Init
<1>2. encoder.roi_qp \in BOOLEAN
  <2>1. PICK chosen : encoder = [codec |-> chosen, roi_qp |-> roi_qp]
    BY <1>1
  <2>2. [codec |-> chosen, roi_qp |-> roi_qp].roi_qp = roi_qp
    BY Zenon
  <2>3. encoder.roi_qp = roi_qp
    BY <2>1, <2>2, Zenon
  <2> QED BY <2>3, Zenon
<1>3. grid \in [E!Col -> Nat] /\ sighted.now = {} /\ sighted.last = {} /\ sighted.before = {}
  BY DEF E!Init
<1> QED BY <1>2, <1>3 DEF BoxesInv

\* Where no box is noted and no pipe is opened, the boxes stay as they are.
LEMMA BoxesStay ==
    ASSUME BoxesInv, UNCHANGED <<encoder, grid, rects, sighted>>
    PROVE  BoxesInv'
BY DEF BoxesInv

LEMMA BoxesBegin ==
    ASSUME EncoderConstants, BoxesInv, E!Begin
    PROVE  BoxesInv'
<1>1. /\ rects' = E!RoiFilters /\ grid' = [c \in E!Col |-> grid[c] \div 2] /\ encoder' = encoder
      /\ sighted'.now = {} /\ sighted'.last = sighted.now /\ sighted'.before = sighted.last
  BY DEF E!Begin
<1>2. PICK n \in Nat \ {0} : Sighting = 2 * n
  BY DEF EncoderConstants
<1>3. \A c \in E!Col : grid[c] \in Nat /\ grid'[c] = grid[c] \div 2
  BY <1>1 DEF BoxesInv
<1>4. \A c \in E!Col : grid'[c] \in Nat /\ (grid[c] >= Sighting => 2 * grid'[c] >= Sighting)
  BY <1>2, <1>3
<1>5. \A box : E!Touched(box) \subseteq E!Col
  BY DEF E!Touched
<1>6. grid' \in [E!Col -> Nat]
  BY <1>1, <1>4
<1>7. encoder.roi_qp => \A box \in sighted.now : \A c \in E!Touched(box) : 2 * grid'[c] >= Sighting
  BY <1>4, <1>5 DEF BoxesInv
<1>8. ASSUME NEW box \in sighted.now \union sighted.last, NEW rect \in rects'
      PROVE  E!Pixels(box) \intersect E!Pixels(rect) = {}
  <2>1. encoder.roi_qp /\ \E r \in E!Runs : rect = E!Rectangle(r)
    BY <1>1, <1>8 DEF E!RoiFilters
  <2>2. PICK r \in E!Runs : rect = E!Rectangle(r)
    BY <2>1
  <2>3. r \in E!Col \X E!Col /\ r[1] <= r[2] /\ r[1]..r[2] \subseteq E!Static
    BY DEF E!Runs
  <2>4. \A c \in E!Touched(box) : 2 * grid[c] >= Sighting
    <3>1. \A c \in E!Col : grid[c] >= Sighting => 2 * grid[c] >= Sighting
      BY <1>2, <1>3
    <3> QED BY <1>5, <1>8, <2>1, <3>1 DEF BoxesInv
  <2>5. \A c \in E!Static : c \notin E!Touched(box)
    <3>1. \A c \in E!Static : c \in E!Col /\ 2 * grid[c] < Sighting
      BY DEF E!Static
    <3>2. \A c \in E!Col : ~(2 * grid[c] < Sighting /\ 2 * grid[c] >= Sighting)
      BY <1>2, <1>3
    <3> QED BY <2>4, <3>1, <3>2
  <2>6. box \in Sights
    BY <1>8 DEF BoxesInv
  <2> QED BY <2>2, <2>3, <2>5, <2>6, RunsAvoid
<1> QED BY <1>1, <1>6, <1>7, <1>8 DEF BoxesInv

LEMMA BoxesNoted ==
    ASSUME EncoderConstants, BoxesInv, E!WriteFrame
    PROVE  BoxesInv'
<1>1. PICK boxes \in {{}} \union {{b} : b \in Sights} :
          E!NoteActivity(boxes) /\ sighted' = [sighted EXCEPT !.now = @ \union boxes]
  BY DEF E!WriteFrame
<1>2. /\ UNCHANGED <<encoder, rects>>
      /\ sighted'.last = sighted.last /\ sighted'.before = sighted.before
      /\ sighted'.now \subseteq sighted.now \union boxes
  <2>1. UNCHANGED <<encoder, rects>>
    BY DEF E!WriteFrame
  <2>2. sighted'.last = sighted.last /\ sighted'.before = sighted.before
    BY <1>1
  <2>3. sighted'.now = sighted.now \union boxes \/ sighted'.now = sighted.now
    BY <1>1
  <2> QED BY <2>1, <2>2, <2>3
<1>3. PICK n \in Nat \ {0} : Sighting = 2 * n
  BY DEF EncoderConstants
<1> DEFINE lit(c) == {b \in boxes : c \in E!Touched(b)}
<1>4. \A c : Cardinality(lit(c)) \in Nat /\ (\A b \in boxes : c \in E!Touched(b) => Cardinality(lit(c)) = 1)
  <2> SUFFICES ASSUME NEW c
               PROVE  /\ Cardinality(lit(c)) \in Nat
                      /\ \A b \in boxes : c \in E!Touched(b) => Cardinality(lit(c)) = 1
    OBVIOUS
  <2>1. CASE lit(c) = {}
    BY <2>1, FS_EmptySet
  <2>2. CASE lit(c) # {}
    <3>1. PICK b : lit(c) = {b}
      BY <1>1, <2>2
    <3>2. Cardinality(lit(c)) = 1
      BY <3>1, FS_Singleton
    <3> QED BY <3>2
  <2> QED BY <2>1, <2>2
<1>5. encoder.roi_qp => grid' = [c \in E!Col |-> grid[c] + Sighting * Cardinality(lit(c))]
  BY <1>1, EncoderCounts DEF E!NoteActivity
<1> HIDE DEF lit
<1>6. \A c \in E!Col : grid[c] \in Nat
  BY DEF BoxesInv
<1>7. CASE encoder.roi_qp
  <2>1. ASSUME NEW c \in E!Col PROVE grid'[c] \in Nat /\ grid'[c] >= grid[c]
    <3>1. grid'[c] = grid[c] + Sighting * Cardinality(lit(c))
      BY <1>5, <1>7
    <3>2. Sighting * Cardinality(lit(c)) \in Nat
      BY <1>3, <1>4
    <3> QED BY <1>6, <3>1, <3>2
  <2>2. ASSUME NEW b \in boxes, NEW c \in E!Col, c \in E!Touched(b) PROVE grid'[c] >= Sighting
    <3>1. grid'[c] = grid[c] + Sighting * 1
      BY <1>4, <1>5, <1>7, <2>2
    <3> QED BY <1>3, <1>6, <3>1
  <2>3. \A box : E!Touched(box) \subseteq E!Col
    BY DEF E!Touched
  <2>4. grid' \in [E!Col -> Nat]
    BY <1>5, <1>7, <2>1
  <2>5. \A box \in sighted'.now : \A c \in E!Touched(box) : grid'[c] >= Sighting
    <3> SUFFICES ASSUME NEW box \in sighted'.now, NEW c \in E!Touched(box) PROVE grid'[c] >= Sighting
      OBVIOUS
    <3>1. CASE box \in boxes
      BY <2>2, <2>3, <3>1
    <3>2. CASE box \in sighted.now
      <4>1. grid[c] >= Sighting /\ c \in E!Col
        BY <1>7, <2>3, <3>2 DEF BoxesInv
      <4> QED BY <1>3, <1>6, <2>1, <4>1
    <3> QED BY <1>2, <3>1, <3>2
  <2>6. \A box \in sighted'.last : \A c \in E!Touched(box) : 2 * grid'[c] >= Sighting
    <3> SUFFICES ASSUME NEW box \in sighted'.last, NEW c \in E!Touched(box) PROVE 2 * grid'[c] >= Sighting
      OBVIOUS
    <3>1. 2 * grid[c] >= Sighting /\ c \in E!Col
      BY <1>2, <1>7, <2>3 DEF BoxesInv
    <3> QED BY <1>3, <1>6, <2>1, <3>1
  <2>7. sighted'.now \in SUBSET Sights
    BY <1>1, <1>2 DEF BoxesInv
  <2> QED BY <1>2, <2>4, <2>5, <2>6, <2>7 DEF BoxesInv
<1>8. CASE ~encoder.roi_qp
  <2>1. grid' = grid
    BY <1>1, <1>8 DEF E!NoteActivity
  <2>2. sighted'.now \in SUBSET Sights
    BY <1>1, <1>2 DEF BoxesInv
  <2> QED BY <1>2, <1>8, <2>1, <2>2 DEF BoxesInv
<1> QED BY <1>7, <1>8

LEMMA BoxesStep ==
    ASSUME EncoderConstants, BoxesInv, E!Next
    PROVE  BoxesInv'
<1>1. E!PipeDies \/ E!FinishDead \/ E!Finish \/ E!EncodeBatch \/ E!Tick => UNCHANGED <<encoder, grid, rects, sighted>>
  BY DEF E!PipeDies, E!FinishDead, E!Finish, E!EncodeBatch, E!Tick
<1> QED BY <1>1, BoxesStay, BoxesBegin, BoxesNoted DEF E!Next

-----------------------------------------------------------------------------
(* The files of the segments *)

\* The rows are those of files begun before, and a row whose file still is its own has all of
\* its frames there.
RowKept(row) ==
    /\ row.of \in Nat /\ row.of <= made /\ (pipe # "none" => row.of < made) /\ row.second \in E!Seconds
    /\ (segments[row.second].of = row.of /\ (source.sound = 0 \/ source.sound >= Cardinality(row.frames)))
       => segments[row.second].frames = row.frames
FilesInv ==
    /\ made \in Nat /\ position \in Nat /\ second \in E!Seconds
    /\ DOMAIN segments = E!Seconds /\ source.sound \in Nat
    /\ piped.second \in E!Seconds /\ piped.frames \in SUBSET Nat /\ IsFiniteSet(piped.frames)
    /\ \A row \in inserted : RowKept(row)

LEMMA FilesStart ==
    ASSUME EncoderConstants, E!Init
    PROVE  FilesInv
<1>1. piped.second = 0 /\ piped.frames = {} /\ IsFiniteSet({})
  BY FS_EmptySet DEF E!Init
<1>2. source.sound \in Nat
  BY DEF E!Init, EncoderConstants
<1>3. 0 \in E!Seconds /\ DOMAIN segments = E!Seconds /\ inserted = {}
  BY DEF E!Init, E!Seconds, EncoderConstants
<1> QED BY <1>1, <1>2, <1>3 DEF E!Init, FilesInv

\* The first frames of a segment, as many as it has, are all of them.
LEMMA AllFirst ==
    ASSUME NEW S \in SUBSET Nat, IsFiniteSet(S)
    PROVE  E!First(Cardinality(S), S) = S
<1> SUFFICES ASSUME NEW p \in S PROVE Cardinality({q \in S : q < p}) < Cardinality(S)
  BY EncoderCounts DEF E!First
<1> DEFINE T == {q \in S : q < p}
<1>1. T \in SUBSET S /\ T # S
  <2>1. p \notin T
    OBVIOUS
  <2> QED BY <2>1
<1> HIDE DEF T
<1>2. IsFiniteSet(T) /\ Cardinality(T) <= Cardinality(S) /\ Cardinality(T) # Cardinality(S)
  BY <1>1, FS_Subset
<1>3. Cardinality(T) \in Nat /\ Cardinality(S) \in Nat
  BY <1>2, FS_CardinalityType
<1>4. Cardinality(T) < Cardinality(S)
  BY <1>2, <1>3
<1> QED BY <1>4 DEF T

\* The sound is put back without a frame lost, when it lasts.
LEMMA MuxKeeps ==
    ASSUME NEW S \in SUBSET Nat, IsFiniteSet(S), source.sound \in Nat, NEW file \in E!Muxed(S)
    PROVE  /\ file.of = made'
           /\ source.sound = 0 \/ source.sound >= Cardinality(S) => file.frames = S
<1> DEFINE n == E!Min({E!Cardinality(S), source.sound})
<1>1. \/ file = E!Part(S)
      \/ source.sound # 0 /\ file = [E!Part(E!First(n, S)) EXCEPT !.sound = 0..(n - 1)]
  BY DEF E!Muxed
<1>2. CASE file = E!Part(S)
  BY <1>2 DEF E!Part
<1>3. CASE source.sound # 0 /\ file = [E!Part(E!First(n, S)) EXCEPT !.sound = 0..(n - 1)]
  <2>1. file.of = made' /\ file.frames = E!First(n, S)
    BY <1>3 DEF E!Part
  <2>2. ASSUME source.sound >= Cardinality(S) PROVE file.frames = S
    <3>1. Cardinality(S) \in Nat /\ E!Cardinality(S) = Cardinality(S)
      BY FS_CardinalityType, EncoderCounts
    <3>2. n = Cardinality(S)
      BY <2>2, <3>1, LeastOfTwo
    <3> QED BY <2>1, <3>2, AllFirst
  <2> QED BY <1>3, <2>1, <2>2
<1> QED BY <1>1, <1>2, <1>3

\* A row keeps its file while the files of other seconds, or of later segments, change.
LEMMA RowStays ==
    ASSUME FilesInv, NEW row \in inserted, made' \in Nat, made <= made', source'.sound = source.sound,
           pipe' # "none" => row.of < made',
           \/ segments' = segments
           \/ \E s \in E!Seconds : \E file : segments' = [segments EXCEPT ![s] = file] /\ file.of = made' /\ row.of < made'
    PROVE  RowKept(row)'
<1>1. RowKept(row) /\ DOMAIN segments = E!Seconds /\ made \in Nat
  BY DEF FilesInv
<1>2. row.of \in Nat /\ row.of <= made' /\ row.second \in E!Seconds
  BY <1>1 DEF RowKept
<1>3. segments'[row.second].of = row.of => segments'[row.second] = segments[row.second]
  <2>1. CASE segments' = segments
    BY <2>1
  <2>2. ASSUME NEW s \in E!Seconds, NEW file, segments' = [segments EXCEPT ![s] = file], file.of = made', row.of < made'
        PROVE  segments'[row.second].of = row.of => segments'[row.second] = segments[row.second]
    <3>1. CASE row.second = s
      <4>1. segments'[row.second].of = made' /\ row.of # made'
        BY <1>1, <1>2, <2>2, <3>1
      <4> QED BY <4>1
    <3>2. CASE row.second # s
      BY <1>1, <1>2, <2>2, <3>2
    <3> QED BY <3>1, <3>2
  <2> QED BY <2>1, <2>2
<1> QED BY <1>1, <1>2, <1>3 DEF RowKept, E!Seconds

LEMMA FilesBegin ==
    ASSUME EncoderConstants, FilesInv, E!Begin
    PROVE  FilesInv'
<1>1. /\ made' = made + 1 /\ pipe' = "open" /\ piped' = [second |-> second, frames |-> {}]
      /\ segments' = [segments EXCEPT ![second] = E!Part({})]
      /\ UNCHANGED <<source, inserted, position, second>>
  BY DEF E!Begin
<1>2. E!Part({}).of = made'
  BY DEF E!Part
<1> DEFINE empty == E!Part({})
<1> HIDE DEF empty
<1>3. segments' = [segments EXCEPT ![second] = empty] /\ empty.of = made'
  BY <1>1, <1>2 DEF empty
<1>4. made \in Nat /\ second \in E!Seconds /\ DOMAIN segments = E!Seconds
  BY DEF FilesInv
<1>5. ASSUME NEW row \in inserted PROVE RowKept(row)'
  <2>1. row.of \in Nat /\ row.of <= made
    BY DEF FilesInv, RowKept
  <2>2. row.of < made' /\ made' \in Nat /\ made <= made'
    BY <1>1, <1>4, <2>1
  <2>3. \E s \in E!Seconds : \E file : segments' = [segments EXCEPT ![s] = file] /\ file.of = made' /\ row.of < made'
    BY <1>3, <1>4, <2>2
  <2>4. source'.sound = source.sound
    BY <1>1
  <2> QED BY <2>2, <2>3, <2>4, RowStays
<1>6. DOMAIN segments' = E!Seconds /\ made' \in Nat
  BY <1>1, <1>3, <1>4
<1>7. piped'.second \in E!Seconds /\ piped'.frames = {} /\ IsFiniteSet({})
  BY <1>1, <1>4, FS_EmptySet
<1>8. \A row \in inserted' : RowKept(row)'
  BY <1>1, <1>5
<1>9. source'.sound \in Nat /\ position' \in Nat /\ second' \in E!Seconds
  BY <1>1 DEF FilesInv
<1> QED BY <1>6, <1>7, <1>8, <1>9 DEF FilesInv, E!Seconds

\* Where no file is written and no segment begins, the rows keep their files.
LEMMA FileRowsStay ==
    ASSUME FilesInv, UNCHANGED <<made, source, segments, inserted>>, pipe' # "none" => pipe # "none"
    PROVE  \A row \in inserted' : RowKept(row)'
BY DEF FilesInv, RowKept, E!Seconds

LEMMA FilesQuiet ==
    ASSUME EncoderConstants, FilesInv,
           \/ E!WriteFrame \/ E!FinishDead \/ E!Tick
           \/ UNCHANGED encoderVars
    PROVE  FilesInv'
<1>1. UNCHANGED <<made, source, segments, inserted>> /\ (pipe' # "none" => pipe # "none")
  BY DEF E!WriteFrame, E!FinishDead, E!Tick, encoderVars
<1>2. \A row \in inserted' : RowKept(row)'
  BY <1>1, FileRowsStay
<1>3. made' \in Nat /\ DOMAIN segments' = E!Seconds /\ source'.sound \in Nat
  BY <1>1 DEF FilesInv
<1>4. position' \in Nat
  BY DEF FilesInv, EncoderConstants, E!WriteFrame, E!FinishDead, E!Tick, encoderVars
<1>5. second' \in E!Seconds
  BY DEF FilesInv, EncoderConstants, E!Seconds, E!WriteFrame, E!FinishDead, E!Tick, encoderVars
<1>6. piped'.second \in E!Seconds /\ piped'.frames \in SUBSET Nat /\ IsFiniteSet(piped'.frames)
  <2>1. CASE E!WriteFrame
    <3>1. PICK p \in {position, position + 1} \ {SourceLength} :
              piped' = [piped EXCEPT !.frames = @ \union {p}]
      BY <2>1 DEF E!WriteFrame
    <3>2. piped.second \in E!Seconds /\ piped.frames \in SUBSET Nat /\ IsFiniteSet(piped.frames) /\ position \in Nat
      BY DEF FilesInv
    <3>3. IsFiniteSet(piped.frames \union {p})
      BY <3>2, FS_AddElement
    <3>4. p \in Nat
      BY <3>1, <3>2
    <3>5. piped'.second = piped.second
      BY <3>1
    <3>6. piped'.frames = piped.frames \union {p} \/ piped'.frames = piped.frames
      BY <3>1
    <3> QED BY <3>2, <3>3, <3>4, <3>5, <3>6
  <2>2. CASE UNCHANGED piped
    BY <2>2 DEF FilesInv
  <2> QED BY <2>1, <2>2 DEF E!FinishDead, E!Tick, encoderVars
<1> QED BY <1>2, <1>3, <1>4, <1>5, <1>6 DEF FilesInv, E!Seconds

LEMMA FilesDie ==
    ASSUME EncoderConstants, FilesInv, E!PipeDies
    PROVE  FilesInv'
<1> DEFINE broken == E!Part(E!First(1, piped.frames))
<1>1. /\ pipe = "open" /\ pipe' = "dead" /\ made' = made
      /\ segments' = [segments EXCEPT ![piped.second] = broken]
      /\ UNCHANGED <<piped, source, inserted, position, second>>
  BY DEF E!PipeDies
<1>2. broken.of = made'
  BY DEF E!Part
<1> HIDE DEF broken
<1>3. made \in Nat /\ piped.second \in E!Seconds /\ DOMAIN segments = E!Seconds
  BY DEF FilesInv
<1>4. ASSUME NEW row \in inserted PROVE RowKept(row)'
  <2>1. row.of < made' /\ made' \in Nat /\ made <= made'
    BY <1>1, <1>3 DEF FilesInv, RowKept
  <2>2. \E s \in E!Seconds : \E file : segments' = [segments EXCEPT ![s] = file] /\ file.of = made' /\ row.of < made'
    BY <1>1, <1>2, <1>3, <2>1
  <2>3. source'.sound = source.sound
    BY <1>1
  <2> QED BY <2>1, <2>2, <2>3, RowStays
<1>5. DOMAIN segments' = E!Seconds
  BY <1>1, <1>3
<1>6. \A row \in inserted' : RowKept(row)'
  BY <1>1, <1>4
<1> QED BY <1>1, <1>5, <1>6 DEF FilesInv, E!Seconds

\* The row of the file made is kept, as are the rows before it.
LEMMA RowsWritten ==
    ASSUME EncoderConstants, FilesInv, NEW S \in SUBSET Nat, IsFiniteSet(S), NEW s \in E!Seconds,
           NEW file \in E!Muxed(S), segments' = [segments EXCEPT ![s] = file],
           made' \in Nat, made <= made', \A row \in inserted : row.of < made',
           source'.sound = source.sound, pipe' = "none",
           NEW new, new = [of |-> made', second |-> s, frames |-> S],
           inserted' = inserted \union {new}
    PROVE  \A row \in inserted' : RowKept(row)'
<1>1. source.sound \in Nat /\ DOMAIN segments = E!Seconds
  BY DEF FilesInv
<1>2. file.of = made' /\ (source.sound = 0 \/ source.sound >= Cardinality(S) => file.frames = S)
  BY <1>1, MuxKeeps
<1>3. ASSUME NEW row \in inserted PROVE RowKept(row)'
  <2>1. \E t \in E!Seconds : \E f : segments' = [segments EXCEPT ![t] = f] /\ f.of = made' /\ row.of < made'
    BY <1>2
  <2> QED BY <2>1, RowStays
<1>4. RowKept(new)'
  <2>1. new.of = made' /\ new.second = s /\ new.frames = S
    OBVIOUS
  <2>2. segments'[s] = file
    BY <1>1
  <2>3. new'= new
    OBVIOUS
  <2>4. (segments'[s].of = new.of /\ (source'.sound = 0 \/ source'.sound >= Cardinality(new.frames)))
        => segments'[s].frames = new.frames
    BY <1>2, <2>1, <2>2
  <2> QED BY <2>1, <2>4 DEF RowKept, E!Seconds
<1> QED BY <1>3, <1>4

LEMMA FilesFinish ==
    ASSUME EncoderConstants, FilesInv, E!Finish
    PROVE  FilesInv'
<1>1. /\ pipe = "open" /\ pipe' = "none" /\ made' = made
      /\ inserted' = inserted \union {[of |-> made, second |-> piped.second, frames |-> piped.frames]}
      /\ UNCHANGED <<piped, position, second>>
  BY DEF E!Finish
<1>2. PICK probe \in E!Probed(source), file \in E!Muxed(piped.frames) :
          source' = [source EXCEPT !.probe = probe] /\ segments' = [segments EXCEPT ![piped.second] = file]
  BY DEF E!Finish
<1>3. /\ made \in Nat /\ piped.second \in E!Seconds /\ piped.frames \in SUBSET Nat /\ IsFiniteSet(piped.frames)
      /\ DOMAIN segments = E!Seconds /\ source.sound \in Nat
  BY DEF FilesInv
<1>4. source'.sound = source.sound
  BY <1>2
<1>5. \A row \in inserted : row.of < made'
  BY <1>1 DEF FilesInv, RowKept
<1>6. PICK new : new = [of |-> made', second |-> piped.second, frames |-> piped.frames]
  OBVIOUS
<1>7. made' \in Nat /\ made <= made' /\ inserted' = inserted \union {new}
  BY <1>1, <1>3, <1>6
<1>8. \A row \in inserted' : RowKept(row)'
  BY <1>1, <1>2, <1>3, <1>4, <1>5, <1>6, <1>7, RowsWritten
<1>9. DOMAIN segments' = E!Seconds
  BY <1>2, <1>3
<1> QED BY <1>1, <1>3, <1>4, <1>7, <1>8, <1>9 DEF FilesInv, E!Seconds

LEMMA GreatestOfRange ==
    ASSUME NEW a \in Nat, NEW b \in Nat, a <= b
    PROVE  E!Max(a..b) = b
<1>1. \A x \in a..b : (\A y \in a..b : x >= y) <=> x = b
  OBVIOUS
<1>2. b \in a..b
  OBVIOUS
<1> QED BY <1>1, <1>2 DEF E!Max

LEMMA FilesBatch ==
    ASSUME EncoderConstants, FilesInv, E!EncodeBatch
    PROVE  FilesInv'
<1>1. /\ pipe = "none" /\ pipe' = "none" /\ made' = made + 1 /\ position < SourceLength
      /\ UNCHANGED <<piped, second>>
  BY DEF E!EncodeBatch
<1>2. PICK n \in 1..SegmentFrames :
          LET S == position..E!Min({SourceLength - 1, position + n - 1})
          IN  /\ position' = E!Max(S) + 1
              /\ \/ \E probe \in E!Probed(source), file \in E!Muxed(S) :
                       /\ source' = [source EXCEPT !.probe = probe]
                       /\ probe = "no" => file.sound = {}
                       /\ segments' = [segments EXCEPT ![second] = file]
                       /\ inserted' = inserted \union {[of |-> made', second |-> second, frames |-> S]}
                 \/ segments' = [segments EXCEPT ![second] = E!Part({})] /\ UNCHANGED <<inserted, source>>
  BY DEF E!EncodeBatch
<1> DEFINE last == E!Min({SourceLength - 1, position + n - 1})
<1> DEFINE S == position..last
<1>3. /\ made \in Nat /\ position \in Nat /\ second \in E!Seconds /\ DOMAIN segments = E!Seconds
      /\ source.sound \in Nat
      /\ piped.second \in E!Seconds /\ piped.frames \in SUBSET Nat /\ IsFiniteSet(piped.frames)
  BY DEF FilesInv
<1>4. last \in Nat /\ position <= last
  <2>1. SourceLength - 1 \in Nat /\ position + n - 1 \in Nat /\ SourceLength - 1 >= position /\ position + n - 1 >= position
    BY <1>1, <1>3 DEF EncoderConstants
  <2> QED BY <2>1, LeastOfTwo
<1> HIDE DEF last
<1>5. S \in SUBSET Nat /\ IsFiniteSet(S)
  <2>1. S \in SUBSET Nat
    BY <1>3, <1>4
  <2>2. IsFiniteSet(S)
    BY <1>3, <1>4, FS_Interval DEF S
  <2> QED BY <2>1, <2>2
<1>6. position' \in Nat
  <2>1. position' = E!Max(S) + 1
    BY <1>2 DEF last
  <2>2. E!Max(S) = last
    BY <1>3, <1>4, GreatestOfRange
  <2> HIDE DEF S
  <2> QED BY <1>4, <2>1, <2>2
<1> HIDE DEF S
<1>7. made' \in Nat /\ made <= made' /\ \A row \in inserted : row.of < made'
  BY <1>1, <1>3 DEF FilesInv, RowKept
<1>8. CASE \E probe \in E!Probed(source), file \in E!Muxed(S) :
              /\ source' = [source EXCEPT !.probe = probe]
              /\ segments' = [segments EXCEPT ![second] = file]
              /\ inserted' = inserted \union {[of |-> made', second |-> second, frames |-> S]}
  <2>1. PICK probe \in E!Probed(source), file \in E!Muxed(S) :
              /\ source' = [source EXCEPT !.probe = probe]
              /\ segments' = [segments EXCEPT ![second] = file]
              /\ inserted' = inserted \union {[of |-> made', second |-> second, frames |-> S]}
    BY <1>8
  <2>2. source'.sound = source.sound
    BY <2>1
  <2>3. PICK new : new = [of |-> made', second |-> second, frames |-> S]
    OBVIOUS
  <2>4. inserted' = inserted \union {new}
    BY <2>1, <2>3
  <2>5. \A row \in inserted' : RowKept(row)'
    BY <1>1, <1>3, <1>5, <1>7, <2>1, <2>2, <2>3, <2>4, RowsWritten
  <2>6. DOMAIN segments' = E!Seconds
    BY <1>3, <2>1
  <2> QED BY <1>1, <1>3, <1>6, <1>7, <2>2, <2>5, <2>6 DEF FilesInv, E!Seconds
<1>9. CASE segments' = [segments EXCEPT ![second] = E!Part({})] /\ UNCHANGED <<inserted, source>>
  <2> DEFINE empty == E!Part({})
  <2>1. empty.of = made'
    BY DEF E!Part
  <2> HIDE DEF empty
  <2>2. segments' = [segments EXCEPT ![second] = empty]
    BY <1>9 DEF empty
  <2>3. ASSUME NEW row \in inserted PROVE RowKept(row)'
    <3>1. \E t \in E!Seconds : \E f : segments' = [segments EXCEPT ![t] = f] /\ f.of = made' /\ row.of < made'
      BY <1>3, <1>7, <2>1, <2>2
    <3>2. source'.sound = source.sound
      BY <1>9
    <3> QED BY <1>1, <1>7, <3>1, <3>2, RowStays
  <2>4. \A row \in inserted' : RowKept(row)'
    BY <1>9, <2>3
  <2>5. DOMAIN segments' = E!Seconds /\ source'.sound \in Nat
    BY <1>3, <1>9, <2>2
  <2> QED BY <1>1, <1>3, <1>6, <1>7, <2>4, <2>5 DEF FilesInv, E!Seconds
<1>10. \/ \E probe \in E!Probed(source), file \in E!Muxed(S) :
              /\ source' = [source EXCEPT !.probe = probe]
              /\ segments' = [segments EXCEPT ![second] = file]
              /\ inserted' = inserted \union {[of |-> made', second |-> second, frames |-> S]}
       \/ segments' = [segments EXCEPT ![second] = E!Part({})] /\ UNCHANGED <<inserted, source>>
  BY <1>2 DEF S, last
<1> QED BY <1>8, <1>9, <1>10

LEMMA FilesStep ==
    ASSUME EncoderConstants, FilesInv, E!Next \/ UNCHANGED encoderVars
    PROVE  FilesInv'
BY FilesBegin, FilesQuiet, FilesDie, FilesFinish, FilesBatch DEF E!Next

LEMMA EncodingIsFaithful ==
    ASSUME BoxesInv, FilesInv
    PROVE  E!BoxesKeptSharp /\ E!FramesKept
<1>1. E!BoxesKeptSharp
  BY DEF BoxesInv, E!BoxesKeptSharp
<1>2. E!FramesKept
  <2> SUFFICES ASSUME NEW row \in inserted, segments[row.second].of = row.of,
                      source.sound = 0 \/ source.sound >= E!Cardinality(row.frames)
               PROVE  segments[row.second].frames = row.frames
    BY DEF E!FramesKept
  <2>1. source.sound = 0 \/ source.sound >= Cardinality(row.frames)
    BY EncoderCounts
  <2> QED BY <2>1 DEF FilesInv, RowKept
<1> QED BY <1>1, <1>2

\* Where the encoder rests, its boxes and files stay as they are.
LEMMA EncoderSteps ==
    ASSUME EncoderConstants, BoxesInv, FilesInv, E!Next \/ UNCHANGED encoderVars
    PROVE  BoxesInv' /\ FilesInv'
<1>1. CASE E!Next
  BY <1>1, BoxesStep, FilesStep
<1>2. CASE UNCHANGED encoderVars
  <2>1. UNCHANGED <<encoder, grid, rects, sighted>>
    BY <1>2 DEF encoderVars
  <2> QED BY <1>2, <2>1, BoxesStay, FilesStep
<1> QED BY <1>1, <1>2

\* What is encoded is true to the frames: no box seen lately is degraded, every row has its
\* frames, and the layers have their objects.
THEOREM EncodingFaithfulHolds ==
    ASSUME EncoderConstants, LayerConstants
    PROVE  ClipsSpec => []EncodingFaithful
<1> DEFINE Inv == /\ making = "encoder" => BoxesInv /\ FilesInv
                  /\ making = "layers" => LayersInv
<1>1. ClipsInit => Inv
  BY BoxesStart, FilesStart, LayersStart DEF ClipsInit
<1>2. ASSUME Inv, [ClipsNext]_clipVars PROVE Inv'
  <2>1. making' = making
    BY <1>2 DEF ClipsNext, clipVars
  <2>2. ASSUME making = "encoder" PROVE BoxesInv' /\ FilesInv'
    <3>1. E!Next \/ UNCHANGED encoderVars
      BY <1>2, <2>2 DEF ClipsNext, clipVars, MakeFilter, MakeSearch, MakeSegment, MakeLayers, MakeListing, MakeVideo
    <3> QED BY <1>2, <2>2, <3>1, EncoderSteps
  <2>3. ASSUME making = "layers" PROVE LayersInv'
    <3>1. Y!Next \/ UNCHANGED layerVars
      BY <1>2, <2>3 DEF ClipsNext, clipVars, MakeFilter, MakeSearch, MakeSegment, MakeLayers, MakeListing, MakeVideo
    <3> QED BY <1>2, <2>3, <3>1, LayersStep, LayersStutter
  <2> QED BY <2>1, <2>2, <2>3
<1>3. Inv => EncodingFaithful
  BY EncodingIsFaithful, LayersAreFaithful DEF EncodingFaithful
<1> QED BY <1>1, <1>2, <1>3, PTL DEF ClipsSpec

-----------------------------------------------------------------------------
(* The library of clips *)

\* A clip has its place in a folder, a listing is of a folder, or of the one the dashboard
\* writes to, a listing lives for a while, and one at least is kept.
LibraryConstants ==
    /\ IsFiniteSet(Shelf) /\ Place \in [Shelf -> L!Places]
    /\ OutputDir \in L!Folders /\ \A r \in Listings : r.folder \in L!Folders \union {L!Unset}
    /\ \A r \in Listings : r.recursive \in BOOLEAN /\ r.force \in BOOLEAN
    /\ SaysFolder \subseteq Clients /\ Ttl \in Nat \ {0} /\ Most \in Nat \ {0}

\* A clip that a walk of a folder meets.
InFolder(f, folder, recursive) ==
    /\ FolderOf[f] = folder
    /\ Place[f] \in (IF recursive THEN {"top", "sub"} ELSE {"top"})

\* The clips of a listing are in its folder, each of them once.
ListsFolder(items, folder, recursive) ==
    \A i \in items : /\ InFolder(i.clip, folder, recursive)
                     /\ \A j \in items : i.clip = j.clip => i = j

\* The invariant of the listings that are kept, of each client, and of the library.
Kept(k) ==
    /\ cache[k].at \in Nat /\ cache[k].walked \in Nat /\ cache[k].there \in BOOLEAN
    /\ cache[k].there => cache[k].at <= cache[k].walked /\ ListsFolder(cache[k].items, k[1], k[2])
Served(c) ==
    /\ client[c].pc \in {"idle", "asked", "walked", "shown"}
    /\ client[c].start \in Nat /\ client[c].walked \in Nat /\ client[c].start <= now
    /\ client[c].pc # "idle" => client[c].folder \in L!Folders /\ client[c].recursive \in BOOLEAN
    /\ client[c].pc = "walked" =>
          /\ client[c].start <= client[c].walked
          /\ \A f \in client[c].found : InFolder(f, client[c].folder, client[c].recursive)
    /\ client[c].pc = "shown" =>
          /\ client[c].walked + Ttl > client[c].start
          /\ client[c].force => client[c].walked >= client[c].start
          /\ ListsFolder(client[c].items, client[c].folder, client[c].recursive)
    /\ c \in SaysFolder => client[c].opened # "refused"
KeysThere == {k \in L!Keys : cache[k].there}
LibraryInv ==
    /\ now \in Nat /\ present \subseteq Shelf /\ remembered \in L!Folders \union {L!Unset}
    /\ DOMAIN cache = L!Keys /\ \A k \in L!Keys : Kept(k)
    /\ DOMAIN client = Clients /\ \A c \in Clients : Served(c)
    /\ Cardinality(KeysThere) <= Most

LEMMA LibraryCounts == \A S : L!Cardinality(S) = Cardinality(S)
BY DEF L!Cardinality, Cardinality

LEMMA KeysFinite ==
    ASSUME LibraryConstants
    PROVE  IsFiniteSet(L!Keys) /\ \A S \in SUBSET L!Keys : IsFiniteSet(S) /\ Cardinality(S) \in Nat
<1>1. IsFiniteSet(L!Folders)
  <2>1. [f \in Shelf |-> FolderOf[f]] \in Surjection(Shelf, L!Folders)
    BY DEF Surjection, L!Folders
  <2>2. IsFiniteSet(Shelf)
    BY DEF LibraryConstants
  <2> QED BY <2>1, <2>2, FS_Surjection
<1>2. IsFiniteSet(BOOLEAN)
  <2>1. BOOLEAN = {FALSE} \union {TRUE}
    BY Zenon
  <2>2. IsFiniteSet({FALSE})
    BY FS_Singleton, Zenon
  <2>3. IsFiniteSet({FALSE} \union {TRUE})
    BY <2>2, FS_AddElement, Zenon
  <2> QED BY <2>1, <2>3, Zenon
<1>3. IsFiniteSet(L!Keys)
  BY <1>1, <1>2, FS_Product DEF L!Keys
<1> QED BY <1>3, FS_Subset, FS_CardinalityType

LEMMA LibraryStarts ==
    ASSUME LibraryConstants, L!Init
    PROVE  LibraryInv
<1>1. \A k \in L!Keys : cache[k] = L!Uncached
  BY DEF L!Init
<1>2. KeysThere = {}
  BY <1>1 DEF KeysThere, L!Uncached
<1>3. Cardinality(KeysThere) <= Most
  BY <1>2, FS_EmptySet DEF LibraryConstants
<1>4. \A k \in L!Keys : Kept(k)
  <2>1. L!Uncached.at \in Nat /\ L!Uncached.walked \in Nat /\ ~L!Uncached.there
    BY DEF L!Uncached
  <2>2. L!Uncached.there \in BOOLEAN
    BY Zenon DEF L!Uncached
  <2> HIDE DEF L!Uncached
  <2> QED BY <1>1, <2>1, <2>2, ZenonT(30) DEF Kept
<1>5. \A c \in Clients : client[c] = L!Resting
  BY DEF L!Init
<1>6. \A c \in Clients : Served(c)
  BY <1>5 DEF Served, L!Resting, L!Init
<1> QED BY <1>3, <1>4, <1>6 DEF L!Init, LibraryInv

\* A client whose own listing rests is served as before, as the clock does not run back.
LEMMA ServedStill ==
    ASSUME LibraryInv, NEW c \in Clients, client'[c] = client[c], now' \in Nat, now <= now'
    PROVE  Served(c)'
<1>1. Served(c) /\ now \in Nat
  BY DEF LibraryInv
<1>2. client[c].start \in Nat /\ client[c].start <= now
  BY <1>1 DEF Served
<1>3. client[c].start <= now'
  BY <1>1, <1>2
<1> QED BY <1>1, <1>3 DEF Served

LEMMA CacheStill ==
    ASSUME LibraryInv, cache' = cache
    PROVE  DOMAIN cache' = L!Keys /\ (\A k \in L!Keys : Kept(k)') /\ Cardinality(KeysThere') <= Most
BY DEF LibraryInv, Kept, KeysThere

LEMMA FoldersChange ==
    ASSUME LibraryConstants, LibraryInv, L!Tick \/ L!Change
    PROVE  LibraryInv'
<1>1. now' \in Nat /\ now <= now' /\ present' \subseteq Shelf
  BY DEF LibraryInv, L!Tick, L!Change
<1>2. client' = client /\ cache' = cache /\ remembered' = remembered
  BY DEF L!Tick, L!Change
<1>3. \A c \in Clients : Served(c)'
  BY <1>1, <1>2, ServedStill
<1> QED BY <1>1, <1>2, <1>3, CacheStill DEF LibraryInv

LEMMA ClientAsks ==
    ASSUME LibraryConstants, LibraryInv, NEW c \in Clients, L!Ask(c)
    PROVE  LibraryInv'
<1>1. PICK r \in Listings :
          /\ client' = [client EXCEPT ![c] = [L!Resting EXCEPT
                !.pc = "asked", !.folder = L!Resolve(r.folder), !.start = now,
                !.recursive = r.recursive, !.force = r.force, !.kind = r.kind]]
          /\ remembered' = L!Resolve(r.folder)
  BY DEF L!Ask
<1>2. L!Resolve(r.folder) \in L!Folders
  BY DEF L!Resolve, LibraryInv, LibraryConstants
<1>3. /\ client'[c].pc = "asked" /\ client'[c].folder \in L!Folders /\ client'[c].start = now
      /\ client'[c].recursive \in BOOLEAN /\ client'[c].walked = 0 /\ client'[c].opened = "nothing"
  BY <1>1, <1>2 DEF L!Resting, LibraryInv, LibraryConstants
<1>4. now' = now /\ now \in Nat /\ UNCHANGED <<present, cache>>
  BY DEF L!Ask, LibraryInv
<1>5. Served(c)'
  BY <1>3, <1>4 DEF Served
<1>6. \A d \in Clients \ {c} : Served(d)'
  <2>1. \A d \in Clients \ {c} : client'[d] = client[d]
    BY <1>1 DEF LibraryInv
  <2> QED BY <1>4, <2>1, ServedStill
<1>7. DOMAIN client' = Clients
  BY <1>1 DEF LibraryInv
<1> QED BY <1>1, <1>2, <1>4, <1>5, <1>6, <1>7, CacheStill DEF LibraryInv

\* What an answer leaves in the hands of its client.
LEMMA Answered ==
    ASSUME LibraryInv, NEW c \in Clients, NEW listing, L!Answer(c, listing),
           client[c].folder \in L!Folders, client[c].recursive \in BOOLEAN,
           listing.walked \in Nat, listing.walked + Ttl > client[c].start,
           client[c].force => listing.walked >= client[c].start,
           ListsFolder(listing.items, client[c].folder, client[c].recursive), now' = now
    PROVE  DOMAIN client' = Clients /\ \A d \in Clients : Served(d)'
<1>1. /\ client'[c] = [client[c] EXCEPT !.pc = "shown", !.walked = listing.walked, !.error = listing.error,
                          !.truncated = listing.truncated, !.items = L!Filtered(c, listing.items), !.found = {}]
      /\ \A d \in Clients \ {c} : client'[d] = client[d]
      /\ DOMAIN client' = Clients
  BY DEF L!Answer, LibraryInv
<1>2. \A d \in Clients \ {c} : Served(d)'
  BY <1>1, ServedStill DEF LibraryInv
<1>3. Served(c)
  BY DEF LibraryInv
<1>4. /\ client'[c].pc = "shown" /\ client'[c].walked = listing.walked /\ client'[c].start = client[c].start
      /\ client'[c].folder = client[c].folder /\ client'[c].recursive = client[c].recursive
      /\ client'[c].force = client[c].force /\ client'[c].opened = client[c].opened
      /\ client'[c].items = L!Filtered(c, listing.items)
  BY <1>1
<1>5. ListsFolder(client'[c].items, client[c].folder, client[c].recursive)
  <2>1. client'[c].items \subseteq listing.items
    BY <1>4 DEF L!Filtered
  <2> QED BY <2>1 DEF ListsFolder
<1>6. Served(c)'
  BY <1>3, <1>4, <1>5 DEF Served
<1> QED BY <1>1, <1>2, <1>6

LEMMA ClientHits ==
    ASSUME LibraryConstants, LibraryInv, NEW c \in Clients, L!Hit(c)
    PROVE  LibraryInv'
<1> DEFINE k == L!Key(c)
<1>1. client[c].pc = "asked" /\ UNCHANGED <<now, present, remembered, cache>>
  BY DEF L!Hit, L!At
<1>2. /\ client[c].folder \in L!Folders /\ client[c].recursive \in BOOLEAN /\ client[c].start \in Nat
  BY <1>1 DEF LibraryInv, Served
<1>3. k \in L!Keys /\ k[1] = client[c].folder /\ k[2] = client[c].recursive
  BY <1>2 DEF L!Key, L!Keys
<1>4. cache[k].there /\ ~client[c].force /\ client[c].start < cache[k].at + Ttl
  BY DEF L!Hit, L!Fresh
<1>5. /\ cache[k].at \in Nat /\ cache[k].walked \in Nat /\ cache[k].at <= cache[k].walked
      /\ ListsFolder(cache[k].items, client[c].folder, client[c].recursive)
  BY <1>3, <1>4 DEF LibraryInv, Kept
<1>6. cache[k].walked + Ttl > client[c].start
  BY <1>2, <1>4, <1>5 DEF LibraryConstants
<1>7. L!Answer(c, cache[k])
  BY DEF L!Hit
<1>8. DOMAIN client' = Clients /\ \A d \in Clients : Served(d)'
  BY <1>1, <1>2, <1>4, <1>5, <1>6, <1>7, Answered
<1> QED BY <1>1, <1>8, CacheStill DEF LibraryInv

LEMMA ClientWalks ==
    ASSUME LibraryConstants, LibraryInv, NEW c \in Clients, L!Walk(c)
    PROVE  LibraryInv'
<1>1. client[c].pc = "asked" /\ UNCHANGED <<now, present, remembered, cache>>
  BY DEF L!Walk, L!At
<1>2. PICK met \in SUBSET L!Eligible(c), error \in BOOLEAN, truncated \in BOOLEAN :
          client' = L!Walked(c, met, error, truncated)
  <2>1. {} \in SUBSET L!Eligible(c) /\ \A met \in SUBSET L!Eligible(c) : (L!Cardinality(met) = Cap) \in BOOLEAN
    OBVIOUS
  <2> QED BY <2>1 DEF L!Walk
<1>3. /\ client'[c] = [client[c] EXCEPT !.pc = "walked", !.found = met, !.walked = now,
                                        !.error = error, !.truncated = truncated]
      /\ \A d \in Clients \ {c} : client'[d] = client[d]
      /\ DOMAIN client' = Clients
  BY <1>2 DEF L!Walked, LibraryInv
<1>4. \A d \in Clients \ {c} : Served(d)'
  BY <1>1, <1>3, ServedStill DEF LibraryInv
<1>5. Served(c) /\ now \in Nat
  BY DEF LibraryInv
<1>6. /\ client'[c].pc = "walked" /\ client'[c].walked = now /\ client'[c].start = client[c].start
      /\ client'[c].folder = client[c].folder /\ client'[c].recursive = client[c].recursive
      /\ client'[c].opened = client[c].opened /\ client'[c].found = met
  BY <1>3
<1>7. \A f \in met : InFolder(f, client[c].folder, client[c].recursive)
  <2> SUFFICES ASSUME NEW f \in met PROVE InFolder(f, client[c].folder, client[c].recursive)
    OBVIOUS
  <2>1. /\ f \in Shelf /\ FolderOf[f] = client[c].folder
        /\ Place[f] = "top" \/ (client[c].recursive /\ Place[f] # "hls")
    BY DEF L!Eligible, LibraryInv
  <2>2. Place[f] \in {"top", "sub", "hls"}
    BY <2>1 DEF LibraryConstants, L!Places
  <2> QED BY <2>1, <2>2 DEF InFolder
<1>8. Served(c)'
  BY <1>1, <1>5, <1>6, <1>7 DEF Served
<1> QED BY <1>1, <1>3, <1>4, <1>8, CacheStill DEF LibraryInv

LEMMA ClientClassifies ==
    ASSUME LibraryConstants, LibraryInv, NEW c \in Clients, L!Classify(c)
    PROVE  LibraryInv'
<1> DEFINE k == L!Key(c)
<1> DEFINE built == L!Built(c)
<1> DEFINE full == [cache EXCEPT ![k] = built]
<1> DEFINE there == {o \in L!Keys : full[o].there}
<1>1. client[c].pc = "walked" /\ UNCHANGED <<now, present, remembered>>
  BY DEF L!Classify, L!At
<1>2. /\ client[c].folder \in L!Folders /\ client[c].recursive \in BOOLEAN
      /\ client[c].start \in Nat /\ client[c].walked \in Nat /\ client[c].start <= client[c].walked
      /\ \A f \in client[c].found : InFolder(f, client[c].folder, client[c].recursive)
  BY <1>1 DEF LibraryInv, Served
<1>3. k \in L!Keys /\ k[1] = client[c].folder /\ k[2] = client[c].recursive
  BY <1>2 DEF L!Key, L!Keys
<1>4. /\ built.at = client[c].start /\ built.walked = client[c].walked /\ built.there = TRUE
      /\ built.items = {[clip |-> f, kind |-> L!Kind(f), done |-> f \in compressed] : f \in client[c].found}
  BY DEF L!Built, L!Listing
<1> HIDE DEF built
<1>5. ListsFolder(built.items, client[c].folder, client[c].recursive)
  <2>1. \A i \in built.items : \E f \in client[c].found :
            i = [clip |-> f, kind |-> L!Kind(f), done |-> f \in compressed] /\ i.clip = f
    BY <1>4
  <2> QED BY <1>2, <2>1 DEF ListsFolder
<1>6. built.walked + Ttl > client[c].start /\ built.walked >= client[c].start
  BY <1>2, <1>4 DEF LibraryConstants
<1>7. DOMAIN client' = Clients /\ \A d \in Clients : Served(d)'
  <2>1. L!Answer(c, built)
    BY DEF L!Classify, built
  <2> QED BY <1>1, <1>2, <1>4, <1>5, <1>6, <2>1, Answered
<1>8. /\ DOMAIN full = L!Keys /\ full[k] = built
      /\ \A o \in L!Keys \ {k} : full[o] = cache[o]
  BY <1>3 DEF LibraryInv
<1> HIDE DEF full
<1> DEFINE GoodKey(o, l) == /\ l.at \in Nat /\ l.walked \in Nat /\ l.there \in BOOLEAN
                            /\ l.there => l.at <= l.walked /\ ListsFolder(l.items, o[1], o[2])
<1>9. \A o \in L!Keys : GoodKey(o, full[o])
  <2>1. GoodKey(k, full[k])
    BY <1>2, <1>3, <1>4, <1>5, <1>8
  <2>2. \A o \in L!Keys \ {k} : GoodKey(o, full[o])
    BY <1>8 DEF LibraryInv, Kept
  <2> QED BY <2>1, <2>2
<1>10. cache' \in (IF Cardinality(there) <= Most THEN {full}
                   ELSE {[full EXCEPT ![o] = L!Uncached] : o \in {p \in there : \A q \in there : full[p].at <= full[q].at}})
  BY LibraryCounts DEF L!Classify, L!Stored, full, built
<1>11. there = KeysThere \union {k}
  BY <1>3, <1>4, <1>8 DEF KeysThere
<1>12. IsFiniteSet(there) /\ Cardinality(there) \in Nat /\ Cardinality(there) <= Most + 1
  <2>1. KeysThere \in SUBSET L!Keys /\ there \in SUBSET L!Keys
    BY DEF KeysThere
  <2>2. IsFiniteSet(KeysThere) /\ Cardinality(KeysThere) \in Nat /\ IsFiniteSet(there) /\ Cardinality(there) \in Nat
    BY <2>1, KeysFinite
  <2>3. \/ Cardinality(there) = Cardinality(KeysThere)
        \/ Cardinality(there) = Cardinality(KeysThere) + 1
    BY <1>11, <2>2, FS_AddElement
  <2>4. Cardinality(KeysThere) <= Most /\ Most \in Nat
    BY DEF LibraryInv, LibraryConstants
  <2> QED BY <1>11, <2>2, <2>3, <2>4
<1> HIDE DEF there, k
<1>13. CASE Cardinality(there) <= Most
  <2>1. cache' = full
    BY <1>10, <1>13
  <2>2. KeysThere' = there
    BY <2>1 DEF KeysThere, there
  <2> QED BY <1>1, <1>7, <1>8, <1>9, <1>13, <2>1, <2>2 DEF LibraryInv, Kept
<1>14. CASE ~(Cardinality(there) <= Most)
  <2>1. PICK o \in there : cache' = [full EXCEPT ![o] = L!Uncached]
    BY <1>10, <1>14
  <2>2. /\ DOMAIN cache' = L!Keys /\ cache'[o] = L!Uncached
        /\ \A p \in L!Keys \ {o} : cache'[p] = full[p]
        /\ o \in L!Keys
    BY <1>8, <2>1 DEF there
  <2>3. KeysThere' = there \ {o}
    BY <2>2 DEF KeysThere, there, L!Uncached
  <2>4. Cardinality(KeysThere') <= Most
    <3>1. Cardinality(there \ {o}) = Cardinality(there) - 1
      BY <1>12, <2>1, FS_RemoveElement
    <3> QED BY <1>12, <2>3, <3>1 DEF LibraryConstants
  <2>5. \A p \in L!Keys : GoodKey(p, cache'[p])
    <3>1. GoodKey(o, cache'[o])
      BY <2>2 DEF L!Uncached
    <3> QED BY <1>9, <2>2, <3>1
  <2> QED BY <1>1, <1>7, <2>2, <2>4, <2>5 DEF LibraryInv, Kept
<1> QED BY <1>13, <1>14

LEMMA ClientOpens ==
    ASSUME LibraryConstants, LibraryInv, NEW c \in Clients, L!Open(c)
    PROVE  LibraryInv'
<1>1. client[c].pc = "shown" /\ UNCHANGED <<now, present, remembered, cache>>
  BY DEF L!Open, L!At
<1>2. PICK i \in client[c].items :
          client' = [client EXCEPT ![c] = [L!Resting EXCEPT !.opened =
              IF i.clip \notin present THEN "gone" ELSE IF L!Allowed(c, i.clip) THEN "open" ELSE "refused"]]
  BY DEF L!Open
<1>3. c \in SaysFolder => L!Allowed(c, i.clip)
  BY <1>1 DEF LibraryInv, Served, ListsFolder, InFolder, L!Allowed
<1>4. /\ client'[c].pc = "idle" /\ client'[c].start = 0 /\ client'[c].walked = 0
      /\ c \in SaysFolder => client'[c].opened # "refused"
  BY <1>2, <1>3 DEF L!Resting, LibraryInv
<1>5. Served(c)'
  BY <1>1, <1>4 DEF Served, LibraryInv
<1>6. DOMAIN client' = Clients /\ \A d \in Clients \ {c} : client'[d] = client[d]
  BY <1>2 DEF LibraryInv
<1>7. \A d \in Clients \ {c} : Served(d)'
  BY <1>1, <1>6, ServedStill DEF LibraryInv
<1> QED BY <1>1, <1>5, <1>6, <1>7, CacheStill DEF LibraryInv

LEMMA LibraryTells ==
    ASSUME LibraryConstants, LibraryInv
    PROVE  L!ListingFresh /\ L!ListedOpens
<1>1. L!Cardinality({k \in L!Keys : cache[k].there}) <= Most
  BY LibraryCounts DEF LibraryInv, KeysThere
<1>2. \A c \in Clients : client[c].pc = "shown" =>
          /\ client[c].walked + Ttl > client[c].start
          /\ client[c].force => client[c].walked >= client[c].start
          /\ ListsFolder(client[c].items, client[c].folder, client[c].recursive)
  BY DEF LibraryInv, Served
<1>3. L!ListingFresh
  BY <1>1, <1>2 DEF L!ListingFresh, ListsFolder, InFolder
<1>4. \A c \in SaysFolder : client[c].opened # "refused"
  BY DEF LibraryInv, Served, LibraryConstants
<1> QED BY <1>3, <1>4 DEF L!ListedOpens

\* Whatever comes, goes and is browsed meanwhile, a listing is recent and of its folder, and
\* a client that says where it found a clip opens it.
THEOREM FilesToldHolds ==
    ASSUME LibraryConstants
    PROVE  ClipsSpec => []FilesTold
<1> DEFINE Inv == making = "library" => LibraryInv
<1>1. ClipsInit => Inv
  BY LibraryStarts DEF ClipsInit
<1>2. ASSUME Inv, [ClipsNext]_clipVars PROVE Inv'
  <2>1. SUFFICES ASSUME making' = "library" PROVE LibraryInv'
    OBVIOUS
  <2>2. making = "library" /\ LibraryInv
    BY <1>2, <2>1 DEF ClipsNext, clipVars
  <2>3. CASE L!Next
    BY <2>2, <2>3, FoldersChange, ClientAsks, ClientHits, ClientWalks, ClientClassifies, ClientOpens DEF L!Next
  <2>4. CASE UNCHANGED libraryVars
    BY <2>2, <2>4 DEF libraryVars, LibraryInv, Kept, Served, KeysThere
  <2>5. L!Next \/ UNCHANGED libraryVars
    BY <1>2, <2>2 DEF ClipsNext, clipVars, MakeFilter, MakeSearch, MakeSegment, MakeLayers, MakeListing, MakeVideo
  <2> QED BY <2>3, <2>4, <2>5
<1>3. Inv => FilesTold
  BY LibraryTells DEF FilesTold
<1> QED BY <1>1, <1>2, <1>3, PTL DEF ClipsSpec

-----------------------------------------------------------------------------
(* The compression on the phone *)

\* A clip lasts, rates are numbers, the encoder keeps to the rate that it was asked for, and
\* what earlier jobs left names rows that are gone.
PhoneConstants ==
    /\ \A clip \in Sources : clip.seconds \in Nat \ {0} /\ clip.rate \in Nat
    /\ Limits \in SUBSET Nat
    /\ PresetRate \in Nat /\ AudioRate \in Nat /\ FloorRate \in Nat /\ SafeRate \in Nat
    /\ Shares \in SUBSET (0..100) /\ MinSamples \in Nat \ {0}
    /\ \A past \in Pasts : \A r \in past : r.row \in Int /\ r.row <= 0 /\ r.share \in 0..100

Audible(o) == IF o.clip.audio /\ ~o.silent THEN AudioRate ELSE 0
Budget(o)  == (o.limit \div o.clip.seconds) - Audible(o)
Fits(o)    == o.limit > 0 /\ o.known /\ Budget(o) >= FloorRate

\* The rate asked for is within the budget of the limit; without what the job asks for on top,
\* so is the rate of every pass; and a file that is handed on keeps the limit.
Resting  == {"idle", "done", "failed", "cancelled"}
Writing  == {"copy", "show", "append", "write"}
Unboosted(rate, boost) == (rate * 100) \div boost
OrderGood(o) ==
    /\ o.clip \in Sources /\ o.limit \in Nat /\ o.rate \in Nat
    /\ Fits(o) => o.rate <= Budget(o)
Within(o, file) ==
    o.limit > 0 /\ o.known /\ (o.limit \div o.clip.seconds) - file.sound >= FloorRate
    => F!Kbit(file, o.clip.seconds) <= o.limit
WorkInv ==
    /\ stage \notin Resting => OrderGood(order)
    /\ stage \in {"analyze", "encode", "fallback", "check"} =>
          /\ work.rate \in Nat /\ work.boost \in Nat /\ work.boost >= 100
          /\ Fits(order) => Unboosted(work.rate, work.boost) <= Budget(order)
    /\ stage \notin Resting \union {"start"} =>
          DOMAIN work = {"rate", "boost", "fell", "pass", "regions", "noted"}
    /\ stage \in {"analyze", "encode"} => work.fell = FALSE
    /\ stage = "fallback" => work.fell = TRUE /\ work.pass \in Nat /\ work.pass <= work.rate
    /\ stage \in {"check", "insert", "copy", "show"} =>
          /\ temp.fell = work.fell /\ temp.rate = work.pass /\ temp.regions = work.noted
          /\ temp.share \in 0..100
    /\ stage = "check" => temp.rate \in Nat /\ temp.rate <= work.rate /\ temp.sound = Audible(order)
    /\ stage \in {"insert", "copy", "show"} => Within(order, temp)

\* A video that is shown is whole and keeps its limit.
RowGood(row) ==
    /\ DOMAIN row = {"visible", "content", "of", "order"}
    /\ row.visible => row.content = "whole" /\ Within(row.order, row.of)
IsList(s) == \E T : s \in Seq(T)
RowsInv ==
    /\ IsList(gallery)
    /\ \A j \in 1..Len(gallery) : RowGood(gallery[j])
    /\ stage \in Writing => Len(gallery) > 0
    /\ stage = "copy" => ~gallery[Len(gallery)].visible /\ gallery[Len(gallery)].order = order
    /\ stage = "show" => /\ gallery[Len(gallery)].content = "whole" /\ gallery[Len(gallery)].of = temp
                         /\ gallery[Len(gallery)].order = order
    /\ stage \in {"append", "write"} =>
          /\ gallery[Len(gallery)].of.fell = work.fell /\ gallery[Len(gallery)].of.rate = work.pass
          /\ gallery[Len(gallery)].of.regions = work.noted /\ gallery[Len(gallery)].of.share \in 0..100

\* A record, also one that is only read, is of an earlier row than the one being written, and
\* true of it.
Noted(r) == r \in history \/ (stage = "write" /\ r \in reading) \/ (forgetting # F!NoRead /\ r \in forgetting)
RecordTrue(r) ==
    /\ r.row \in Int /\ r.row <= Len(gallery) /\ r.share \in 0..100
    /\ stage \in Writing => r.row < Len(gallery)
    /\ r.row > 0 /\ gallery[r.row].visible =>
          LET of == gallery[r.row].of
          IN  r.fell = of.fell /\ r.pass = of.rate /\ r.regions = of.regions
NotesInv == \A r : Noted(r) => RecordTrue(r)

LEMMA PhoneCounts == \A S : F!Cardinality(S) = Cardinality(S)
BY DEF F!Cardinality, Cardinality

LEMMA LesserOfTwo ==
    ASSUME NEW a \in Int, NEW b \in Int
    PROVE  /\ F!Min({a, b}) = (IF a <= b THEN a ELSE b)
           /\ F!Max({a, b}) = (IF a >= b THEN a ELSE b)
BY DEF F!Min, F!Max

LEMMA AtLeast ==
    ASSUME NEW a \in Int, NEW b \in Nat
    PROVE  F!Max({a, b}) \in Nat /\ (a >= b => F!Max({a, b}) = a) /\ (a < b => F!Max({a, b}) = b)
<1>1. F!Max({a, b}) = IF a >= b THEN a ELSE b
  BY LesserOfTwo
<1> QED BY <1>1

LEMMA AtMost ==
    ASSUME NEW a \in Nat, NEW b \in Nat
    PROVE  F!Min({a, b}) \in Nat /\ F!Min({a, b}) <= a
<1>1. F!Min({a, b}) = IF a <= b THEN a ELSE b
  BY LesserOfTwo
<1> QED BY <1>1

LEMMA ScaleBack ==
    ASSUME NEW r \in Nat, NEW b \in Nat, b >= 100
    PROVE  (r * b) \div 100 \in Nat /\ Unboosted((r * b) \div 100, b) <= r
<1> DEFINE t == (r * b) \div 100
<1>1. t \in Nat /\ 100 * t <= r * b
  <2>1. r * b \in Nat
    OBVIOUS
  <2> QED BY <2>1
<1> HIDE DEF t
<1> DEFINE u == (t * 100) \div b
<1>2. u \in Nat /\ b * u <= t * 100
  <2>1. t * 100 \in Nat /\ b \in Nat \ {0}
    BY <1>1
  <2> QED BY <2>1, Quotient
<1> HIDE DEF u
<1>3. b * u < b * (r + 1)
  <2>1. b * (r + 1) = r * b + b
    OBVIOUS
  <2>2. b * u \in Int /\ r * b \in Int /\ t * 100 = 100 * t
    BY <1>1, <1>2
  <2> QED BY <1>1, <1>2, <2>1, <2>2
<1>4. u <= r
  <2>1. b \in Nat \ {0}
    OBVIOUS
  <2> QED BY <1>2, <1>3, <2>1, FactorsCompare
<1> QED BY <1>1, <1>4 DEF t, u, Unboosted

LEMMA UnboostedGrows ==
    ASSUME NEW r \in Nat, NEW s \in Nat, r <= s, NEW b \in Nat \ {0}
    PROVE  Unboosted(r, b) \in Nat /\ Unboosted(r, b) <= Unboosted(s, b)
<1> DEFINE u == (r * 100) \div b
<1> DEFINE v == (s * 100) \div b
<1>1. u \in Nat /\ b * u <= r * 100
  <2>1. r * 100 \in Nat
    OBVIOUS
  <2> QED BY <2>1, Quotient
<1>2. v \in Nat /\ s * 100 < b * (v + 1)
  <2>1. s * 100 \in Nat
    OBVIOUS
  <2> QED BY <2>1, Quotient
<1> HIDE DEF u, v
<1>3. b * u < b * (v + 1)
  <2>1. b * u \in Int /\ b * (v + 1) \in Int
    BY <1>1, <1>2
  <2> QED BY <1>1, <1>2, <2>1
<1>4. u <= v
  BY <1>1, <1>2, <1>3, FactorsCompare
<1> QED BY <1>1, <1>4 DEF u, v, Unboosted

LEMMA UnboostedLess ==
    ASSUME NEW r \in Nat, NEW b \in Nat, b >= 100
    PROVE  Unboosted(r, b) \in Nat /\ Unboosted(r, b) <= r
<1> DEFINE u == (r * 100) \div b
<1>1. u \in Nat /\ b * u <= r * 100
  <2>1. r * 100 \in Nat /\ b \in Nat \ {0}
    OBVIOUS
  <2> QED BY <2>1, Quotient
<1> HIDE DEF u
<1>2. r * 100 <= r * b
  OBVIOUS
<1>3. b * u < b * (r + 1)
  <2>1. b * (r + 1) = r * b + b
    OBVIOUS
  <2>2. b * u \in Int /\ r * b \in Int
    BY <1>1
  <2> QED BY <1>1, <1>2, <2>1, <2>2
<1>4. u <= r
  <2>1. b \in Nat \ {0}
    OBVIOUS
  <2> QED BY <1>1, <1>3, <2>1, FactorsCompare
<1> QED BY <1>1, <1>4 DEF u, Unboosted

\* A rate and a sound that fit the limit together make a file that keeps it.
LEMMA FileFits ==
    ASSUME NEW r \in Nat, NEW share \in 0..100, NEW a \in Nat, NEW sec \in Nat \ {0}, NEW limit \in Nat,
           r + a <= limit \div sec
    PROVE  ((r * share) \div 100 + a) * sec <= limit
<1> DEFINE q == (r * share) \div 100
<1> DEFINE most == limit \div sec
<1>1. q \in Nat /\ q <= r
  <2>1. r * share \in Nat /\ r * share <= r * 100
    OBVIOUS
  <2> QED BY <2>1
<1>2. most \in Nat /\ sec * most <= limit
  BY Quotient
<1>3. r + a <= most
  OBVIOUS
<1> HIDE DEF q, most
<1>4. (q + a) * sec <= most * sec
  <2>1. q + a \in Nat /\ q + a <= most
    BY <1>1, <1>2, <1>3
  <2> QED BY <1>2, <2>1
<1>5. most * sec = sec * most /\ (q + a) * sec \in Int /\ sec * most \in Int
  BY <1>1, <1>2
<1> QED BY <1>2, <1>4, <1>5 DEF q

\* What the jobs before teach never makes one ask for less.
LEMMA GreatestOfBounded ==
    ASSUME NEW S \in SUBSET (0..100), S # {}
    PROVE  F!Max(S) \in S
<1> DEFINE T == {n \in Nat : 100 - n \in S}
<1>1. T # {}
  <2>1. PICK s \in S : TRUE
    OBVIOUS
  <2>2. 100 - s \in T
    BY <2>1
  <2> QED BY <2>2
<1>2. PICK x \in T : \A y \in T : x <= y
  BY <1>1, LeastNumber
<1>3. \A s \in S : 100 - s \in T /\ s \in Int
  OBVIOUS
<1>4. \A s \in S : 100 - x >= s
  <2> SUFFICES ASSUME NEW s \in S PROVE 100 - x >= s
    OBVIOUS
  <2>1. 100 - s \in T /\ s \in 0..100
    BY <1>3
  <2>2. x <= 100 - s /\ x \in Nat
    BY <1>2, <2>1
  <2> QED BY <2>1, <2>2
<1>5. 100 - x \in S
  BY <1>2
<1> QED BY <1>4, <1>5 DEF F!Max

LEMMA FactorRaises ==
    ASSUME PhoneConstants, RowsInv, NotesInv
    PROVE  F!Factor \in Nat /\ F!Factor >= 100
<1>1. \A r \in F!Sized : r.row \in Int /\ r.row <= Len(gallery) /\ r.share \in 1..100
  BY DEF F!Sized, NotesInv, Noted, RecordTrue
<1>2. CASE F!Sized = {}
  <2>1. F!Cardinality(F!Sized) = 0
    BY <1>2, PhoneCounts, FS_EmptySet
  <2>2. F!Cardinality(F!Sized) < MinSamples
    BY <2>1 DEF PhoneConstants
  <2> QED BY <2>2 DEF F!Factor
<1>3. CASE F!Sized # {}
  <2>1. Len(gallery) \in Nat
    BY LenProperties DEF RowsInv, IsList
  <2> DEFINE T == {n \in Nat : \E r \in F!Sized : r.row = Len(gallery) - n}
  <2>2. \A r \in F!Sized : Len(gallery) - r.row \in T
    BY <1>1, <2>1
  <2>15. T \in SUBSET Nat /\ \A n \in T : \E r \in F!Sized : r.row = Len(gallery) - n
    OBVIOUS
  <2> HIDE DEF T
  <2>3. PICK x \in T : \A y \in T : x <= y
    BY <1>3, <2>2, <2>15, LeastNumber
  <2>4. PICK last \in F!Sized : last.row = Len(gallery) - x
    BY <2>15
  <2>5. \A q \in F!Sized : ~(q.row > last.row)
    BY <1>1, <2>1, <2>2, <2>3, <2>4, <2>15
  <2>6. {q \in F!Sized : q.row > last.row} = {}
    BY <2>5
  <2>7. F!Cardinality({q \in F!Sized : q.row > last.row}) < 10
    <3> DEFINE later == {q \in F!Sized : q.row > last.row}
    <3>1. later = {}
      BY <2>6
    <3> HIDE DEF later
    <3>2. F!Cardinality(later) = 0
      BY <3>1, PhoneCounts, FS_EmptySet
    <3>3. F!Cardinality(later) < 10
      BY <3>2
    <3> QED BY <3>3 DEF later
  <2>8. last.share \in F!Ratios
    BY <2>4, <2>7 DEF F!Ratios
  <2>9. F!Ratios \in SUBSET (0..100) /\ \A s \in F!Ratios : s > 0
    <3>1. \A s \in F!Ratios : \E r \in F!Sized : s = r.share
      BY DEF F!Ratios
    <3>2. ASSUME NEW s \in F!Ratios PROVE s \in 1..100
      <4>1. PICK r \in F!Sized : s = r.share
        BY <3>1
      <4> QED BY <1>1, <4>1
    <3> QED BY <3>2
  <2>10. F!Max(F!Ratios) \in Nat \ {0}
    <3> DEFINE S == F!Ratios
    <3> HIDE DEF S
    <3>1. S \in SUBSET (0..100) /\ S # {} /\ \A s \in S : s > 0
      BY <2>8, <2>9 DEF S
    <3>2. F!Max(S) \in S
      BY <3>1, GreatestOfBounded
    <3>3. F!Max(S) \in 0..100 /\ F!Max(S) > 0
      BY <3>1, <3>2
    <3>4. F!Max(S) \in Nat \ {0}
      BY <3>3
    <3> QED BY <3>4 DEF S
  <2>11. PICK m \in Nat \ {0} : m = F!Max(F!Ratios)
    BY <2>10
  <2>12. 9700 \div m \in Nat
    BY <2>11, Quotient
  <2>13. F!Max({100, 9700 \div m}) \in Nat /\ F!Max({100, 9700 \div m}) >= 100
    <3> DEFINE k == 9700 \div m
    <3> HIDE DEF k
    <3>1. k \in Nat
      BY <2>12 DEF k
    <3>2. F!Max({100, k}) = IF 100 >= k THEN 100 ELSE k
      BY <3>1, LesserOfTwo
    <3>3. F!Max({100, k}) \in Nat /\ F!Max({100, k}) >= 100
      BY <3>1, <3>2
    <3> QED BY <3>3 DEF k
  <2>14. F!Min({125, F!Max({100, 9700 \div m})}) \in Nat /\ F!Min({125, F!Max({100, 9700 \div m})}) >= 100
    <3> DEFINE k == F!Max({100, 9700 \div m})
    <3> HIDE DEF k
    <3>1. k \in Nat /\ k >= 100
      BY <2>13 DEF k
    <3>2. F!Min({125, k}) \in Nat /\ F!Min({125, k}) >= 100
      BY <3>1, LesserOfTwo
    <3> QED BY <3>2 DEF k
  <2> QED BY <2>11, <2>14 DEF F!Factor
<1> QED BY <1>2, <1>3
LEMMA GalleryLength ==
    ASSUME NEW s, IsList(s)
    PROVE  Len(s) \in Nat /\ DOMAIN s = 1..Len(s)
BY LenProperties DEF IsList

\* The rate of a request fits the budget of its limit.
LEMMA PlannedFits ==
    ASSUME PhoneConstants, NEW clip \in Sources, NEW limit \in Nat, NEW silent \in BOOLEAN, NEW known \in BOOLEAN,
           NEW sound, sound = IF clip.audio /\ ~silent THEN AudioRate ELSE 0
    PROVE  /\ F!Planned(clip, limit, silent, known) \in Nat
           /\ known /\ limit > 0 /\ (limit \div clip.seconds) - sound >= FloorRate
              => F!Planned(clip, limit, silent, known) <= (limit \div clip.seconds) - sound
<1> DEFINE audio == ~known \/ clip.audio
<1> DEFINE reserve == IF audio /\ ~silent THEN AudioRate ELSE 0
<1> DEFINE lasts == IF known THEN clip.seconds ELSE 1
<1> DEFINE each == limit \div lasts
<1> DEFINE target == F!TargetRate(limit, lasts, reserve)
<1> DEFINE rate == IF limit = 0 THEN PresetRate ELSE target
<1> DEFINE cap == F!Max({clip.rate - (IF audio THEN AudioRate ELSE 0), FloorRate})
<1>1. lasts \in Nat \ {0} /\ reserve \in Nat /\ clip.rate \in Nat /\ clip.seconds \in Nat \ {0}
      /\ FloorRate \in Nat /\ PresetRate \in Nat /\ AudioRate \in Nat
  BY DEF PhoneConstants
<1>2. each \in Nat
  BY <1>1, Quotient
<1>3. target = (F!Max({each - reserve, FloorRate}) * 95) \div 100
  BY DEF F!TargetRate
<1>4. cap \in Nat
  <2> DEFINE less == clip.rate - (IF audio THEN AudioRate ELSE 0)
  <2>1. less \in Int
    BY <1>1
  <2> HIDE DEF less
  <2>2. F!Max({less, FloorRate}) \in Nat
    BY <1>1, <2>1, AtLeast
  <2> QED BY <2>2 DEF less
<1>5. F!Planned(clip, limit, silent, known) = IF known THEN F!Capped(rate, clip, audio) ELSE rate
  BY DEF F!Planned
<1>6. F!Capped(rate, clip, audio) = F!Min({rate, cap})
  BY DEF F!Capped
<1>7. known => reserve = sound /\ each = limit \div clip.seconds
  OBVIOUS
<1> HIDE DEF each, reserve, lasts, target, cap, audio
<1>8. target \in Nat /\ (each - reserve >= FloorRate => target <= each - reserve)
  <2> DEFINE most == F!Max({each - reserve, FloorRate})
  <2>1. most \in Nat /\ (each - reserve >= FloorRate => most = each - reserve)
    <3> DEFINE spare == each - reserve
    <3>1. spare \in Int
      BY <1>1, <1>2
    <3> HIDE DEF spare
    <3>3. F!Max({spare, FloorRate}) \in Nat /\ (spare >= FloorRate => F!Max({spare, FloorRate}) = spare)
      BY <1>1, <3>1, AtLeast
    <3> QED BY <3>3 DEF spare
  <2>2. target = (most * 95) \div 100
    BY <1>3
  <2> HIDE DEF most
  <2>3. target \in Nat /\ target <= most
    BY <2>1, <2>2
  <2> QED BY <2>1, <2>3
<1>9. rate \in Nat
  BY <1>1, <1>8
<1>10. limit > 0 => rate = target
  OBVIOUS
<1> HIDE DEF rate
<1>11. F!Min({rate, cap}) \in Nat /\ F!Min({rate, cap}) <= rate
  BY <1>4, <1>9, LesserOfTwo
<1> DEFINE planned == F!Planned(clip, limit, silent, known)
<1>12. planned \in Nat /\ planned <= rate
  BY <1>5, <1>6, <1>9, <1>11
<1> HIDE DEF planned
<1>13. ASSUME known, limit > 0, each - reserve >= FloorRate PROVE planned <= each - reserve
  BY <1>1, <1>2, <1>8, <1>9, <1>10, <1>12, <1>13
<1> QED BY <1>7, <1>12, <1>13 DEF planned

LEMMA OrderStarts ==
    ASSUME PhoneConstants, F!Start
    PROVE  OrderGood(order')
<1>1. PICK clip \in Sources, limit \in Limits \union {0}, smart \in BOOLEAN, silent \in BOOLEAN, known \in BOOLEAN :
          order' = [clip |-> clip, limit |-> limit, smart |-> smart, silent |-> silent,
                    known |-> known, rate |-> F!Planned(clip, limit, silent, known)]
  BY DEF F!Start
<1>2. order'.silent = silent /\ order'.known = known
  <2> DEFINE r == [clip |-> clip, limit |-> limit, smart |-> smart, silent |-> silent,
                   known |-> known, rate |-> F!Planned(clip, limit, silent, known)]
  <2>1. r.silent = silent
    BY Zenon
  <2>2. r.known = known
    BY Zenon
  <2> HIDE DEF r
  <2>3. order' = r
    BY <1>1 DEF r
  <2> QED BY <2>1, <2>2, <2>3, Zenon
<1>3. order'.clip = clip /\ order'.limit = limit /\ order'.rate = F!Planned(clip, limit, silent, known)
  BY <1>1
<1>4. limit \in Nat
  BY DEF PhoneConstants
<1> DEFINE sound == IF clip.audio /\ ~silent THEN AudioRate ELSE 0
<1> DEFINE planned == F!Planned(clip, limit, silent, known)
<1>5. /\ planned \in Nat
      /\ known /\ limit > 0 /\ (limit \div clip.seconds) - sound >= FloorRate
         => planned <= (limit \div clip.seconds) - sound
  BY <1>4, PlannedFits
<1>6. Audible(order') = sound
  <2>1. Audible(order') = IF order'.clip.audio /\ ~order'.silent THEN AudioRate ELSE 0
    BY DEF Audible
  <2> QED BY <1>2, <1>3, <2>1, Zenon
<1>7. Budget(order') = (limit \div clip.seconds) - sound
  BY <1>3, <1>6 DEF Budget
<1>8. Fits(order') => known /\ limit > 0 /\ (limit \div clip.seconds) - sound >= FloorRate
  <2>1. Fits(order') => order'.known /\ order'.limit > 0 /\ Budget(order') >= FloorRate
    BY DEF Fits
  <2>2. order'.known => known
    BY <1>2, Zenon
  <2> QED BY <1>3, <1>7, <2>1, <2>2
<1>9. Fits(order') => order'.rate <= Budget(order')
  <2> HIDE DEF sound, planned
  <2>1. order'.rate = planned
    BY <1>3 DEF planned
  <2> QED BY <1>5, <1>7, <1>8, <2>1
<1> QED BY <1>3, <1>4, <1>5, <1>9 DEF OrderGood

LEMMA WorkStarts ==
    ASSUME PhoneConstants, F!Start
    PROVE  WorkInv'
<1>1. stage' = "start"
  BY DEF F!Start
<1> QED BY <1>1, OrderStarts DEF WorkInv, Resting

LEMMA WorkCalibrates ==
    ASSUME PhoneConstants, WorkInv, RowsInv, NotesInv, F!Calibrate
    PROVE  WorkInv'
<1> DEFINE boost == IF order.limit > 0 THEN F!Factor ELSE 100
<1>1. /\ stage = "start" /\ stage' = "analyze" /\ order' = order
      /\ work' = [F!Fresh EXCEPT !.boost = boost, !.rate = (@ * boost) \div 100]
  BY DEF F!Calibrate
<1>2. boost \in Nat /\ boost >= 100
  BY FactorRaises
<1> HIDE DEF boost
<1>3. OrderGood(order)
  BY <1>1 DEF WorkInv, Resting
<1>4. order.rate \in Nat
  BY <1>3 DEF OrderGood
<1>5. work'.rate = (order.rate * boost) \div 100 /\ work'.boost = boost /\ work'.fell = FALSE
      /\ DOMAIN work' = {"rate", "boost", "fell", "pass", "regions", "noted"}
  BY <1>1 DEF F!Fresh
<1>6. work'.rate \in Nat /\ Unboosted(work'.rate, work'.boost) <= order.rate
  BY <1>2, <1>4, <1>5, ScaleBack
<1>7. Fits(order) => Unboosted(work'.rate, work'.boost) <= Budget(order)
  <2>1. boost \in Nat \ {0}
    BY <1>2
  <2>2. Unboosted(work'.rate, work'.boost) \in Nat
    BY <1>5, <1>6, <2>1, UnboostedGrows
  <2>3. Budget(order) \in Int
    <3>1. order.clip.seconds \in Nat \ {0} /\ order.limit \in Nat /\ Audible(order) \in Nat
      BY <1>3 DEF OrderGood, PhoneConstants, Audible
    <3> QED BY <3>1, Quotient DEF Budget
  <2> QED BY <1>3, <1>4, <1>6, <2>2, <2>3 DEF OrderGood
<1> QED BY <1>1, <1>2, <1>3, <1>5, <1>6, <1>7 DEF WorkInv, Resting

LEMMA BudgetNumber ==
    ASSUME PhoneConstants, NEW o, OrderGood(o)
    PROVE  Budget(o) \in Int /\ Audible(o) \in Nat /\ FloorRate \in Nat
           /\ o.clip.seconds \in Nat \ {0} /\ o.limit \in Nat /\ o.clip.rate \in Nat
<1>1. o.clip.seconds \in Nat \ {0} /\ o.limit \in Nat /\ o.clip.rate \in Nat
  BY DEF OrderGood, PhoneConstants
<1>2. AudioRate \in Nat /\ FloorRate \in Nat
  BY DEF PhoneConstants
<1>3. Audible(o) \in Nat
  BY <1>2 DEF Audible
<1> QED BY <1>1, <1>2, <1>3, Quotient DEF Budget

\* A rate that fits the budget still does when it is cut, down to the floor.
LEMMA CutFits ==
    ASSUME PhoneConstants, NEW o, OrderGood(o), NEW r \in Nat, NEW b \in Nat, b >= 100, NEW s \in Nat,
           s <= r \/ s <= FloorRate,
           Fits(o) => Unboosted(r, b) <= Budget(o)
    PROVE  Fits(o) => Unboosted(s, b) <= Budget(o)
<1> SUFFICES ASSUME Fits(o) PROVE Unboosted(s, b) <= Budget(o)
  OBVIOUS
<1>1. Budget(o) \in Int /\ FloorRate \in Nat
  BY BudgetNumber
<1>2. b \in Nat \ {0} /\ Budget(o) >= FloorRate
  BY DEF Fits
<1>3. CASE s <= r
  <2>1. Unboosted(s, b) \in Nat /\ Unboosted(s, b) <= Unboosted(r, b)
    BY <1>2, <1>3, UnboostedGrows
  <2>2. Unboosted(r, b) \in Nat
    BY <1>2, UnboostedGrows
  <2> QED BY <1>1, <2>1, <2>2
<1>4. CASE s <= FloorRate
  <2>1. Unboosted(s, b) \in Nat /\ Unboosted(s, b) <= s
    BY UnboostedLess
  <2> QED BY <1>1, <1>2, <1>4, <2>1
<1> QED BY <1>3, <1>4

LEMMA WorkAnalyzes ==
    ASSUME PhoneConstants, WorkInv, F!Analyze
    PROVE  WorkInv'
<1>1. stage = "analyze" /\ stage' = "encode" /\ order' = order
  BY DEF F!Analyze
<1>2. PICK probed \in BOOLEAN, missing \in BOOLEAN, sized \in BOOLEAN, boxes \in SUBSET Detections :
          LET fewer  == order.smart /\ ~missing /\ boxes = {}
              rate == IF fewer THEN F!Max({(work.rate * 65) \div 100, FloorRate}) ELSE work.rate
          IN  work' = [work EXCEPT
                 !.rate = IF order.known /\ sized THEN F!Capped(rate, order.clip, ~probed \/ order.clip.audio) ELSE rate,
                 !.regions = IF order.smart /\ ~missing /\ honours /\ probed
                             THEN F!Cardinality(F!Regions(boxes)) ELSE 0]
  BY DEF F!Analyze
<1> DEFINE fewer  == order.smart /\ ~missing /\ boxes = {}
<1> DEFINE less == F!Max({(work.rate * 65) \div 100, FloorRate})
<1> DEFINE rate == IF fewer THEN less ELSE work.rate
<1> DEFINE known == order.known /\ sized
<1> DEFINE cap  == F!Max({order.clip.rate - (IF ~probed \/ order.clip.audio THEN AudioRate ELSE 0), FloorRate})
<1> DEFINE final == IF known THEN F!Min({rate, cap}) ELSE rate
<1> DEFINE areas == IF order.smart /\ ~missing /\ honours /\ probed THEN F!Cardinality(F!Regions(boxes)) ELSE 0
<1>3. work' = [work EXCEPT !.rate = final, !.regions = areas]
  BY <1>2 DEF F!Capped
<1>4. OrderGood(order)
  BY <1>1 DEF WorkInv, Resting
<1>5. FloorRate \in Nat /\ AudioRate \in Nat /\ order.clip.rate \in Nat /\ work.rate \in Nat
      /\ work.boost \in Nat /\ work.boost >= 100
      /\ (Fits(order) => Unboosted(work.rate, work.boost) <= Budget(order))
      /\ DOMAIN work = {"rate", "boost", "fell", "pass", "regions", "noted"}
  BY <1>1, <1>4 DEF WorkInv, Resting, PhoneConstants, OrderGood
<1>6. cap \in Nat
  <2> DEFINE spare == order.clip.rate - (IF ~probed \/ order.clip.audio THEN AudioRate ELSE 0)
  <2>1. spare \in Int
    BY <1>5
  <2> HIDE DEF spare
  <2>2. F!Max({spare, FloorRate}) \in Nat
    BY <1>5, <2>1, AtLeast
  <2> QED BY <2>2 DEF spare
<1>7. less \in Nat /\ (less <= work.rate \/ less <= FloorRate)
  <2> DEFINE piece == (work.rate * 65) \div 100
  <2>1. piece \in Nat /\ piece <= work.rate
    BY <1>5
  <2> HIDE DEF piece
  <2>2. F!Max({piece, FloorRate}) \in Nat /\ (piece >= FloorRate => F!Max({piece, FloorRate}) = piece)
        /\ (piece < FloorRate => F!Max({piece, FloorRate}) = FloorRate)
    BY <1>5, <2>1, AtLeast
  <2>3. F!Max({piece, FloorRate}) <= work.rate \/ F!Max({piece, FloorRate}) <= FloorRate
    BY <1>5, <2>1, <2>2
  <2> QED BY <2>2, <2>3 DEF piece
<1> HIDE DEF fewer, less, known, cap
<1>8. rate \in Nat /\ (rate <= work.rate \/ rate <= FloorRate)
  BY <1>5, <1>7
<1> HIDE DEF rate
<1>9. F!Min({rate, cap}) \in Nat /\ F!Min({rate, cap}) <= rate
  BY <1>6, <1>8, LesserOfTwo
<1>10. final \in Nat /\ (final <= work.rate \/ final <= FloorRate)
  BY <1>5, <1>8, <1>9
<1> HIDE DEF final, areas
<1>11. /\ work'.rate = final /\ work'.boost = work.boost /\ work'.fell = work.fell /\ DOMAIN work' = DOMAIN work
  BY <1>3, <1>5
<1>12. Fits(order) => Unboosted(final, work.boost) <= Budget(order)
  BY <1>4, <1>5, <1>10, CutFits
<1> QED BY <1>1, <1>4, <1>5, <1>10, <1>11, <1>12 DEF WorkInv, Resting
LEMMA WorkEncodes ==
    ASSUME PhoneConstants, WorkInv, F!Encode
    PROVE  WorkInv'
<1>1. stage = "encode" /\ order' = order
  BY DEF F!Encode
<1>2. OrderGood(order)
  BY <1>1 DEF WorkInv, Resting
<1>3. /\ work.rate \in Nat /\ work.boost \in Nat /\ work.boost >= 100
      /\ (Fits(order) => Unboosted(work.rate, work.boost) <= Budget(order))
      /\ DOMAIN work = {"rate", "boost", "fell", "pass", "regions", "noted"} /\ work.fell = FALSE
  BY <1>1 DEF WorkInv, Resting
<1>4. CASE \E share \in Shares, areas \in F!Outcomes(work.regions) :
             /\ temp' = F!Made(work.rate, share, FALSE, areas)
             /\ work' = [work EXCEPT !.pass = work.rate, !.noted = areas] /\ stage' = "check"
  <2>1. PICK share \in Shares, areas \in F!Outcomes(work.regions) :
             /\ temp' = F!Made(work.rate, share, FALSE, areas)
             /\ work' = [work EXCEPT !.pass = work.rate, !.noted = areas] /\ stage' = "check"
    BY <1>4
  <2>2. /\ temp'.rate = work.rate /\ temp'.share = share /\ temp'.fell = FALSE /\ temp'.regions = areas
        /\ temp'.sound = Audible(order)
    BY <2>1 DEF F!Made, Audible
  <2>3. /\ work'.rate = work.rate /\ work'.boost = work.boost /\ work'.fell = work.fell
        /\ work'.pass = work.rate /\ work'.noted = areas /\ DOMAIN work' = DOMAIN work
    BY <1>3, <2>1
  <2>4. share \in 0..100
    BY DEF PhoneConstants
  <2>5. temp'.fell = work'.fell
    BY <1>3, <2>2, <2>3, Zenon
  <2>7. temp'.rate = work'.pass /\ temp'.regions = work'.noted
        /\ temp'.share \in 0..100 /\ temp'.rate \in Nat /\ temp'.rate <= work'.rate
    BY <1>3, <2>2, <2>3, <2>4
  <2>6. stage' = "check"
    BY <2>1
  <2> QED BY <1>1, <1>2, <1>3, <2>2, <2>3, <2>5, <2>6, <2>7 DEF WorkInv, Resting
<1>5. CASE /\ temp' = F!Nothing /\ stage' = "fallback"
           /\ work' = [work EXCEPT !.fell = TRUE, !.pass = F!Min({work.rate, SafeRate})]
  <2> DEFINE pass == F!Min({work.rate, SafeRate})
  <2>1. pass \in Nat /\ pass <= work.rate
    <3>1. SafeRate \in Nat
      BY DEF PhoneConstants
    <3> QED BY <1>3, <3>1, AtMost
  <2> HIDE DEF pass
  <2>2. work' = [work EXCEPT !.fell = TRUE, !.pass = pass]
    BY <1>5 DEF pass
  <2>3. /\ work'.rate = work.rate /\ work'.boost = work.boost /\ work'.fell = TRUE
        /\ work'.pass = pass /\ DOMAIN work' = DOMAIN work
    BY <1>3, <2>2
  <2> QED BY <1>1, <1>2, <1>3, <1>5, <2>1, <2>3 DEF WorkInv, Resting
<1> QED BY <1>4, <1>5 DEF F!Encode

LEMMA WorkFallsBack ==
    ASSUME PhoneConstants, WorkInv, F!FallBack
    PROVE  WorkInv'
<1>1. stage = "fallback" /\ order' = order
  BY DEF F!FallBack
<1>2. /\ OrderGood(order)
      /\ work.rate \in Nat /\ work.boost \in Nat /\ work.boost >= 100
      /\ (Fits(order) => Unboosted(work.rate, work.boost) <= Budget(order))
      /\ DOMAIN work = {"rate", "boost", "fell", "pass", "regions", "noted"}
      /\ work.fell = TRUE /\ work.pass \in Nat /\ work.pass <= work.rate
  BY <1>1 DEF WorkInv, Resting
<1>3. CASE \E share \in Shares :
             /\ temp' = F!Made(work.pass, share, TRUE, 0)
             /\ work' = [work EXCEPT !.noted = 0] /\ stage' = "check"
  <2>1. PICK share \in Shares :
             /\ temp' = F!Made(work.pass, share, TRUE, 0)
             /\ work' = [work EXCEPT !.noted = 0] /\ stage' = "check"
    BY <1>3
  <2>2. /\ temp'.rate = work.pass /\ temp'.share = share /\ temp'.fell = TRUE /\ temp'.regions = 0
        /\ temp'.sound = Audible(order)
    BY <2>1 DEF F!Made, Audible
  <2>3. /\ work'.rate = work.rate /\ work'.boost = work.boost /\ work'.fell = work.fell
        /\ work'.pass = work.pass /\ work'.noted = 0 /\ DOMAIN work' = DOMAIN work
    BY <1>2, <2>1
  <2>4. share \in 0..100
    BY DEF PhoneConstants
  <2> QED BY <1>1, <1>2, <2>1, <2>2, <2>3, <2>4 DEF WorkInv, Resting
<1>4. CASE stage' = "failed"
  BY <1>4 DEF WorkInv, Resting
<1> QED BY <1>3, <1>4 DEF F!FallBack

\* A file at a rate within the budget keeps the limit.
LEMMA FileWithin ==
    ASSUME PhoneConstants, NEW o, OrderGood(o), NEW file, file.rate \in Nat, file.share \in 0..100,
           file.sound = Audible(o), Fits(o) => file.rate <= Budget(o)
    PROVE  Within(o, file)
<1>1. /\ Budget(o) \in Int /\ Audible(o) \in Nat /\ o.clip.seconds \in Nat \ {0} /\ o.limit \in Nat
  BY BudgetNumber
<1>2. SUFFICES ASSUME o.limit > 0, o.known, (o.limit \div o.clip.seconds) - file.sound >= FloorRate
               PROVE  F!Kbit(file, o.clip.seconds) <= o.limit
  BY DEF Within
<1>3. file.rate <= Budget(o)
  BY <1>2 DEF Fits, Budget
<1>4. o.limit \div o.clip.seconds \in Nat
  BY <1>1, Quotient
<1>5. file.rate + file.sound <= o.limit \div o.clip.seconds
  BY <1>1, <1>3, <1>4 DEF Budget
<1>6. ((file.rate * file.share) \div 100 + file.sound) * o.clip.seconds <= o.limit
  BY <1>1, <1>5, FileFits
<1> QED BY <1>6 DEF F!Kbit

LEMMA WorkChecks ==
    ASSUME PhoneConstants, WorkInv, F!Check
    PROVE  WorkInv'
<1>1. stage = "check" /\ order' = order
  BY DEF F!Check
<1>2. /\ OrderGood(order)
      /\ work.rate \in Nat /\ work.boost \in Nat /\ work.boost >= 100
      /\ (Fits(order) => Unboosted(work.rate, work.boost) <= Budget(order))
      /\ DOMAIN work = {"rate", "boost", "fell", "pass", "regions", "noted"}
      /\ temp.fell = work.fell /\ temp.rate = work.pass /\ temp.regions = work.noted
      /\ temp.share \in 0..100
      /\ temp.rate \in Nat /\ temp.rate <= work.rate /\ temp.sound = Audible(order)
  BY <1>1 DEF WorkInv, Resting
<1>3. CASE F!Overshot
  <2>1. /\ stage' = "encode"
        /\ work' = [work EXCEPT !.boost = 100, !.rate = (@ * 100) \div work.boost, !.fell = FALSE]
    BY <1>3 DEF F!Check
  <2>2. work'.boost = 100 /\ work'.rate = Unboosted(work.rate, work.boost) /\ work'.fell = FALSE
        /\ DOMAIN work' = DOMAIN work
    BY <1>2, <2>1 DEF Unboosted
  <2>3. work'.rate \in Nat
    <3>1. work.boost \in Nat \ {0}
      BY <1>2
    <3> QED BY <1>2, <2>2, <3>1, UnboostedGrows
  <2>4. Unboosted(work'.rate, work'.boost) = work'.rate
    <3> DEFINE r == work'.rate
    <3> HIDE DEF r
    <3>1. r \in Nat
      BY <2>3 DEF r
    <3>2. (r * 100) \div 100 = r
      BY <3>1
    <3> QED BY <2>2, <3>2 DEF Unboosted, r
  <2>5. Fits(order) => Unboosted(work'.rate, work'.boost) <= Budget(order)
    BY <1>2, <2>2, <2>4
  <2> QED BY <1>1, <1>2, <2>1, <2>2, <2>3, <2>5 DEF WorkInv, Resting
<1>4. CASE ~F!Overshot
  <2>1. stage' = "insert" /\ UNCHANGED <<work, temp>>
    BY <1>4 DEF F!Check
  <2>2. Within(order, temp)
    <3>1. CASE work.boost > 100
      <4>1. ~(F!Kbit(temp, order.clip.seconds) > order.limit)
        BY <1>4, <3>1 DEF F!Overshot
      <4>2. F!Kbit(temp, order.clip.seconds) \in Int /\ order.limit \in Int
        <5>1. order.clip.seconds \in Nat /\ order.limit \in Nat /\ temp.sound \in Nat
          BY <1>2, BudgetNumber
        <5>2. temp.rate * temp.share \in Nat
          BY <1>2
        <5>3. (temp.rate * temp.share) \div 100 \in Nat
          BY <5>2
        <5> QED BY <5>1, <5>3 DEF F!Kbit
      <4>3. F!Kbit(temp, order.clip.seconds) <= order.limit
        BY <4>1, <4>2
      <4> QED BY <4>3 DEF Within
    <3>2. CASE work.boost = 100
      <4>1. Unboosted(work.rate, work.boost) = work.rate
        <5>1. (work.rate * 100) \div 100 = work.rate
          BY <1>2
        <5> QED BY <3>2, <5>1 DEF Unboosted
      <4>2. Budget(order) \in Int
        BY <1>2, BudgetNumber
      <4>3. Fits(order) => temp.rate <= Budget(order)
        BY <1>2, <4>1, <4>2
      <4> QED BY <1>2, <4>3, FileWithin
    <3> QED BY <1>2, <3>1, <3>2
  <2> QED BY <1>1, <1>2, <2>1, <2>2 DEF WorkInv, Resting
<1> QED BY <1>3, <1>4

LEMMA WorkWrites ==
    ASSUME PhoneConstants, WorkInv,
           F!Fails \/ F!Insert \/ F!Copy \/ F!Show \/ F!AppendRead \/ F!AppendWrite
    PROVE  WorkInv'
<1>1. CASE F!Fails \/ F!AppendWrite
  <2>1. stage' \in Resting
    BY <1>1 DEF F!Fails, F!AppendWrite, Resting
  <2> QED BY <2>1 DEF WorkInv, Resting
<1>2. CASE F!Insert \/ F!Copy
  <2>1. UNCHANGED <<order, work, temp>> /\ stage \in {"insert", "copy"} /\ stage' \in {"copy", "show"}
    BY <1>2 DEF F!Insert, F!Copy
  <2> QED BY <2>1 DEF WorkInv, Resting
<1>3. CASE F!Show \/ F!AppendRead
  <2>1. UNCHANGED <<order, work>> /\ stage \in {"show", "append"} /\ stage' \in {"append", "write"}
    BY <1>3 DEF F!Show, F!AppendRead
  <2> QED BY <2>1 DEF WorkInv, Resting
<1> QED BY <1>1, <1>2, <1>3

LEMMA WorkDies ==
    ASSUME PhoneConstants, WorkInv, F!Cancel \/ F!Dies
    PROVE  WorkInv'
<1>1. stage' \in Resting \/ (stage' = "start" /\ stage \notin Resting /\ UNCHANGED order)
  BY DEF F!Cancel, F!Dies, Resting
<1> QED BY <1>1 DEF WorkInv, Resting

LEMMA WorkStays ==
    ASSUME WorkInv, F!DeleteVideo \/ F!DeleteRecord \/ UNCHANGED phoneVars
    PROVE  WorkInv'
<1>1. UNCHANGED <<stage, order, work, temp>>
  BY DEF F!DeleteVideo, F!DeleteRecord, phoneVars
<1> QED BY <1>1 DEF WorkInv

LEMMA WorkSteps ==
    ASSUME PhoneConstants, WorkInv, RowsInv, NotesInv, F!Next \/ UNCHANGED phoneVars
    PROVE  WorkInv'
BY WorkStarts, WorkCalibrates, WorkAnalyzes, WorkEncodes, WorkFallsBack, WorkChecks, WorkWrites, WorkDies,
   WorkStays DEF F!Next
LEMMA RowPut ==
    ASSUME NEW s, IsList(s), NEW n \in 1..Len(s), NEW row, NEW t, t = [s EXCEPT ![n] = row]
    PROVE  /\ IsList(t)
           /\ Len(t) = Len(s) /\ t[n] = row
           /\ \A j \in 1..Len(s) : j # n => t[j] = s[j]
<1>1. PICK T : s \in Seq(T)
  BY DEF IsList
<1> DEFINE Wider == T \union {row}
<1>2. Len(s) \in Nat /\ DOMAIN s = 1..Len(s) /\ s \in [1..Len(s) -> Wider]
  BY <1>1, LenProperties
<1> HIDE DEF Wider
<1>3. row \in Wider
  BY DEF Wider
<1>4. t \in [1..Len(s) -> Wider] /\ t[n] = row /\ \A j \in 1..Len(s) : j # n => t[j] = s[j]
  BY <1>2, <1>3
<1>5. t \in Seq(Wider)
  BY <1>2, <1>4
<1>6. Len(t) = Len(s)
  BY <1>2, <1>4, <1>5
<1> QED BY <1>4, <1>5, <1>6 DEF IsList

LEMMA RowAdded ==
    ASSUME NEW s, IsList(s), NEW row, NEW t, t = Append(s, row)
    PROVE  /\ IsList(t)
           /\ Len(t) = Len(s) + 1 /\ t[Len(t)] = row
           /\ \A j \in 1..Len(s) : t[j] = s[j]
<1>1. PICK T : s \in Seq(T)
  BY DEF IsList
<1> DEFINE Wider == T \union {row}
<1>2. Len(s) \in Nat /\ s \in [1..Len(s) -> Wider]
  BY <1>1, LenProperties
<1> HIDE DEF Wider
<1>3. row \in Wider
  BY DEF Wider
<1>4. s \in Seq(Wider)
  BY <1>2
<1>5. Append(s, row) \in Seq(Wider) /\ Len(Append(s, row)) = Len(s) + 1 /\ Append(s, row)[Len(s) + 1] = row
      /\ \A j \in 1..Len(s) : Append(s, row)[j] = s[j]
  BY <1>3, <1>4, AppendProperties
<1> QED BY <1>5 DEF IsList

\* A row is written over: the others and the records stay true, when it is not shown or is the
\* one that the job writes.
LEMMA RowsEdited ==
    ASSUME RowsInv, NEW n \in 1..Len(gallery), NEW row, RowGood(row), gallery' = [gallery EXCEPT ![n] = row]
    PROVE  /\ IsList(gallery')
           /\ Len(gallery') = Len(gallery) /\ gallery'[n] = row
           /\ \A j \in 1..Len(gallery') : RowGood(gallery'[j])
           /\ \A j \in 1..Len(gallery) : j # n => gallery'[j] = gallery[j]
<1>1. IsList(gallery)
  BY DEF RowsInv
<1>2. /\ IsList(gallery')
      /\ Len(gallery') = Len(gallery) /\ gallery'[n] = row
      /\ \A j \in 1..Len(gallery) : j # n => gallery'[j] = gallery[j]
  <2>1. PICK t : t = gallery'
    OBVIOUS
  <2>2. PICK s : s = gallery
    OBVIOUS
  <2>3. IsList(s) /\ n \in 1..Len(s) /\ t = [s EXCEPT ![n] = row]
    BY <1>1, <2>1, <2>2
  <2>4. /\ IsList(t) /\ Len(t) = Len(s) /\ t[n] = row
        /\ \A j \in 1..Len(s) : j # n => t[j] = s[j]
    <3>1. IsList(t)
      BY <2>3, RowPut
    <3>2. Len(t) = Len(s)
      BY <2>3, RowPut
    <3>3. t[n] = row
      BY <2>3, RowPut
    <3>4. \A j \in 1..Len(s) : j # n => t[j] = s[j]
      BY <2>3, RowPut
    <3> QED BY <3>1, <3>2, <3>3, <3>4
  <2> QED BY <2>1, <2>2, <2>4
<1>3. \A j \in 1..Len(gallery) : RowGood(gallery[j])
  BY DEF RowsInv
<1>4. \A j \in 1..Len(gallery') : RowGood(gallery'[j])
  BY <1>2, <1>3
<1> QED BY <1>2, <1>4

LEMMA RecordsEdited ==
    ASSUME RowsInv, NotesInv, NEW n \in 1..Len(gallery), NEW row, gallery' = [gallery EXCEPT ![n] = row],
           stage' \in Writing => stage \in Writing,
           ~row.visible \/ (stage \in Writing /\ n = Len(gallery)),
           \A r : Noted(r)' => Noted(r)
    PROVE  NotesInv'
<1>1. IsList(gallery)
  BY DEF RowsInv
<1>2. /\ Len(gallery') = Len(gallery) /\ gallery'[n] = row
      /\ \A j \in 1..Len(gallery) : j # n => gallery'[j] = gallery[j]
  BY <1>1, RowPut
<1>3. Len(gallery) \in Nat
  BY <1>1, GalleryLength
<1>4. ASSUME NEW r, Noted(r) PROVE RecordTrue(r)'
  <2>1. RecordTrue(r)
    BY <1>4 DEF NotesInv
  <2>2. r.row > 0 /\ gallery'[r.row].visible => gallery'[r.row] = gallery[r.row]
    <3>1. r.row \in Int /\ r.row <= Len(gallery) /\ (stage \in Writing => r.row < Len(gallery))
      BY <2>1 DEF RecordTrue
    <3>2. CASE r.row = n
      <4>1. gallery'[r.row] = row
        BY <1>2, <3>2
      <4>2. ~row.visible
        BY <1>3, <3>1, <3>2
      <4> QED BY <4>1, <4>2
    <3>3. CASE r.row # n
      <4>1. r.row > 0 => r.row \in 1..Len(gallery)
        BY <1>3, <3>1
      <4> QED BY <1>2, <3>3, <4>1
    <3> QED BY <3>2, <3>3
  <2> QED BY <1>2, <2>1, <2>2 DEF RecordTrue, Writing
<1> QED BY <1>4 DEF NotesInv

LEMMA RowsHold ==
    ASSUME RowsInv, NotesInv, UNCHANGED gallery, stage' \notin Writing, \A r : Noted(r)' => Noted(r)
    PROVE  RowsInv' /\ NotesInv'
<1>1. RowsInv'
  BY DEF RowsInv, Writing
<1>2. ASSUME NEW r, Noted(r) PROVE RecordTrue(r)'
  BY <1>2 DEF NotesInv, RecordTrue, Writing
<1> QED BY <1>1, <1>2 DEF NotesInv

LEMMA RowsWait ==
    ASSUME RowsInv, NotesInv,
           F!Start \/ F!Calibrate \/ F!Analyze \/ F!Encode \/ F!FallBack \/ F!Check \/ F!Cancel
    PROVE  RowsInv' /\ NotesInv'
<1>1. UNCHANGED <<gallery, history, forgetting>> /\ stage' \notin Writing
  BY DEF F!Start, F!Calibrate, F!Analyze, F!Encode, F!FallBack, F!Check, F!Cancel, Writing
<1>2. \A r : Noted(r)' => Noted(r)
  BY <1>1 DEF Noted, Writing
<1> QED BY <1>1, <1>2, RowsHold

\* A row left half copied is not shown.
LEMMA RowsBreak ==
    ASSUME RowsInv, NotesInv, F!Fails \/ F!Dies
    PROVE  RowsInv' /\ NotesInv'
<1>1. /\ stage' \notin Writing
      /\ gallery' = IF stage = "copy" THEN [gallery EXCEPT ![Len(gallery)].content = "part"] ELSE gallery
  BY DEF F!Fails, F!Dies, Writing
<1>2. \A r : Noted(r)' => Noted(r)
  <2>1. UNCHANGED <<history, forgetting>> \/ (history' \in {history, {}} /\ forgetting' = F!NoRead)
    BY DEF F!Fails, F!Dies
  <2> QED BY <1>1, <2>1 DEF Noted, Writing
<1>3. CASE stage # "copy"
  BY <1>1, <1>2, <1>3, RowsHold
<1>4. CASE stage = "copy"
  <2> DEFINE n == Len(gallery)
  <2> DEFINE row == [gallery[n] EXCEPT !.content = "part"]
  <2>1. n > 0 /\ n \in Nat
    BY <1>4, GalleryLength DEF RowsInv, Writing
  <2>2. n \in 1..Len(gallery)
    BY <2>1
  <2>3. RowGood(gallery[n]) /\ ~gallery[n].visible
    BY <1>4, <2>2 DEF RowsInv
  <2>4. ~row.visible /\ DOMAIN row = {"visible", "content", "of", "order"}
    BY <2>3 DEF RowGood
  <2>5. RowGood(row)
    BY <2>4 DEF RowGood
  <2>6. gallery' = [gallery EXCEPT ![n] = row]
    BY <1>1, <1>4
  <2> HIDE DEF row
  <2>7. NotesInv'
    BY <1>1, <1>2, <2>2, <2>4, <2>6, RecordsEdited
  <2>8. /\ IsList(gallery')
        /\ \A j \in 1..Len(gallery') : RowGood(gallery'[j])
    BY <2>2, <2>5, <2>6, RowsEdited
  <2>9. RowsInv'
    BY <1>1, <2>8 DEF RowsInv, Writing
  <2> QED BY <2>7, <2>9
<1> QED BY <1>3, <1>4
\* A new row is not shown, and no record is of it.
LEMMA RowsInsert ==
    ASSUME RowsInv, NotesInv, F!Insert
    PROVE  RowsInv' /\ NotesInv'
<1> DEFINE row == [F!NoRow EXCEPT !.order = order]
<1>1. /\ stage = "insert" /\ stage' = "copy" /\ gallery' = Append(gallery, row)
      /\ UNCHANGED <<order, work, temp, history, reading, forgetting>>
  BY DEF F!Insert
<1>2. RowGood(row) /\ ~row.visible /\ row.order = order
  BY DEF F!NoRow, RowGood
<1> HIDE DEF row
<1>3. PICK s, t : s = gallery /\ t = gallery'
  OBVIOUS
<1>4. IsList(s) /\ t = Append(s, row)
  BY <1>1, <1>3 DEF RowsInv
<1>5. IsList(t) /\ Len(t) = Len(s) + 1
  BY <1>4, RowAdded
<1>6. t[Len(t)] = row
  BY <1>4, RowAdded
<1>7. \A j \in 1..Len(s) : t[j] = s[j]
  BY <1>4, RowAdded
<1>8. Len(s) \in Nat
  BY <1>4, GalleryLength
<1>9. \A j \in 1..Len(t) : RowGood(t[j])
  <2> SUFFICES ASSUME NEW j \in 1..Len(t) PROVE RowGood(t[j])
    OBVIOUS
  <2>1. CASE j = Len(t)
    BY <1>2, <1>6, <2>1
  <2>2. CASE j # Len(t)
    <3>1. j \in 1..Len(s)
      BY <1>5, <1>8, <2>2
    <3>2. RowGood(s[j])
      BY <1>3, <3>1 DEF RowsInv
    <3> QED BY <1>7, <3>1, <3>2
  <2> QED BY <2>1, <2>2
<1>10. RowsInv'
  <2>1. ~gallery'[Len(gallery')].visible /\ gallery'[Len(gallery')].order = order'
    BY <1>1, <1>2, <1>3, <1>6
  <2>2. Len(gallery') > 0
    BY <1>3, <1>5, <1>8
  <2>3. IsList(gallery') /\ \A j \in 1..Len(gallery') : RowGood(gallery'[j])
    BY <1>3, <1>5, <1>9
  <2> QED BY <1>1, <2>1, <2>2, <2>3 DEF RowsInv
<1>11. ASSUME NEW r, Noted(r)' PROVE RecordTrue(r)'
  <2>1. Noted(r)
    BY <1>1, <1>11 DEF Noted
  <2>2. RecordTrue(r)
    BY <2>1 DEF NotesInv
  <2>3. r.row \in Int /\ r.row <= Len(s) /\ r.share \in 0..100
    BY <1>3, <2>2 DEF RecordTrue
  <2>4. r.row > 0 => t[r.row] = s[r.row]
    <3>1. r.row > 0 => r.row \in 1..Len(s)
      BY <1>8, <2>3
    <3> QED BY <1>7, <3>1
  <2>5. r.row > 0 => gallery'[r.row] = gallery[r.row]
    BY <1>3, <2>4
  <2>6. r.row <= Len(gallery') /\ r.row < Len(gallery')
    BY <1>3, <1>5, <1>8, <2>3
  <2> QED BY <2>2, <2>3, <2>5, <2>6 DEF RecordTrue
<1> QED BY <1>10, <1>11 DEF NotesInv

LEMMA RowsCopy ==
    ASSUME WorkInv, RowsInv, NotesInv, F!Copy \/ F!Show
    PROVE  RowsInv' /\ NotesInv'
<1> DEFINE n == Len(gallery)
<1>1. stage \in {"copy", "show"} /\ UNCHANGED <<order, work, history, reading, forgetting>>
  BY DEF F!Copy, F!Show
<1>2. n \in Nat /\ n > 0 /\ IsList(gallery)
  BY <1>1, GalleryLength DEF RowsInv, Writing
<1>3. n \in 1..Len(gallery)
  BY <1>2
<1>4. RowGood(gallery[n])
  BY <1>3 DEF RowsInv
<1>5. DOMAIN gallery[n] = {"visible", "content", "of", "order"}
  BY <1>4 DEF RowGood
<1>6. \A r : Noted(r)' => Noted(r)
  BY <1>1 DEF Noted, F!Copy, F!Show
<1>7. CASE F!Copy
  <2> DEFINE row == [gallery[n] EXCEPT !.content = "whole", !.of = temp]
  <2>1. gallery' = [gallery EXCEPT ![n] = row] /\ stage = "copy" /\ stage' = "show" /\ temp' = temp
    BY <1>2, <1>3, <1>7, GalleryLength DEF F!Copy
  <2>2. ~gallery[n].visible /\ gallery[n].order = order
    BY <2>1 DEF RowsInv
  <2>3. /\ ~row.visible /\ DOMAIN row = {"visible", "content", "of", "order"}
        /\ row.content = "whole" /\ row.of = temp /\ row.order = order
    BY <1>5, <2>2
  <2>4. RowGood(row)
    BY <2>3 DEF RowGood
  <2> HIDE DEF row
  <2>5. NotesInv'
    BY <1>3, <1>6, <2>1, <2>3, RecordsEdited DEF Writing
  <2>6. /\ IsList(gallery') /\ Len(gallery') = Len(gallery) /\ gallery'[n] = row
        /\ \A j \in 1..Len(gallery') : RowGood(gallery'[j])
    BY <1>3, <2>1, <2>4, RowsEdited
  <2>7. gallery'[Len(gallery')] = row /\ Len(gallery') > 0
    BY <1>2, <2>6
  <2>8. RowsInv'
    BY <1>1, <2>1, <2>3, <2>6, <2>7 DEF RowsInv
  <2> QED BY <2>5, <2>8
<1>8. CASE F!Show
  <2> DEFINE row == [gallery[n] EXCEPT !.visible = TRUE]
  <2>1. gallery' = [gallery EXCEPT ![n] = row] /\ stage = "show" /\ stage' = "append"
    BY <1>2, <1>3, <1>8, GalleryLength DEF F!Show
  <2>2. gallery[n].content = "whole" /\ gallery[n].of = temp /\ gallery[n].order = order
    BY <2>1 DEF RowsInv
  <2>3. /\ DOMAIN row = {"visible", "content", "of", "order"}
        /\ row.content = "whole" /\ row.of = temp /\ row.order = order
    BY <1>5, <2>2
  <2>4. /\ temp.fell = work.fell /\ temp.rate = work.pass /\ temp.regions = work.noted
        /\ temp.share \in 0..100 /\ Within(order, temp)
    BY <2>1 DEF WorkInv
  <2>5. RowGood(row)
    BY <2>3, <2>4 DEF RowGood
  <2> HIDE DEF row
  <2>6. NotesInv'
    BY <1>3, <1>6, <2>1, RecordsEdited DEF Writing
  <2>7. /\ IsList(gallery') /\ Len(gallery') = Len(gallery) /\ gallery'[n] = row
        /\ \A j \in 1..Len(gallery') : RowGood(gallery'[j])
    BY <1>3, <2>1, <2>5, RowsEdited
  <2>8. gallery'[Len(gallery')] = row /\ Len(gallery') > 0
    BY <1>2, <2>7
  <2>9. RowsInv'
    BY <1>1, <2>1, <2>3, <2>4, <2>7, <2>8 DEF RowsInv
  <2> QED BY <2>6, <2>9
<1> QED BY <1>7, <1>8

LEMMA RowsRead ==
    ASSUME RowsInv, NotesInv, F!AppendRead
    PROVE  RowsInv' /\ NotesInv'
<1>1. stage = "append" /\ stage' = "write" /\ reading' = history
      /\ UNCHANGED <<order, work, temp, gallery, history, forgetting>>
  BY DEF F!AppendRead
<1>2. RowsInv'
  BY <1>1 DEF RowsInv, Writing
<1>3. ASSUME NEW r, Noted(r)' PROVE RecordTrue(r)'
  <2>1. Noted(r)
    BY <1>1, <1>3 DEF Noted
  <2> QED BY <1>1, <2>1 DEF NotesInv, RecordTrue, Writing
<1> QED BY <1>2, <1>3 DEF NotesInv

\* The record that is written names the row that was, and says how it was made.
LEMMA RowsRecorded ==
    ASSUME RowsInv, NotesInv, F!AppendWrite
    PROVE  RowsInv' /\ NotesInv'
<1> DEFINE n == Len(gallery)
<1> DEFINE told == [row |-> n, limit |-> order.limit, fell |-> work.fell, pass |-> work.pass,
                    share |-> gallery[n].of.share, regions |-> work.noted]
<1>1. PICK new : new = told
  OBVIOUS
<1>2. /\ new.row = n /\ new.pass = work.pass /\ new.regions = work.noted /\ new.share = gallery[n].of.share
  BY <1>1
<1>3. new.fell = work.fell
  <2>1. told.fell = work.fell
    BY Zenon
  <2> HIDE DEF told
  <2> QED BY <1>1, <2>1, Zenon
<1>4. /\ stage = "write" /\ stage' \in {"done", "failed"} /\ UNCHANGED <<gallery, forgetting>>
      /\ history' = reading \union {new} \/ history' = {}
  BY <1>1 DEF F!AppendWrite
<1> HIDE DEF told
<1>5. /\ n \in Nat /\ gallery[n].of.fell = work.fell /\ gallery[n].of.rate = work.pass
      /\ gallery[n].of.regions = work.noted /\ gallery[n].of.share \in 0..100
  BY <1>4, GalleryLength DEF RowsInv
<1>6. RowsInv'
  BY <1>4 DEF RowsInv, Writing
<1>7. stage' \notin Writing
  BY <1>4 DEF Writing
<1>8. RecordTrue(new)'
  <2>1. new.fell = gallery[n].of.fell
    BY <1>3, <1>5, Zenon
  <2>2. gallery'[new.row] = gallery[n] /\ Len(gallery') = n
    BY <1>2, <1>4
  <2>3. new.row \in Int /\ new.row <= Len(gallery') /\ new.share \in 0..100
    BY <1>2, <1>5, <2>2
  <2>4. new.pass = gallery'[new.row].of.rate /\ new.regions = gallery'[new.row].of.regions
    BY <1>2, <1>5, <2>2
  <2>5. new.fell = gallery'[new.row].of.fell
    BY <2>1, <2>2, Zenon
  <2> QED BY <1>7, <2>3, <2>4, <2>5 DEF RecordTrue
<1>9. ASSUME NEW r, Noted(r), r # new PROVE RecordTrue(r)'
  BY <1>4, <1>7, <1>9 DEF NotesInv, RecordTrue
<1>10. ASSUME NEW r, Noted(r)' PROVE RecordTrue(r)'
  <2>1. r = new \/ Noted(r)
    BY <1>4, <1>10 DEF Noted
  <2>2. CASE r = new
    BY <1>8, <2>2
  <2>3. CASE r # new
    BY <1>9, <2>1, <2>3
  <2> QED BY <2>2, <2>3
<1> QED BY <1>6, <1>10 DEF NotesInv
\* A video that is deleted takes no record with it that is of the row being written.
LEMMA RowsDelete ==
    ASSUME RowsInv, NotesInv, F!DeleteVideo
    PROVE  RowsInv' /\ NotesInv'
<1>1. PICK record \in history :
          /\ record.row > 0
          /\ gallery' = [gallery EXCEPT ![record.row] = F!NoRow]
          /\ forgetting' = {r \in history : r.row # record.row}
  BY DEF F!DeleteVideo
<1>2. UNCHANGED <<order, stage, work, temp, history, reading>>
  BY DEF F!DeleteVideo
<1> DEFINE n == record.row
<1>3. IsList(gallery) /\ Len(gallery) \in Nat
  BY GalleryLength DEF RowsInv
<1>4. n \in 1..Len(gallery) /\ (stage \in Writing => n < Len(gallery))
  <2>1. RecordTrue(record)
    BY DEF NotesInv, Noted
  <2> QED BY <1>1, <1>3, <2>1 DEF RecordTrue
<1> HIDE DEF n
<1>5. PICK row : row = F!NoRow
  OBVIOUS
<1>6. RowGood(row) /\ ~row.visible
  BY <1>5 DEF F!NoRow, RowGood
<1>7. gallery' = [gallery EXCEPT ![n] = row]
  BY <1>1, <1>5 DEF n
<1>8. \A r : Noted(r)' => Noted(r)
  BY <1>1, <1>2 DEF Noted
<1>9. NotesInv'
  BY <1>2, <1>4, <1>6, <1>7, <1>8, RecordsEdited
<1>10. /\ IsList(gallery') /\ Len(gallery') = Len(gallery)
       /\ \A j \in 1..Len(gallery') : RowGood(gallery'[j])
       /\ \A j \in 1..Len(gallery) : j # n => gallery'[j] = gallery[j]
  BY <1>4, <1>6, <1>7, RowsEdited
<1>11. stage \in Writing => gallery'[Len(gallery')] = gallery[Len(gallery)]
  <2>1. stage \in Writing => Len(gallery) \in 1..Len(gallery) /\ Len(gallery) # n
    BY <1>3, <1>4
  <2> QED BY <1>10, <2>1
<1>12. RowsInv'
  BY <1>2, <1>10, <1>11 DEF RowsInv, Writing
<1> QED BY <1>9, <1>12

LEMMA RowsForget ==
    ASSUME RowsInv, NotesInv, F!DeleteRecord \/ UNCHANGED phoneVars
    PROVE  RowsInv' /\ NotesInv'
<1>1. UNCHANGED <<order, stage, work, temp, gallery>>
  BY DEF F!DeleteRecord, phoneVars
<1>2. RowsInv'
  BY <1>1 DEF RowsInv, Writing
<1>3. ASSUME NEW r, Noted(r)' PROVE RecordTrue(r)'
  <2>1. Noted(r)
    BY <1>1, <1>3 DEF Noted, F!DeleteRecord, phoneVars
  <2> QED BY <1>1, <2>1 DEF NotesInv, RecordTrue, Writing
<1> QED BY <1>2, <1>3 DEF NotesInv

LEMMA RowsSteps ==
    ASSUME WorkInv, RowsInv, NotesInv, F!Next \/ UNCHANGED phoneVars
    PROVE  RowsInv' /\ NotesInv'
BY RowsWait, RowsBreak, RowsInsert, RowsCopy, RowsRead, RowsRecorded, RowsDelete, RowsForget DEF F!Next

LEMMA PhoneStarts ==
    ASSUME PhoneConstants, F!Init
    PROVE  WorkInv /\ RowsInv /\ NotesInv
<1>1. stage = "idle" /\ gallery = <<>> /\ history \in Pasts /\ forgetting = F!NoRead
  BY DEF F!Init
<1>2. WorkInv
  BY <1>1 DEF WorkInv, Resting
<1>3. IsList(gallery) /\ Len(gallery) = 0
  <2>1. gallery \in Seq({})
    BY <1>1
  <2> QED BY <1>1, <2>1 DEF IsList
<1>4. RowsInv
  BY <1>1, <1>3 DEF RowsInv, Writing
<1>5. ASSUME NEW r, Noted(r) PROVE RecordTrue(r)
  <2>1. r \in history
    BY <1>1, <1>5 DEF Noted
  <2>2. r.row \in Int /\ r.row <= 0 /\ r.share \in 0..100
    BY <1>1, <2>1 DEF PhoneConstants
  <2> QED BY <1>1, <1>3, <2>2 DEF RecordTrue, Writing
<1> QED BY <1>2, <1>4, <1>5 DEF NotesInv

LEMMA PhoneTells ==
    ASSUME RowsInv, NotesInv
    PROVE  F!LimitKept /\ F!ShownWhole /\ F!RecordsTruthful
<1>1. DOMAIN gallery = 1..Len(gallery) /\ Len(gallery) \in Nat
  BY GalleryLength DEF RowsInv
<1>2. \A row \in F!Shown : RowGood(row) /\ row.visible
  BY <1>1 DEF F!Shown, RowsInv
<1>3. F!ShownWhole
  BY <1>2 DEF F!ShownWhole, RowGood
<1>4. F!LimitKept
  <2> SUFFICES ASSUME NEW row \in F!Shown, row.order.limit > 0, row.order.known,
                      (row.order.limit \div row.order.clip.seconds) - row.of.sound >= FloorRate
               PROVE  F!Kbit(row.of, row.order.clip.seconds) <= row.order.limit
    BY DEF F!LimitKept
  <2>1. Within(row.order, row.of)
    BY <1>2 DEF RowGood
  <2> QED BY <2>1 DEF Within
<1>5. F!RecordsTruthful
  <2>1. \A r \in history : RecordTrue(r)
    BY DEF NotesInv, Noted
  <2> QED BY <2>1 DEF RecordTrue, F!RecordsTruthful
<1> QED BY <1>3, <1>4, <1>5

\* What the phone shows is whole and keeps its limit, and its history says how it was made.
THEOREM PhoneKeepsItsWordHolds ==
    ASSUME PhoneConstants
    PROVE  ClipsSpec => []PhoneKeepsItsWord
<1> DEFINE Inv == making = "phone" => WorkInv /\ RowsInv /\ NotesInv
<1>1. ClipsInit => Inv
  BY PhoneStarts DEF ClipsInit
<1>2. ASSUME Inv, [ClipsNext]_clipVars PROVE Inv'
  <2>1. SUFFICES ASSUME making' = "phone" PROVE WorkInv' /\ RowsInv' /\ NotesInv'
    OBVIOUS
  <2>2. making = "phone" /\ WorkInv /\ RowsInv /\ NotesInv
    BY <1>2, <2>1 DEF ClipsNext, clipVars
  <2>3. F!Next \/ UNCHANGED phoneVars
    BY <1>2, <2>2 DEF ClipsNext, clipVars, MakeFilter, MakeSearch, MakeSegment, MakeLayers, MakeListing, MakeVideo
  <2> QED BY <2>2, <2>3, WorkSteps, RowsSteps
<1>3. Inv => PhoneKeepsItsWord
  BY PhoneTells DEF PhoneKeepsItsWord
<1> QED BY <1>1, <1>2, <1>3, PTL DEF ClipsSpec
=============================================================================
