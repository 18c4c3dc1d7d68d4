---------------------------- MODULE FramesProofs ----------------------------
(***************************************************************************)
(* Proofs about Frames, for a video of any length and any number of frames *)
(* in a segment, a gap, a queue or a quarantine.  What a segment holds is  *)
(* found by following a frame: the decoder and its queue hand the frames   *)
(* over in order, the loop decides about each once, and of those it has    *)
(* decided about the wanted ones are in the segments.  The background is   *)
(* clear because the buffer is the end of a streak of empty frames.        *)
(***************************************************************************)
EXTENDS Frames, SequenceTheorems, TLAPS

\* There is a frame to probe, a segment has a frame and so has a gap (max(1, ...)).
FrameConstants ==
    /\ Video \in Nat \ {0} /\ SegmentFrames \in Nat \ {0} /\ CleanFrames \in Nat \ {0}
    /\ Warmup \in Nat /\ Lag \in Nat /\ Guard \in Nat
    /\ EveryN \in Nat /\ QueueMax \in Nat /\ MaxStalls \in Nat

\* The frames that the loop has taken its decision about.
Decided == IF pc = "frame" THEN Len(seen) - 1 ELSE Len(seen)
\* Those it has written or passed over.
Offered == IF pc \in {"frame", "open", "write"} THEN Len(seen) - 1 ELSE Len(seen)

\* The decoder's frames reach the loop in order, each once, through the queue too.
SourceInv ==
    /\ \A f \in 1..Len(seen) : seen[f].frame = f
    /\ decoder = "opencv" =>
          /\ queue = <<>> /\ reader = "done"
          /\ made = IF pending THEN Len(seen) + 1 ELSE Len(seen)
    /\ \A i \in 1..Len(queue) : queue[i] = 0 \/ queue[i] = Len(seen) + i
    /\ reader \in {"read", "stuck"} => made = Len(seen) + Len(queue)
    /\ reader = "put" => item = 0 \/ (item = made /\ made = Len(seen) + Len(queue) + 1)

\* The streak is the frames up to the last one decided about, all empty and past the
\* quarantine, and the buffer holds the last of them.
GapInv ==
    /\ mode # "mode2" => streak = 0
    /\ streak <= Lag + 1 => Len(buffer) = streak
    /\ streak > Lag + 1 => Len(buffer) = Lag + 1
    /\ \A i \in 1..Len(buffer) : buffer[i] = Decided - Len(buffer) + i
    /\ streak > 0 => Warmup + Guard <= Decided - streak
    /\ \A g \in 1..Decided : g > Decided - streak => seen[g].kept = {}

\* Whatever serves as a background, now or in a segment, is clear.
ClearInv ==
    /\ clean = 0 \/ Clear(clean)
    /\ bg \in {0, Video + 1} \/ Clear(bg)
    /\ BackgroundClear

\* The loop still runs.
Looping == pc \notin {"release", "close", "done"}
\* While the loop runs, only the last segment may be open, and it is not full.
CutInv ==
    /\ \A i \in 1..Len(segs) : i < Len(segs) => segs[i].state = "saved" /\ Len(segs[i].frames) = SegmentFrames
    /\ Looping /\ segs # <<>> =>
          \/ segs[Len(segs)].state = "saved" /\ Len(segs[Len(segs)].frames) = SegmentFrames
          \/ segs[Len(segs)].state = "open" /\ Len(segs[Len(segs)].frames) < SegmentFrames
    /\ pc \in {"release", "close", "done"} => ~Open
    /\ pc = "write" => Open

\* What is written was offered and is wanted.
WrittenRight ==
    \A i \in 1..Len(segs) : \A n \in 1..Len(segs[i].frames) :
        Written(i, n) \in 1..Offered /\ Wanted(Written(i, n))
\* The frames written are in order.
WrittenInOrder ==
    \A i, j \in 1..Len(segs) : \A m \in 1..Len(segs[i].frames), n \in 1..Len(segs[j].frames) :
        (i < j \/ (i = j /\ m < n)) => Written(i, m) < Written(j, n)
\* The frame is in a segment.
IsWritten(f) == \E i \in 1..Len(segs) : \E n \in 1..Len(segs[i].frames) : Written(i, n) = f
\* All of the frames offered and wanted are written.
WrittenInv ==
    /\ WrittenRight /\ WrittenInOrder
    /\ pc \in {"top", "reading", "frame", "open", "write"} => \A f \in 1..Offered : Wanted(f) => IsWritten(f)
    /\ pc \in {"frame", "open", "write"} => Len(seen) >= 1
    /\ pc \in {"open", "write"} => Wanted(Len(seen))

\* The inductive invariant.
FrameInv == TypeOK /\ SourceInv /\ GapInv /\ ClearInv /\ CutInv /\ WrittenInv

-----------------------------------------------------------------------------
\* The sequences of the model are sequences.
LEMMA Lengths ==
    ASSUME TypeOK
    PROVE  Len(seen) \in Nat /\ Len(segs) \in Nat /\ Len(queue) \in Nat /\ Len(buffer) \in Nat
<1>1. seen \in Seq(Shown) /\ segs \in Seq(Segment) /\ queue \in Seq(0..Video) /\ buffer \in Seq(Pictures)
  BY DEF TypeOK
<1> QED BY <1>1

\* So they are after a step.
LEMMA LengthsThen ==
    ASSUME TypeOK'
    PROVE  Len(seen') \in Nat /\ Len(segs') \in Nat /\ DOMAIN segs' = 1..Len(segs') /\ Len(queue') \in Nat /\ Len(buffer') \in Nat
<1>1. seen' \in Seq(Shown) /\ segs' \in Seq(Segment) /\ queue' \in Seq(0..Video) /\ buffer' \in Seq(Pictures)
  BY DEF TypeOK
<1> QED BY <1>1

\* A frame that was seen.
LEMMA SeenType ==
    ASSUME TypeOK, NEW f \in 1..Len(seen)
    PROVE  seen[f] \in Shown /\ seen[f].frame \in 1..Video
<1>1. seen \in Seq(Shown)
  BY DEF TypeOK
<1>2. seen[f] \in Shown
  BY <1>1
<1> QED BY <1>2 DEF Shown

\* A segment and the frames in it.
LEMMA SegmentType ==
    ASSUME TypeOK, NEW i \in 1..Len(segs)
    PROVE  /\ segs[i] \in Segment
           /\ segs[i].frames \in Seq(Piece)
           /\ Len(segs[i].frames) \in Nat
           /\ DOMAIN segs[i].frames = 1..Len(segs[i].frames)
           /\ \A n \in 1..Len(segs[i].frames) :
                segs[i].frames[n] \in Piece /\ Written(i, n) \in 1..Video
                /\ segs[i].frames[n].back \in Pictures
<1>1. segs[i] \in Segment
  BY DEF TypeOK
<1>2. segs[i].frames \in Seq(Piece)
  BY <1>1 DEF Segment
<1>3. \A n \in 1..Len(segs[i].frames) : segs[i].frames[n] \in Piece
  BY <1>2
<1>4. \A n \in 1..Len(segs[i].frames) : Written(i, n) \in 1..Video /\ segs[i].frames[n].back \in Pictures
  BY <1>3 DEF Piece, Written
<1> QED BY <1>1, <1>2, <1>3, <1>4

\* BackgroundClear, over the places of a frame.
LEMMA BackgroundsClear ==
    ASSUME TypeOK
    PROVE  BackgroundClear <=>
             \A i \in 1..Len(segs) : \A n \in 1..Len(segs[i].frames) :
                segs[i].frames[n].back \notin {0, Video + 1} => Clear(segs[i].frames[n].back)
<1>1. DOMAIN segs = 1..Len(segs)
  BY DEF TypeOK
<1>2. \A i \in 1..Len(segs) : DOMAIN segs[i].frames = 1..Len(segs[i].frames)
  BY SegmentType
<1> QED BY <1>1, <1>2 DEF BackgroundClear, Black, NoBack

\* A step may see more frames.
SeenGrows == Len(seen') >= Len(seen) /\ \A f \in 1..Len(seen) : seen'[f] = seen[f]
\* It leaves what is in them, and new ones are empty.
SameFrames ==
    /\ Len(segs') >= Len(segs)
    /\ \A i \in 1..Len(segs) : segs'[i].frames = segs[i].frames
    /\ \A i \in 1..Len(segs') : i > Len(segs) => segs'[i].frames = <<>>

\* A frame that was clear stays so when more are seen.
LEMMA ClearLasts ==
    ASSUME FrameConstants, TypeOK, TypeOK', SeenGrows, NEW CONSTANT f \in Pictures, Clear(f)
    PROVE  Clear(f)'
<1>1. Len(seen) \in Nat /\ Len(seen') \in Nat
  BY Lengths, LengthsThen
<1> DEFINE gap == IF Lag < CleanFrames THEN Lag ELSE CleanFrames - 1
<1>2. gap \in Nat /\ f \in Nat
  BY DEF FrameConstants, Pictures, NoBack
<1>3. f > Warmup + Guard /\ \A g \in f..(f + gap) : g <= Len(seen) /\ seen[g].kept = {}
  BY DEF Clear
<1> HIDE DEF gap
<1>4. \A g \in f..(f + gap) : g <= Len(seen') /\ seen'[g].kept = {}
  <2> TAKE g \in f..(f + gap)
  <2>1. g \in 1..Len(seen)
    BY <1>1, <1>2, <1>3 DEF FrameConstants
  <2> QED BY <1>1, <1>3, <2>1 DEF SeenGrows
<1> QED BY <1>3, <1>4 DEF Clear, gap

\* Then the backgrounds in the segments are still clear.
LEMMA BackgroundsLast ==
    ASSUME FrameConstants, TypeOK, TypeOK', SeenGrows, SameFrames, BackgroundClear
    PROVE  BackgroundClear'
<1>1. SUFFICES ASSUME NEW i \in 1..Len(segs'), NEW n \in 1..Len(segs'[i].frames),
                      segs'[i].frames[n].back \notin {0, Video + 1}
              PROVE  Clear(segs[i].frames[n].back)'
  <2>1. DOMAIN segs' = 1..Len(segs')
    BY LengthsThen
  <2>2. \A i \in 1..Len(segs') : segs'[i].frames \in Seq(Piece)
    <3> TAKE i \in 1..Len(segs')
    <3>0. segs' \in Seq(Segment)
      BY DEF TypeOK
    <3>1. segs'[i] \in Segment
      BY <3>0
    <3> QED BY <3>1 DEF Segment
  <2>3. \A i \in 1..Len(segs') : DOMAIN segs'[i].frames = 1..Len(segs'[i].frames)
    BY <2>2
  <2> QED BY <2>1, <2>3 DEF BackgroundClear, Black, NoBack
<1>2. Len(segs) \in Nat /\ Len(segs') \in Nat
  BY Lengths, LengthsThen
<1>3. i \in 1..Len(segs)
  BY <1>2 DEF SameFrames
<1>4. segs'[i].frames[n] = segs[i].frames[n] /\ n \in 1..Len(segs[i].frames)
  BY <1>3 DEF SameFrames
<1>5. Clear(segs[i].frames[n].back) /\ segs[i].frames[n].back \in Pictures
  BY <1>1, <1>3, <1>4, BackgroundsClear, SegmentType
<1> QED
  <2>1. PICK f \in Pictures : f = segs[i].frames[n].back /\ f = segs'[i].frames[n].back
    BY <1>4, <1>5
  <2>2. Clear(f)
    BY <1>5, <2>1
  <2>3. Clear(f)'
    BY <2>2, ClearLasts
  <2> QED BY <2>1, <2>3 DEF Clear

\* What was written stays, and so does what it says of the frames offered before.
LEMMA WritingLasts ==
    ASSUME TypeOK, TypeOK', SeenGrows, SameFrames, mode' = mode, WrittenInv, Offered' \in Nat, Offered' >= Offered
    PROVE  /\ WrittenRight' /\ WrittenInOrder'
           /\ \A f \in 1..Len(seen) : (Wanted(f)' <=> Wanted(f))
           /\ \A f \in 1..Offered : IsWritten(f) => IsWritten(f)'
<1>1. Len(segs) \in Nat /\ Len(segs') \in Nat /\ Len(seen) \in Nat /\ Len(seen') \in Nat
  BY Lengths, LengthsThen
<1>2. Offered \in Nat /\ Offered <= Len(seen)
  BY <1>1 DEF WrittenInv, Offered
<1>3. \A i \in 1..Len(segs) : \A n : Written(i, n)' = Written(i, n)
  BY DEF SameFrames, Written
<1>4. \A i \in 1..Len(segs') : \A n \in 1..Len(segs'[i].frames) :
         i \in 1..Len(segs) /\ n \in 1..Len(segs[i].frames)
  <2> TAKE i \in 1..Len(segs')
  <2> TAKE n \in 1..Len(segs'[i].frames)
  <2>1. i \in 1..Len(segs)
    BY <1>1 DEF SameFrames
  <2> QED BY <2>1 DEF SameFrames
<1>5. \A f \in 1..Len(seen) : (Wanted(f)' <=> Wanted(f))
  BY DEF SeenGrows, Wanted
<1>6. WrittenRight'
  <2> SUFFICES ASSUME NEW i \in 1..Len(segs'), NEW n \in 1..Len(segs'[i].frames)
              PROVE  Written(i, n)' \in 1..Offered' /\ Wanted(Written(i, n))'
    BY DEF WrittenRight
  <2>1. i \in 1..Len(segs) /\ n \in 1..Len(segs[i].frames)
    BY <1>4
  <2>2. Written(i, n)' = Written(i, n)
    BY <1>3, <2>1
  <2>3. Written(i, n) \in 1..Offered /\ Wanted(Written(i, n))
    BY <2>1 DEF WrittenInv, WrittenRight
  <2>4. PICK f \in 1..Offered : f = Written(i, n)
    BY <2>3
  <2>5. Wanted(f)'
    BY <1>1, <1>2, <1>5, <2>3, <2>4
  <2>6. Wanted(Written(i, n))'
    BY <2>2, <2>4, <2>5 DEF Wanted
  <2> QED BY <1>2, <2>2, <2>3, <2>6
<1>7. WrittenInOrder'
  <2> SUFFICES ASSUME NEW i \in 1..Len(segs'), NEW j \in 1..Len(segs'),
                      NEW m \in 1..Len(segs'[i].frames), NEW n \in 1..Len(segs'[j].frames),
                      i < j \/ (i = j /\ m < n)
              PROVE  Written(i, m)' < Written(j, n)'
    BY DEF WrittenInOrder
  <2>1. i \in 1..Len(segs) /\ m \in 1..Len(segs[i].frames) /\ j \in 1..Len(segs) /\ n \in 1..Len(segs[j].frames)
    BY <1>4
  <2> QED BY <1>3, <2>1 DEF WrittenInv, WrittenInOrder
<1>8. \A f \in 1..Offered : IsWritten(f) => IsWritten(f)'
  <2> SUFFICES ASSUME NEW f \in 1..Offered, IsWritten(f) PROVE IsWritten(f)'
    OBVIOUS
  <2>0. PICK i \in 1..Len(segs) : \E n \in 1..Len(segs[i].frames) : Written(i, n) = f
    BY DEF IsWritten
  <2>1. PICK n \in 1..Len(segs[i].frames) : Written(i, n) = f
    BY <2>0
  <2>2. i \in 1..Len(segs') /\ n \in 1..Len(segs'[i].frames)
    BY <1>1, <2>1 DEF SameFrames
  <2>3. Written(i, n)' = f
    BY <1>3, <2>1
  <2> QED BY <2>2, <2>3 DEF IsWritten
<1> QED BY <1>5, <1>6, <1>7, <1>8

\* It holds before the first frame.
LEMMA FramesStart == FrameConstants /\ Init => FrameInv
<1> SUFFICES ASSUME FrameConstants, Init PROVE FrameInv
  OBVIOUS
<1> USE DEF Init
<1>1. TypeOK
  <2>1. 0 \in Pictures /\ Video + 1 \in Pictures
    BY DEF FrameConstants, Pictures, NoBack
  <2>2. enh \in [count : Nat, job : Pictures, done : BOOLEAN, last : Pictures]
    BY <2>1 DEF Black
  <2>3. queue \in Seq(0..Video) /\ seen \in Seq(Shown) /\ buffer \in Seq(Pictures) /\ segs \in Seq(Segment)
    OBVIOUS
  <2>4. Len(queue) = 0 /\ Len(buffer) = 0
    OBVIOUS
  <2>5. made \in 0..Video /\ item \in 0..Video /\ stalls \in 0..MaxStalls
    BY DEF FrameConstants, EOF
  <2>6. mode \in Modes /\ decoder \in Decoders /\ pending \in BOOLEAN /\ ffStop \in BOOLEAN
        /\ reader \in {"read", "done"} /\ pc = "top" /\ streak = 0 /\ clean = 0 /\ bg = Video + 1 /\ stop \in BOOLEAN
    BY DEF Black, NoBack
  <2> HIDE DEF Init
  <2> QED BY <2>1, <2>2, <2>3, <2>4, <2>5, <2>6 DEF TypeOK, FrameConstants
<1>2. SourceInv
  <2>1. decoder = "opencv" => pending /\ made = 1 /\ reader = "done"
    OBVIOUS
  <2>2. decoder # "opencv" => made = 0 /\ reader \notin {"put", "stuck"}
    OBVIOUS
  <2>3. queue = <<>> /\ Len(queue) = 0 /\ Len(seen) = 0
    OBVIOUS
  <2> HIDE DEF Init
  <2>4. reader \in {"read", "stuck"} => made = 0
    BY <2>1, <2>2
  <2>5. reader # "put"
    BY <2>1, <2>2
  <2> QED BY <2>1, <2>3, <2>4, <2>5 DEF SourceInv
<1>3. GapInv
  BY DEF GapInv, Decided, FrameConstants
<1>4. ClearInv
  BY DEF ClearInv, BackgroundClear, NoBack, Black
<1>5. CutInv
  BY DEF CutInv, Open, Looping
<1>6. WrittenInv
  BY DEF WrittenInv, WrittenRight, WrittenInOrder, Offered
<1> QED BY <1>1, <1>2, <1>3, <1>4, <1>5, <1>6 DEF FrameInv
-----------------------------------------------------------------------------
\* A step that leaves the decoder and the frames seen alone.
LEMMA SourceStays ==
    ASSUME SourceInv, UNCHANGED <<decoder, made, pending, queue, reader, item, seen>>
    PROVE  SourceInv'
  BY DEF SourceInv

\* A step of another thread, or of the loop without a frame.
LEMMA LoopStays ==
    ASSUME FrameConstants, FrameInv, TypeOK', UNCHANGED <<mode, seen, streak, buffer, clean, segs, bg>>,
           \/ pc' = pc
           \/ pc = "top" /\ pc' \in {"reading", "final"}
           \/ pc \in {"reading", "write"} /\ pc' = "final"
           \/ pc = "release" /\ pc' = "close"
           \/ pc = "close" /\ pc' = "done"
    PROVE  GapInv' /\ ClearInv' /\ CutInv' /\ WrittenInv'
<1>1. TypeOK /\ GapInv /\ ClearInv /\ CutInv /\ WrittenInv
  BY DEF FrameInv
<1>2. Len(seen) \in Nat /\ Len(segs) \in Nat /\ seen' = seen /\ segs' = segs
  BY <1>1, Lengths
<1>3. SeenGrows /\ SameFrames
  BY <1>2 DEF SeenGrows, SameFrames
<1>4. GapInv'
  <2>1. Decided' = Decided
    BY DEF Decided
  <2> QED BY <1>1, <1>2, <2>1 DEF GapInv
<1>5. ClearInv'
  BY <1>1, <1>2, <1>3, BackgroundsLast DEF ClearInv, Clear
<1>6. CutInv'
  BY <1>1, <1>2 DEF CutInv, Looping, Open, Last
<1>7. WrittenInv'
  <2>1. Offered \in Nat /\ Offered' \in Nat /\ Offered' >= Offered
    BY <1>1, <1>2 DEF WrittenInv, Offered
  <2>2. /\ WrittenRight' /\ WrittenInOrder'
        /\ \A f \in 1..Len(seen) : (Wanted(f)' <=> Wanted(f))
        /\ \A f \in 1..Offered : IsWritten(f) => IsWritten(f)'
    BY <1>1, <1>3, <2>1, WritingLasts
  <2>3. pc' \in {"top", "reading", "frame", "open", "write"} =>
          \A f \in 1..Offered' : Wanted(f)' => IsWritten(f)'
    <3> SUFFICES ASSUME pc' \in {"top", "reading", "frame", "open", "write"}, NEW f \in 1..Offered', Wanted(f)'
                 PROVE  IsWritten(f)'
      OBVIOUS
    <3>1. pc \in {"top", "reading", "frame", "open", "write"} /\ Offered' = Offered
      BY <1>2 DEF Offered
    <3>2. f \in 1..Offered /\ f \in 1..Len(seen)
      BY <1>1, <1>2, <3>1 DEF WrittenInv, Offered
    <3> QED BY <1>1, <2>2, <3>1, <3>2 DEF WrittenInv
  <2>4. pc' \in {"frame", "open", "write"} => Len(seen') >= 1
    BY <1>1, <1>2 DEF WrittenInv
  <2>5. pc' \in {"open", "write"} => Wanted(Len(seen))'
    BY <1>1, <1>2 DEF WrittenInv, Wanted
  <2> QED BY <2>2, <2>3, <2>4, <2>5 DEF WrittenInv
<1> QED BY <1>4, <1>5, <1>6, <1>7

\* A frame is read.
LEMMA ReadKeeps ==
    ASSUME FrameConstants, FrameInv, TypeOK', pc = "reading", pc' = "frame",
           NEW s, seen' = Append(seen, s), UNCHANGED <<mode, streak, buffer, clean, segs, bg>>
    PROVE  GapInv' /\ ClearInv' /\ CutInv' /\ WrittenInv'
<1>1. TypeOK /\ GapInv /\ ClearInv /\ CutInv /\ WrittenInv
  BY DEF FrameInv
<1>2. /\ Len(seen) \in Nat /\ Len(segs) \in Nat /\ segs' = segs /\ seen \in Seq(Shown)
  BY <1>1, Lengths DEF TypeOK
<1>3. Len(seen') = Len(seen) + 1 /\ \A f \in 1..Len(seen) : seen'[f] = seen[f]
  BY <1>2
<1>4. SeenGrows /\ SameFrames
  BY <1>2, <1>3 DEF SeenGrows, SameFrames
<1>5. Decided' = Decided /\ Offered' = Offered /\ Decided = Len(seen) /\ Offered = Len(seen)
  BY <1>2, <1>3 DEF Decided, Offered
<1>6. GapInv'
  BY <1>1, <1>2, <1>3, <1>5 DEF GapInv
<1>7. ClearInv'
  <2>1. clean \in Pictures /\ bg \in Pictures
    BY <1>1 DEF TypeOK
  <2>2. \A f \in Pictures : Clear(f) => Clear(f)'
    BY <1>1, <1>4, ClearLasts
  <2>3. clean' = clean /\ bg' = bg
    OBVIOUS
  <2>4. PICK c \in Pictures, b \in Pictures : c = clean /\ b = bg
    BY <2>1
  <2>5. (c = 0 \/ Clear(c)) /\ (b \in {0, Video + 1} \/ Clear(b))
    BY <1>1, <2>4 DEF ClearInv
  <2>6. (c = 0 \/ Clear(c)') /\ (b \in {0, Video + 1} \/ Clear(b)')
    BY <2>2, <2>5
  <2>7. (clean = 0 \/ Clear(clean))' /\ (bg \in {0, Video + 1} \/ Clear(bg))'
    BY <2>3, <2>4, <2>6 DEF Clear
  <2>8. BackgroundClear'
    BY <1>1, <1>4, BackgroundsLast DEF ClearInv
  <2> QED BY <2>7, <2>8 DEF ClearInv
<1>8. CutInv'
  BY <1>1, <1>2 DEF CutInv, Looping, Open, Last
<1>9. WrittenInv'
  <2>2. /\ WrittenRight' /\ WrittenInOrder'
        /\ \A f \in 1..Len(seen) : (Wanted(f)' <=> Wanted(f))
        /\ \A f \in 1..Offered : IsWritten(f) => IsWritten(f)'
    BY <1>1, <1>2, <1>4, <1>5, WritingLasts
  <2>3. \A f \in 1..Offered' : Wanted(f)' => IsWritten(f)'
    <3> SUFFICES ASSUME NEW f \in 1..Offered', Wanted(f)'
                 PROVE  IsWritten(f)'
      OBVIOUS
    <3>2. f \in 1..Offered /\ f \in 1..Len(seen)
      BY <1>5
    <3> QED BY <1>1, <2>2, <3>2 DEF WrittenInv
  <2> QED BY <1>2, <1>3, <2>2, <2>3 DEF WrittenInv
<1> QED BY <1>6, <1>7, <1>8, <1>9

\* The frame just read is passed over, or goes on to be written.
LEMMA DecisionKeeps ==
    ASSUME FrameConstants, FrameInv, TypeOK', pc = "frame", UNCHANGED <<mode, seen, segs>>,
           pc' = IF Wanted(Len(seen)) THEN "open" ELSE "top"
    PROVE  CutInv' /\ WrittenInv'
<1>1. TypeOK /\ CutInv /\ WrittenInv
  BY DEF FrameInv
<1>2. Len(seen) \in Nat /\ Len(segs) \in Nat /\ seen' = seen /\ segs' = segs /\ Len(seen) >= 1
  BY <1>1, Lengths DEF WrittenInv
<1>3. SeenGrows /\ SameFrames
  BY <1>2 DEF SeenGrows, SameFrames
<1>4. CutInv'
  BY <1>1, <1>2 DEF CutInv, Looping, Open, Last
<1>5. Offered = Len(seen) - 1 /\ Offered' = IF Wanted(Len(seen)) THEN Len(seen) - 1 ELSE Len(seen)
  BY <1>2 DEF Offered
<1>6. /\ WrittenRight' /\ WrittenInOrder'
      /\ \A f \in 1..Len(seen) : (Wanted(f)' <=> Wanted(f))
      /\ \A f \in 1..Offered : IsWritten(f) => IsWritten(f)'
  BY <1>1, <1>2, <1>3, <1>5, WritingLasts
<1>7. \A f \in 1..Offered' : Wanted(f)' => IsWritten(f)'
  <2> SUFFICES ASSUME NEW f \in 1..Offered', Wanted(f)' PROVE IsWritten(f)'
    OBVIOUS
  <2>1. f \in 1..Len(seen) /\ Wanted(f)
    BY <1>2, <1>5, <1>6
  <2>2. f \in 1..Offered
    BY <1>2, <1>5, <2>1
  <2> QED BY <1>1, <1>6, <2>1, <2>2 DEF WrittenInv
<1>8. pc' = "open" => Wanted(Len(seen))'
  BY <1>2 DEF Wanted
<1> QED BY <1>2, <1>4, <1>6, <1>7, <1>8 DEF WrittenInv

\* A frame of the warm-up is passed over.
LEMMA WarmFrameKeeps ==
    ASSUME FrameConstants, FrameInv, TypeOK', WarmFrame
    PROVE  GapInv' /\ ClearInv' /\ CutInv' /\ WrittenInv'
<1>1. TypeOK /\ GapInv /\ ClearInv /\ CutInv /\ WrittenInv
  BY DEF FrameInv
<1>2. /\ pc = "frame" /\ pc' = "top" /\ Len(seen) <= Warmup
      /\ UNCHANGED <<mode, seen, streak, buffer, clean, segs, bg>>
  BY DEF WarmFrame, Warming, run, backdrop
<1>3. Len(seen) \in Nat /\ Len(segs) \in Nat /\ Len(buffer) \in Nat /\ Len(seen) >= 1 /\ streak \in Nat
  BY <1>1, <1>2, Lengths DEF WrittenInv, TypeOK
<1>4. ~Wanted(Len(seen))
  BY <1>2, <1>3 DEF Wanted, FrameConstants
<1>5. CutInv' /\ WrittenInv'
  BY <1>2, <1>4, DecisionKeeps
<1>6. SeenGrows /\ SameFrames
  BY <1>2, <1>3 DEF SeenGrows, SameFrames
<1>7. ClearInv'
  BY <1>1, <1>2, <1>6, BackgroundsLast DEF ClearInv, Clear
<1>8. GapInv'
  <2>1. Decided = Len(seen) - 1 /\ Decided' = Len(seen)
    BY <1>2 DEF Decided
  <2>2. streak = 0
    BY <1>1, <1>2, <1>3, <2>1 DEF GapInv, FrameConstants
  <2>3. Len(buffer) = 0
    BY <1>1, <2>2 DEF GapInv, FrameConstants
  <2> QED BY <1>2, <1>3, <2>1, <2>2, <2>3 DEF GapInv, FrameConstants
<1> QED BY <1>5, <1>7, <1>8

\* The oldest frame that a long enough gap has kept is clear.
LEMMA GapIsClear ==
    ASSUME FrameConstants, TypeOK, GapInv, pc = "frame", Len(seen) >= 1, streak >= CleanFrames
    PROVE  Len(buffer) >= 1 /\ Head(buffer) \in Pictures /\ Clear(Head(buffer))
<1>1. Len(seen) \in Nat /\ Len(buffer) \in Nat /\ streak \in Nat /\ buffer \in Seq(Pictures)
  BY Lengths DEF TypeOK
<1>2. Decided = Len(seen) - 1 /\ Decided \in Nat
  BY <1>1 DEF Decided
<1> DEFINE gap == IF Lag < CleanFrames THEN Lag ELSE CleanFrames - 1
<1>3. gap \in Nat /\ gap <= Lag /\ gap <= CleanFrames - 1
  BY DEF FrameConstants
<1> HIDE DEF gap
<1>4. Len(buffer) >= gap + 1 /\ Len(buffer) <= streak
  <2>1. CASE streak <= Lag + 1
    BY <1>1, <1>3, <2>1 DEF GapInv, FrameConstants
  <2>2. CASE streak > Lag + 1
    BY <1>1, <1>3, <2>2 DEF GapInv, FrameConstants
  <2> QED BY <1>1, <2>1, <2>2 DEF FrameConstants
<1>5. Len(buffer) >= 1
  BY <1>1, <1>3, <1>4
<1>6. Head(buffer) = buffer[1] /\ Head(buffer) \in Pictures
  BY <1>1, <1>5
<1>7. Head(buffer) = Decided - Len(buffer) + 1
  BY <1>1, <1>5, <1>6 DEF GapInv
<1>8. Warmup + Guard <= Decided - streak
  BY <1>1 DEF GapInv, FrameConstants
<1>9. Head(buffer) > Warmup + Guard
  BY <1>1, <1>2, <1>4, <1>7, <1>8 DEF FrameConstants
<1>10. \A g \in Head(buffer)..(Head(buffer) + gap) : g <= Len(seen) /\ seen[g].kept = {}
  <2> TAKE g \in Head(buffer)..(Head(buffer) + gap)
  <2>1. g \in Nat /\ g >= 1 /\ g <= Decided /\ g > Decided - streak
    BY <1>1, <1>2, <1>3, <1>4, <1>7, <1>9 DEF FrameConstants
  <2> QED BY <1>1, <1>2, <2>1 DEF GapInv
<1> QED BY <1>5, <1>6, <1>9, <1>10 DEF Clear, gap

\* A streak of empty frames ends, grows or is quarantined.
LEMMA BackdropKeeps ==
    ASSUME FrameConstants, FrameInv, TypeOK', pc = "frame", Len(seen) > Warmup, Backdrop, mode = "mode2",
           mode' = mode, seen' = seen, segs' = segs, pc' \in {"open", "top"}
    PROVE  GapInv' /\ ClearInv'
<1>1. TypeOK /\ SourceInv /\ GapInv /\ ClearInv /\ WrittenInv
  BY DEF FrameInv
<1>2. /\ Len(seen) \in Nat /\ Len(buffer) \in Nat /\ Len(seen) >= 1 /\ streak \in Nat
      /\ buffer \in Seq(Pictures) /\ Len(segs) \in Nat
  BY <1>1, Lengths DEF WrittenInv, TypeOK
<1>3. SeenGrows /\ SameFrames
  BY <1>2 DEF SeenGrows, SameFrames
<1>4. BackgroundClear'
  BY <1>1, <1>3, BackgroundsLast DEF ClearInv
<1>5. Decided = Len(seen) - 1 /\ Decided' = Len(seen)
  BY DEF Decided
<1>6. ASSUME UNCHANGED <<clean, bg>> PROVE ClearInv'
  BY <1>1, <1>4, <1>6 DEF ClearInv, Clear
<1>7. ASSUME streak' = 0, buffer' = <<>> PROVE GapInv'
  BY <1>2, <1>5, <1>7 DEF GapInv, FrameConstants
<1>8. CASE PostWarmup <= Guard
  BY <1>6, <1>7, <1>8 DEF Backdrop
<1>9. CASE PostWarmup > Guard /\ BufferFrame
  <2>1. streak' = 0 /\ buffer' = <<>>
    BY <1>2, <1>9 DEF Backdrop, PostWarmup, FrameConstants
  <2>2. CASE streak >= CleanFrames
    <3>1. clean' = Head(buffer) /\ bg' \in {clean', bg}
      BY <1>2, <1>9, <2>2 DEF Backdrop, PostWarmup, FrameConstants
    <3>2. Clear(Head(buffer))
      BY <1>1, <1>2, <2>2, GapIsClear
    <3>3. Clear(clean)'
      BY <3>1, <3>2 DEF Clear
    <3>4. bg' = bg \/ Clear(bg)'
      BY <3>1, <3>3 DEF Clear
    <3>5. (bg \in {0, Video + 1} \/ Clear(bg))'
      BY <1>1, <3>4 DEF ClearInv, Clear
    <3> QED BY <1>4, <1>7, <2>1, <3>3, <3>5 DEF ClearInv
  <2>3. CASE ~(streak >= CleanFrames)
    <3>1. UNCHANGED <<clean, bg>>
      BY <1>2, <1>9, <2>3 DEF Backdrop, PostWarmup, FrameConstants
    <3> QED BY <1>6, <1>7, <2>1, <3>1
  <2> QED BY <2>2, <2>3
<1>10. CASE PostWarmup > Guard /\ ~BufferFrame
  <2> DEFINE more == Append(buffer, Last(seen).frame)
  <2>1. /\ streak' = streak + 1 /\ UNCHANGED <<clean, bg>>
        /\ buffer' = IF Len(more) > Lag + 1 THEN Tail(more) ELSE more
    <3>1. ~(PostWarmup <= Guard)
      BY <1>2, <1>10 DEF PostWarmup, FrameConstants
    <3> QED BY <1>10, <3>1 DEF Backdrop
  <2>2. Last(seen) = seen[Len(seen)] /\ Last(seen).frame = Len(seen) /\ Last(seen).frame \in Pictures
    <3>1. seen[Len(seen)].frame = Len(seen) /\ seen[Len(seen)].frame \in 1..Video
      BY <1>1, <1>2, SeenType DEF SourceInv
    <3> QED BY <3>1 DEF Last, Pictures, NoBack, FrameConstants
  <2>3. seen[Len(seen)].kept = {}
    BY <1>10, <2>2 DEF BufferFrame, Kept
  <2>4. /\ more \in Seq(Pictures) /\ Len(more) = Len(buffer) + 1
        /\ more[Len(buffer) + 1] = Len(seen) /\ \A i \in 1..Len(buffer) : more[i] = buffer[i]
    BY <1>2, <2>2
  <2> HIDE DEF more
  <2>5. \A i \in 1..Len(more) : more[i] = Len(seen) - Len(more) + i
    <3> TAKE i \in 1..Len(more)
    <3>1. CASE i = Len(buffer) + 1
      BY <1>2, <2>4, <3>1
    <3>2. CASE i \in 1..Len(buffer)
      BY <1>1, <1>2, <1>5, <2>4, <3>2 DEF GapInv
    <3> QED BY <1>2, <2>4, <3>1, <3>2
  <2>6. Warmup + Guard <= Len(seen) - 1 /\ Warmup + Guard <= Decided - streak
    <3>1. Warmup + Guard <= Len(seen) - 1
      BY <1>2, <1>10 DEF PostWarmup, FrameConstants
    <3> QED BY <1>1, <1>2, <1>5, <3>1 DEF GapInv, FrameConstants
  <2>7. \A g \in 1..Len(seen) : g > Len(seen) - streak' => seen[g].kept = {}
    <3> TAKE g \in 1..Len(seen)
    <3>1. CASE g = Len(seen)
      BY <2>3, <3>1
    <3>2. CASE g \in 1..Decided
      BY <1>1, <1>2, <1>5, <2>1, <3>2 DEF GapInv
    <3> QED BY <1>2, <1>5, <3>1, <3>2
  <2>8. /\ streak' <= Lag + 1 => Len(buffer') = streak'
        /\ streak' > Lag + 1 => Len(buffer') = Lag + 1
        /\ \A i \in 1..Len(buffer') : buffer'[i] = Len(seen) - Len(buffer') + i
    <3>1. Len(buffer) <= Lag + 1 /\ (streak <= Lag + 1 => Len(buffer) = streak) /\ (streak > Lag + 1 => Len(buffer) = Lag + 1)
      BY <1>1 DEF GapInv, TypeOK
    <3>2. CASE Len(more) > Lag + 1
      <4>1. buffer' = Tail(more) /\ Len(buffer') = Len(more) - 1 /\ \A i \in 1..Len(buffer') : buffer'[i] = more[i + 1]
        BY <1>2, <2>1, <2>4, <3>2
      <4>2. Len(buffer') = Lag + 1 /\ Len(buffer) = Lag + 1
        BY <1>2, <2>4, <3>1, <3>2, <4>1 DEF FrameConstants
      <4>3. \A i \in 1..Len(buffer') : buffer'[i] = Len(seen) - Len(buffer') + i
        <5> TAKE i \in 1..Len(buffer')
        <5>1. i + 1 \in 1..Len(more) /\ buffer'[i] = more[i + 1]
          BY <1>2, <2>4, <4>1
        <5>2. more[i + 1] = Len(seen) - Len(more) + (i + 1)
          BY <2>5, <5>1
        <5>3. Len(more) \in Nat /\ i \in Nat /\ Len(buffer') = Len(more) - 1
          BY <1>2, <2>4, <4>1
        <5> QED BY <1>2, <5>1, <5>2, <5>3
      <4>4. streak >= Lag + 1
        BY <1>2, <3>1, <4>2 DEF FrameConstants
      <4>5. streak' = streak + 1
        BY <2>1
      <4>6. streak' > Lag + 1
        BY <1>2, <4>4, <4>5 DEF FrameConstants
      <4>7. ~(streak' <= Lag + 1)
        BY <1>2, <4>5, <4>6 DEF FrameConstants
      <4> QED BY <4>2, <4>3, <4>6, <4>7
    <3>3. CASE ~(Len(more) > Lag + 1)
      <4>1. buffer' = more
        BY <2>1, <3>3
      <4>2. Len(buffer) <= Lag /\ Len(more) = Len(buffer) + 1
        BY <1>2, <2>4, <3>3 DEF FrameConstants
      <4>3. streak <= Lag /\ Len(buffer) = streak
        BY <1>2, <3>1, <4>2 DEF FrameConstants
      <4>4. streak' = streak + 1 /\ Len(more) = streak + 1
        BY <2>1, <4>2, <4>3
      <4>5. streak' = Len(buffer') /\ ~(streak' > Lag + 1)
        BY <1>2, <4>1, <4>3, <4>4 DEF FrameConstants
      <4> QED BY <2>5, <4>1, <4>5
    <3> QED BY <3>2, <3>3
  <2>9. Warmup + Guard <= Len(seen) - streak'
    BY <1>2, <1>5, <2>1, <2>6 DEF FrameConstants
  <2>10. GapInv'
    BY <1>5, <2>1, <2>7, <2>8, <2>9 DEF GapInv
  <2> QED BY <1>6, <2>1, <2>10
<1> QED
  <2>1. PostWarmup \in Int
    BY <1>2 DEF PostWarmup, FrameConstants
  <2> QED BY <1>8, <1>9, <1>10, <2>1 DEF FrameConstants

\* The mode decides about the frame.
LEMMA DecideKeeps ==
    ASSUME FrameConstants, FrameInv, TypeOK', Decide
    PROVE  GapInv' /\ ClearInv' /\ CutInv' /\ WrittenInv'
<1>1. TypeOK /\ GapInv /\ ClearInv /\ CutInv /\ WrittenInv
  BY DEF FrameInv
<1>2. Len(seen) \in Nat /\ Len(segs) \in Nat /\ Len(buffer) \in Nat /\ Len(seen) >= 1 /\ streak \in Nat
  BY <1>1, Lengths DEF WrittenInv, TypeOK, Decide
<1>3. /\ pc = "frame" /\ Len(seen) > Warmup /\ UNCHANGED <<mode, seen, segs>>
      /\ pc' = IF BufferFrame THEN "open" ELSE "top"
      /\ mode = "mode2" => Backdrop
      /\ mode # "mode2" => UNCHANGED <<streak, buffer, clean, bg>>
  BY <1>2 DEF Decide, Warming, run, backdrop, FrameConstants
<1>4. BufferFrame <=> Wanted(Len(seen))
  BY <1>2, <1>3 DEF BufferFrame, Kept, Wanted, Last
<1>5. CutInv' /\ WrittenInv'
  BY <1>3, <1>4, DecisionKeeps
<1>6. CASE mode = "mode2"
  BY <1>3, <1>5, <1>6, BackdropKeeps
<1>7. CASE mode # "mode2"
  <2>1. SeenGrows /\ SameFrames
    BY <1>2, <1>3 DEF SeenGrows, SameFrames
  <2>2. ClearInv'
    BY <1>1, <1>3, <1>7, <2>1, BackgroundsLast DEF ClearInv, Clear
  <2>3. streak = 0 /\ Len(buffer) = 0
    BY <1>1, <1>7 DEF GapInv, FrameConstants
  <2>4. Decided' = Len(seen)
    BY <1>3 DEF Decided
  <2>5. streak' = 0 /\ Len(buffer') = 0 /\ mode' = mode /\ seen' = seen
    BY <1>3, <1>7, <2>3
  <2>6. GapInv'
    BY <1>2, <2>4, <2>5 DEF GapInv, FrameConstants
  <2> QED BY <1>5, <2>2, <2>6
<1> QED BY <1>6, <1>7

\* A segment is opened.
LEMMA OpenSegmentKeeps ==
    ASSUME FrameConstants, FrameInv, TypeOK', OpenSegment
    PROVE  GapInv' /\ ClearInv' /\ CutInv' /\ WrittenInv'
<1>1. TypeOK /\ GapInv /\ ClearInv /\ CutInv /\ WrittenInv
  BY DEF FrameInv
<1>2. /\ Len(seen) \in Nat /\ Len(segs) \in Nat /\ segs \in Seq(Segment) /\ Len(seen) >= 1
  BY <1>1, Lengths DEF WrittenInv, TypeOK, OpenSegment
<1>3. pc = "open" /\ pc' = "write" /\ UNCHANGED <<mode, seen, streak, buffer, clean>>
  BY DEF OpenSegment, run, backdrop
<1> DEFINE fresh == [state |-> "open", frames |-> <<>>]
<1>4. \/ Open /\ segs' = segs /\ bg' = bg
      \/ ~Open /\ segs' = Append(segs, fresh) /\ bg' \in {clean, Video + 1}
  BY DEF OpenSegment, NoBack
<1>5. ~Open /\ segs' = Append(segs, fresh) =>
        /\ Len(segs') = Len(segs) + 1 /\ segs'[Len(segs) + 1].state = "open" /\ segs'[Len(segs) + 1].frames = <<>>
        /\ \A i \in 1..Len(segs) : segs'[i] = segs[i]
  BY <1>2
<1> HIDE DEF fresh
<1>6. SeenGrows
  BY <1>2, <1>3 DEF SeenGrows
<1>7. SameFrames
  <2>1. CASE segs' = segs
    BY <1>2, <2>1 DEF SameFrames
  <2>2. CASE ~Open /\ segs' = Append(segs, fresh)
    BY <1>2, <1>5, <2>2 DEF SameFrames
  <2> QED BY <1>4, <2>1, <2>2
<1>8. GapInv'
  <2>1. Decided' = Decided
    BY <1>3 DEF Decided
  <2> QED BY <1>1, <1>3, <2>1 DEF GapInv
<1>9. ClearInv'
  <2>1. BackgroundClear'
    BY <1>1, <1>6, <1>7, BackgroundsLast DEF ClearInv
  <2>2. clean' = 0 \/ Clear(clean)'
    BY <1>1, <1>3 DEF ClearInv, Clear
  <2>3. CASE bg' = bg
    BY <1>1, <1>3, <2>1, <2>2, <2>3 DEF ClearInv, Clear
  <2>4. CASE bg' = clean
    BY <1>1, <1>3, <2>1, <2>2, <2>4 DEF ClearInv, Clear
  <2>5. CASE bg' = Video + 1
    BY <2>1, <2>2, <2>5 DEF ClearInv
  <2> QED BY <1>4, <2>3, <2>4, <2>5
<1>10. CutInv'
  <2>1. CASE Open /\ segs' = segs
    BY <1>1, <1>2, <1>3, <2>1 DEF CutInv, Looping, Open, Last
  <2>2. CASE ~Open /\ segs' = Append(segs, fresh)
    <3>1. \A i \in 1..Len(segs) : segs[i].state = "saved" /\ Len(segs[i].frames) = SegmentFrames
      <4> TAKE i \in 1..Len(segs)
      <4>1. segs # <<>>
        BY <1>2
      <4>2. CASE i < Len(segs)
        BY <1>1, <4>2 DEF CutInv
      <4>3. CASE i = Len(segs)
        BY <1>1, <1>3, <2>2, <4>1, <4>3 DEF CutInv, Looping, Open, Last
      <4> QED BY <1>2, <4>2, <4>3
    <3>2. Len(segs') = Len(segs) + 1 /\ \A i \in 1..Len(segs) : segs'[i] = segs[i]
      BY <1>5, <2>2
    <3>3. segs'[Len(segs')].state = "open" /\ Len(segs'[Len(segs')].frames) < SegmentFrames /\ segs' # <<>>
      BY <1>2, <1>5, <2>2, <3>2 DEF FrameConstants
    <3>4. Open'
      BY <3>3 DEF Open, Last
    <3>5. \A i \in 1..Len(segs') : i < Len(segs') => segs'[i].state = "saved" /\ Len(segs'[i].frames) = SegmentFrames
      BY <1>2, <3>1, <3>2
    <3> QED BY <1>3, <3>3, <3>4, <3>5 DEF CutInv
  <2> QED BY <1>4, <2>1, <2>2
<1>11. WrittenInv'
  <2>1. Offered = Len(seen) - 1 /\ Offered' = Len(seen) - 1
    BY <1>3 DEF Offered
  <2>2. /\ WrittenRight' /\ WrittenInOrder'
        /\ \A f \in 1..Len(seen) : (Wanted(f)' <=> Wanted(f))
        /\ \A f \in 1..Offered : IsWritten(f) => IsWritten(f)'
    BY <1>1, <1>2, <1>3, <1>6, <1>7, <2>1, WritingLasts
  <2>3. \A f \in 1..Offered' : Wanted(f)' => IsWritten(f)'
    <3> SUFFICES ASSUME NEW f \in 1..Offered', Wanted(f)' PROVE IsWritten(f)'
      OBVIOUS
    <3>1. f \in 1..Offered /\ f \in 1..Len(seen)
      BY <1>2, <2>1
    <3> QED BY <1>1, <1>3, <2>2, <3>1 DEF WrittenInv
  <2>4. Wanted(Len(seen))'
    BY <1>1, <1>2, <1>3 DEF WrittenInv, Wanted
  <2> QED BY <1>2, <1>3, <2>2, <2>3, <2>4 DEF WrittenInv
<1> QED BY <1>8, <1>9, <1>10, <1>11

\* What write_frame and the cut do to the last segment.
LEMMA WriteShape ==
    ASSUME FrameConstants, TypeOK, Open, Write, Len(seen) >= 1, SourceInv
    PROVE  \E k \in Nat \ {0} : \E more, p, st :
             /\ k = Len(segs) /\ k = Len(segs') /\ \A i \in 1..k : i # k => segs'[i] = segs[i]
             /\ segs'[k] = [state |-> st, frames |-> more]
             /\ more = Append(segs[k].frames, p)
             /\ p.frame = Len(seen) /\ p.back = bg /\ p \in Piece
             /\ \/ st = "saved" /\ Len(more) >= SegmentFrames /\ bg' = Video + 1
                \/ st = "open" /\ Len(more) < SegmentFrames /\ bg' = bg
<1> DEFINE k == Len(segs)
           p == [frame |-> Last(seen).frame, picture |-> Picture, back |-> bg]
           more == Append(Last(segs).frames, p)
           full == Len(more) >= SegmentFrames
           st == IF full THEN "saved" ELSE "open"
<1>1. segs' = [segs EXCEPT ![k] = [state |-> st, frames |-> more]] /\ bg' = IF full THEN Video + 1 ELSE bg
  BY DEF Write, NoBack
<1>2. segs \in Seq(Segment) /\ segs # <<>> /\ Len(seen) \in Nat /\ bg \in Pictures
  BY Lengths DEF TypeOK, Open
<1>3. k \in Nat \ {0}
  BY <1>2
<1>4. Last(segs) = segs[k]
  BY DEF Last
<1>5. Last(seen).frame = Len(seen) /\ Last(seen).frame \in 1..Video
  BY <1>2, SeenType DEF Last, SourceInv
<1>6. Picture \in Pictures
  <2>1. Last(seen).frame \in Pictures
    BY <1>5 DEF Pictures, NoBack, FrameConstants
  <2>2. enh.last \in Pictures
    BY DEF TypeOK
  <2> QED BY <2>1, <2>2 DEF Picture
<1>7. p \in Piece /\ p.frame = Len(seen) /\ p.back = bg
  BY <1>2, <1>5, <1>6 DEF Piece
<1>8. segs[k].frames \in Seq(Piece)
  BY <1>3, SegmentType
<1>9. more \in Seq(Piece) /\ Len(more) \in Nat
  BY <1>4, <1>7, <1>8
<1>10. more = Append(segs[k].frames, p)
  BY <1>4
<1> HIDE DEF p, more
<1>11. Len(segs') = k /\ segs'[k] = [state |-> st, frames |-> more] /\ \A i \in 1..k : i # k => segs'[i] = segs[i]
  BY <1>1, <1>2, <1>3
<1>12. \/ st = "saved" /\ Len(more) >= SegmentFrames /\ bg' = Video + 1
       \/ st = "open" /\ Len(more) < SegmentFrames /\ bg' = bg
  <2>1. bg' = IF full THEN Video + 1 ELSE bg
    BY <1>1
  <2>2. CASE full
    BY <2>1, <2>2
  <2>3. CASE ~full
    <3>1. Len(more) < SegmentFrames
      BY <1>9, <2>3 DEF FrameConstants
    <3> QED BY <2>1, <2>3, <3>1
  <2> QED BY <2>2, <2>3
<1> HIDE DEF k, st
<1>13. k = Len(segs)
  BY DEF k
<1> QED BY <1>3, <1>7, <1>10, <1>11, <1>12, <1>13

\* The frame is written, and the segment cut when it is full.
LEMMA WriteKeeps ==
    ASSUME FrameConstants, FrameInv, TypeOK', Write
    PROVE  GapInv' /\ ClearInv' /\ CutInv' /\ WrittenInv'
<1>1. TypeOK /\ SourceInv /\ GapInv /\ ClearInv /\ CutInv /\ WrittenInv
  BY DEF FrameInv
<1>2. pc = "write" /\ pc' = "top" /\ UNCHANGED <<mode, seen, streak, buffer, clean>>
  BY DEF Write, run, backdrop
<1>3. Len(seen) \in Nat /\ Len(segs) \in Nat /\ segs \in Seq(Segment) /\ Len(seen) >= 1 /\ Open /\ segs # <<>>
  BY <1>1, <1>2, Lengths DEF WrittenInv, CutInv, TypeOK, Open
<1>0. PICK k \in Nat \ {0} : \E more, p, st :
         /\ k = Len(segs) /\ k = Len(segs') /\ \A i \in 1..k : i # k => segs'[i] = segs[i]
         /\ segs'[k] = [state |-> st, frames |-> more]
         /\ more = Append(segs[k].frames, p)
         /\ p.frame = Len(seen) /\ p.back = bg /\ p \in Piece
         /\ \/ st = "saved" /\ Len(more) >= SegmentFrames /\ bg' = Video + 1
            \/ st = "open" /\ Len(more) < SegmentFrames /\ bg' = bg
  BY <1>1, <1>3, WriteShape
<1>4. PICK more, p, st :
         /\ k = Len(segs) /\ k = Len(segs') /\ \A i \in 1..k : i # k => segs'[i] = segs[i]
         /\ segs'[k] = [state |-> st, frames |-> more]
         /\ more = Append(segs[k].frames, p)
         /\ p.frame = Len(seen) /\ p.back = bg /\ p \in Piece
         /\ \/ st = "saved" /\ Len(more) >= SegmentFrames /\ bg' = Video + 1
            \/ st = "open" /\ Len(more) < SegmentFrames /\ bg' = bg
  BY <1>0
<1> DEFINE old == Len(segs[k].frames)
<1>5. /\ segs[k].frames \in Seq(Piece) /\ old \in Nat
  BY <1>1, <1>4, SegmentType
<1>6. /\ Len(more) = old + 1 /\ more[old + 1] = p /\ \A n \in 1..old : more[n] = segs[k].frames[n]
  BY <1>4, <1>5
<1>7. segs'[k].state = st /\ segs'[k].frames = more
  BY <1>4
<1>8. old < SegmentFrames
  BY <1>1, <1>2, <1>3, <1>4 DEF CutInv, Looping, Open, Last
<1> HIDE DEF old
\* A place in the segments is an old one, or the new last one.
<1>9. \A i \in 1..k : \A n \in 1..Len(segs[i].frames) :
         n \in 1..Len(segs'[i].frames) /\ segs'[i].frames[n] = segs[i].frames[n]
  <2> TAKE i \in 1..k
  <2>1. CASE i = k
    BY <1>5, <1>6, <1>7, <2>1 DEF old
  <2>2. CASE i # k
    BY <1>4, <2>2
  <2> QED BY <2>1, <2>2
<1>10. \A i \in 1..k : \A n \in 1..Len(segs'[i].frames) :
          \/ n \in 1..Len(segs[i].frames)
          \/ i = k /\ n = old + 1 /\ segs'[i].frames[n] = p
  <2> TAKE i \in 1..k
  <2>1. CASE i = k
    BY <1>5, <1>6, <1>7, <2>1 DEF old
  <2>2. CASE i # k
    BY <1>4, <2>2
  <2> QED BY <2>1, <2>2
<1>11. GapInv'
  <2>1. Decided' = Decided
    BY <1>2 DEF Decided
  <2> QED BY <1>1, <1>2, <2>1 DEF GapInv
<1>12. ClearInv'
  <2>1. bg' = bg \/ bg' = Video + 1
    BY <1>4
  <2>2. (bg \in {0, Video + 1} \/ Clear(bg))'
    BY <1>1, <1>2, <2>1 DEF ClearInv, Clear
  <2>3. (clean = 0 \/ Clear(clean))'
    BY <1>1, <1>2 DEF ClearInv, Clear
  <2>4. ASSUME NEW i \in 1..k, NEW n \in 1..Len(segs'[i].frames), segs'[i].frames[n].back \notin {0, Video + 1}
        PROVE  Clear(segs[i].frames[n].back)'
    <3>1. CASE n \in 1..Len(segs[i].frames)
      <4>1. segs'[i].frames[n].back = segs[i].frames[n].back
        BY <1>9, <3>1
      <4>2. Clear(segs[i].frames[n].back)
        BY <1>1, <1>4, <2>4, <3>1, <4>1, BackgroundsClear DEF ClearInv
      <4> QED BY <1>2, <4>1, <4>2 DEF Clear
    <3>2. CASE segs'[i].frames[n] = p
      <4>1. segs'[i].frames[n].back = bg /\ Clear(bg)
        BY <1>1, <1>4, <2>4, <3>2 DEF ClearInv
      <4> QED BY <1>2, <4>1 DEF Clear
    <3> QED BY <1>10, <3>1, <3>2
  <2>5. DOMAIN segs' = 1..k
    BY <1>4, LengthsThen
  <2>6. \A i \in 1..k : DOMAIN segs'[i].frames = 1..Len(segs'[i].frames)
    <3> TAKE i \in 1..k
    <3>1. segs' \in Seq(Segment)
      BY DEF TypeOK
    <3>2. segs'[i] \in Segment
      BY <1>4, <3>1
    <3>3. segs'[i].frames \in Seq(Piece)
      BY <3>2 DEF Segment
    <3> QED BY <3>3
  <2>7. BackgroundClear'
    BY <2>4, <2>5, <2>6 DEF BackgroundClear, Black, NoBack
  <2> QED BY <2>2, <2>3, <2>7 DEF ClearInv
<1>13. CutInv'
  <2>1. \A i \in 1..Len(segs') : i < Len(segs') => segs'[i].state = "saved" /\ Len(segs'[i].frames) = SegmentFrames
    BY <1>1, <1>4 DEF CutInv
  <2>2. \/ segs'[k].state = "saved" /\ Len(segs'[k].frames) = SegmentFrames
        \/ segs'[k].state = "open" /\ Len(segs'[k].frames) < SegmentFrames
    BY <1>4, <1>5, <1>6, <1>7, <1>8 DEF FrameConstants
  <2> QED BY <1>2, <1>4, <2>1, <2>2 DEF CutInv
<1>14. WrittenInv'
  <2>1. Offered = Len(seen) - 1 /\ Offered' = Len(seen) /\ Len(seen') = Len(seen)
    BY <1>2 DEF Offered
  <2>2. \A f : Wanted(f)' <=> Wanted(f)
    BY <1>2 DEF Wanted
  <2>3. \A i \in 1..k : \A n \in 1..Len(segs[i].frames) :
          /\ Written(i, n)' = Written(i, n)
          /\ Written(i, n) \in 1..(Len(seen) - 1) /\ Wanted(Written(i, n))
    BY <1>1, <1>4, <1>9, <2>1 DEF Written, WrittenInv, WrittenRight
  <2>4. \A i \in 1..k : \A n \in 1..Len(segs'[i].frames) :
          \/ n \in 1..Len(segs[i].frames)
          \/ i = k /\ n = old + 1 /\ Written(i, n)' = Len(seen)
    BY <1>4, <1>10 DEF Written
  <2>5. Wanted(Len(seen))
    BY <1>1, <1>2 DEF WrittenInv
  <2>6. WrittenRight'
    <3> SUFFICES ASSUME NEW i \in 1..k, NEW n \in 1..Len(segs'[i].frames)
                 PROVE  Written(i, n)' \in 1..Offered' /\ Wanted(Written(i, n))'
      BY <1>4 DEF WrittenRight
    <3>1. Written(i, n)' \in 1..Len(seen) /\ Wanted(Written(i, n)')
      BY <1>3, <2>3, <2>4, <2>5
    <3> QED BY <1>2, <2>1, <3>1 DEF Wanted
  <2>7. WrittenInOrder'
    <3> SUFFICES ASSUME NEW i \in 1..k, NEW j \in 1..k, NEW m \in 1..Len(segs'[i].frames), NEW n \in 1..Len(segs'[j].frames),
                        i < j \/ (i = j /\ m < n)
                 PROVE  Written(i, m)' < Written(j, n)'
      BY <1>4 DEF WrittenInOrder
    <3>1. CASE m \in 1..Len(segs[i].frames) /\ n \in 1..Len(segs[j].frames)
      BY <1>1, <1>4, <2>3, <3>1 DEF WrittenInv, WrittenInOrder
    <3>2. CASE m \in 1..Len(segs[i].frames) /\ j = k /\ n = old + 1 /\ Written(j, n)' = Len(seen)
      BY <1>3, <2>3, <3>2
    <3>3. CASE i = k /\ m = old + 1
      <4>1. i = j /\ m < n
        BY <1>4, <3>3
      <4>2. n \in 1..(old + 1)
        BY <1>6, <1>7, <3>3, <4>1
      <4> QED BY <1>5, <3>3, <4>1, <4>2
    <3> QED BY <2>4, <3>1, <3>2, <3>3
  <2>8. \A f \in 1..Offered' : Wanted(f)' => IsWritten(f)'
    <3> SUFFICES ASSUME NEW f \in 1..Offered', Wanted(f)' PROVE IsWritten(f)'
      OBVIOUS
    <3>1. CASE f = Len(seen)
      <4>1. PICK l \in Nat : l = old + 1
        BY <1>5
      <4>2. k \in 1..Len(segs') /\ l \in 1..Len(segs'[k].frames)
        BY <1>4, <1>5, <1>6, <1>7, <4>1
      <4>3. Written(k, l)' = f
        BY <1>4, <1>6, <1>7, <3>1, <4>1 DEF Written
      <4> QED BY <4>2, <4>3 DEF IsWritten
    <3>2. CASE f \in 1..Offered
      <4>1. IsWritten(f)
        BY <1>1, <1>2, <2>2, <3>2 DEF WrittenInv
      <4>2. PICK i \in 1..k : \E n \in 1..Len(segs[i].frames) : Written(i, n) = f
        BY <1>4, <4>1 DEF IsWritten
      <4>3. PICK n \in 1..Len(segs[i].frames) : Written(i, n) = f
        BY <4>2
      <4>4. n \in 1..Len(segs'[i].frames) /\ Written(i, n)' = f
        BY <1>9, <2>3, <4>3
      <4> QED BY <1>4, <4>4 DEF IsWritten
    <3> QED BY <1>3, <2>1, <3>1, <3>2
  <2> QED BY <1>2, <2>6, <2>7, <2>8 DEF WrittenInv
<1> QED BY <1>11, <1>12, <1>13, <1>14

\* The last segment is flushed or discarded.
LEMMA FinalKeeps ==
    ASSUME FrameConstants, FrameInv, TypeOK', Final
    PROVE  GapInv' /\ ClearInv' /\ CutInv' /\ WrittenInv'
<1>1. TypeOK /\ GapInv /\ ClearInv /\ CutInv /\ WrittenInv
  BY DEF FrameInv
<1>2. pc = "final" /\ pc' = "release" /\ UNCHANGED <<mode, seen, streak, buffer, clean, bg>>
  BY DEF Final, run, backdrop
<1>3. Len(seen) \in Nat /\ Len(segs) \in Nat /\ segs \in Seq(Segment)
  BY <1>1, Lengths DEF TypeOK
<1>4. \/ ~Open /\ segs' = segs
      \/ Open /\ \E st \in {"aborted", "saved"} : segs' = [segs EXCEPT ![Len(segs)].state = st]
  BY DEF Final, CloseAll
<1>5. /\ Len(segs') = Len(segs) /\ \A i \in 1..Len(segs) : segs'[i].frames = segs[i].frames
      /\ \A i \in 1..Len(segs) : i < Len(segs) => segs'[i].state = segs[i].state
      /\ segs' # <<>> => segs'[Len(segs')].state # "open"
  <2>1. CASE ~Open /\ segs' = segs
    BY <1>3, <2>1 DEF Open, Last
  <2>2. CASE Open /\ \E st \in {"aborted", "saved"} : segs' = [segs EXCEPT ![Len(segs)].state = st]
    <3>1. PICK st \in {"aborted", "saved"} : segs' = [segs EXCEPT ![Len(segs)].state = st]
      BY <2>2
    <3>2. segs # <<>> /\ Len(segs) \in 1..Len(segs)
      BY <1>3, <2>2 DEF Open
    <3>3. Len(segs') = Len(segs) /\ \A i \in 1..Len(segs) : i # Len(segs) => segs'[i] = segs[i]
      BY <1>3, <3>1, <3>2
    <3>4. segs[Len(segs)] \in Segment /\ segs'[Len(segs)] = [segs[Len(segs)] EXCEPT !.state = st]
      BY <1>3, <3>1, <3>2
    <3>5. segs'[Len(segs)].state = st /\ segs'[Len(segs)].frames = segs[Len(segs)].frames
      BY <3>4 DEF Segment
    <3> QED BY <1>3, <3>2, <3>3, <3>5
  <2> QED BY <1>4, <2>1, <2>2
<1>6. SeenGrows /\ SameFrames
  BY <1>2, <1>3, <1>5 DEF SeenGrows, SameFrames
<1>7. GapInv'
  <2>1. Decided' = Decided
    BY <1>2 DEF Decided
  <2> QED BY <1>1, <1>2, <2>1 DEF GapInv
<1>8. ClearInv'
  BY <1>1, <1>2, <1>6, BackgroundsLast DEF ClearInv, Clear
<1>9. CutInv'
  <2>1. ~Open'
    BY <1>5 DEF Open, Last
  <2> QED BY <1>1, <1>2, <1>3, <1>5, <2>1 DEF CutInv, Looping
<1>10. WrittenInv'
  <2>1. Offered = Len(seen) /\ Offered' = Len(seen)
    BY <1>2 DEF Offered
  <2>2. WrittenRight' /\ WrittenInOrder'
    BY <1>1, <1>2, <1>3, <1>6, <2>1, WritingLasts
  <2> QED BY <1>2, <2>2 DEF WrittenInv
<1> QED BY <1>7, <1>8, <1>9, <1>10

\* The decoder's side of a read: the frame that follows those seen.
LEMMA ReadTakesNext ==
    ASSUME FrameConstants, FrameInv, ReadOpenCV \/ ReadFFmpeg
    PROVE  /\ \E rs \in Regions : \E f \in 1..Video :
                 /\ f = Len(seen) + 1
                 /\ seen' = Append(seen, [frame |-> f, kept |-> rs])
           /\ SourceInv' /\ made' \in 0..Video /\ queue' \in Seq(0..Video) /\ Len(queue') <= QueueMax
           /\ pending' \in BOOLEAN
<1>1. TypeOK /\ SourceInv
  BY DEF FrameInv
<1>2. /\ Len(seen) \in Nat /\ Len(queue) \in Nat /\ seen \in Seq(Shown) /\ queue \in Seq(0..Video) /\ made \in 0..Video
      /\ Len(queue) <= QueueMax /\ pending \in BOOLEAN
  BY <1>1, Lengths DEF TypeOK
<1>0. Len(seen) \in Nat /\ Len(queue) \in Nat /\ made \in 0..Video /\ made \in Nat /\ Video \in Nat
  BY <1>2 DEF FrameConstants
<1>3. ASSUME NEW f \in 1..Video, f = Len(seen) + 1, NEW rs,
             seen' = Append(seen, [frame |-> f, kept |-> rs])
      PROVE  /\ Len(seen') = Len(seen) + 1
             /\ \A g \in 1..Len(seen') : seen'[g].frame = g
  <2> DEFINE s == [frame |-> f, kept |-> rs]
  <2>1. s.frame = f
    OBVIOUS
  <2>2. seen' = Append(seen, s)
    BY <1>3
  <2> HIDE DEF s
  <2>3. Len(seen') = Len(seen) + 1 /\ seen'[Len(seen) + 1] = s /\ \A g \in 1..Len(seen) : seen'[g] = seen[g]
    BY <1>2, <2>2
  <2> QED BY <1>1, <1>2, <1>3, <2>1, <2>3 DEF SourceInv
<1>4. CASE ReadOpenCV
  <2>1. /\ decoder = "opencv" /\ queue = <<>> /\ reader = "done"
        /\ UNCHANGED <<decoder, queue, reader, item>>
    BY <1>1, <1>4 DEF ReadOpenCV, SourceInv, run, ffmpeg
  <2>2. PICK f \in 1..Video : /\ f = Len(seen) + 1 /\ made' = f /\ ~pending' /\ Show(f)
    <3>1. CASE pending
      <4>1. pending' = FALSE /\ Show(made) /\ made' = made
        BY <1>4, <3>1 DEF ReadOpenCV
      <4>2. made = Len(seen) + 1
        BY <1>1, <2>1, <3>1 DEF SourceInv
      <4> QED BY <1>2, <4>1, <4>2
    <3>2. CASE ~pending
      <4>1. pending' = pending /\ Show(made + 1) /\ made' = made + 1 /\ made < Video
        BY <1>4, <3>2 DEF ReadOpenCV
      <4>2. made = Len(seen)
        BY <1>1, <2>1, <3>2 DEF SourceInv
      <4>3. made + 1 \in 1..Video
        BY <1>0, <4>1
      <4> QED BY <1>0, <3>2, <4>1, <4>2, <4>3
    <3> QED BY <3>1, <3>2
  <2>3. PICK rs \in Regions :
           seen' = Append(seen, [frame |-> f, kept |-> rs])
    BY <2>2 DEF Show
  <2>4. Len(seen') = Len(seen) + 1 /\ \A g \in 1..Len(seen') : seen'[g].frame = g
    BY <1>3, <2>2, <2>3
  <2>5. SourceInv'
    BY <1>2, <2>1, <2>2, <2>4 DEF SourceInv
  <2>6. pending' \in BOOLEAN
    BY <1>2, <1>4 DEF ReadOpenCV
  <2>7. made' \in 0..Video /\ queue' \in Seq(0..Video) /\ Len(queue') <= QueueMax
    BY <1>0, <1>2, <2>1, <2>2
  <2> QED BY <2>2, <2>3, <2>5, <2>6, <2>7
<1>5. CASE ReadFFmpeg
  <2>1. /\ decoder = "ffmpeg" /\ queue # <<>> /\ Head(queue) # 0 /\ queue' = Tail(queue) /\ Show(Head(queue))
        /\ UNCHANGED <<decoder, made, pending, reader, item>>
    BY <1>5 DEF ReadFFmpeg, run, EOF
  <2>2. /\ Len(queue) >= 1 /\ Head(queue) = queue[1] /\ Len(queue') = Len(queue) - 1
        /\ \A i \in 1..Len(queue') : queue'[i] = queue[i + 1]
    BY <1>2, <2>1
  <2>3. PICK f \in 1..Video : f = Len(seen) + 1 /\ f = Head(queue)
    <3>1. Head(queue) = Len(seen) + 1
      BY <1>1, <1>2, <2>1, <2>2 DEF SourceInv
    <3>2. Head(queue) \in 0..Video
      <4>1. queue \in Seq(0..Video) /\ Len(queue) >= 1
        BY <1>2, <2>2
      <4>2. queue[1] \in 0..Video
        BY <4>1, <1>0, ElementOfSeq
      <4> QED BY <2>2, <4>2
    <3>3. Head(queue) \in 1..Video
      BY <1>0, <3>1, <3>2
    <3> QED BY <3>1, <3>3
  <2>4. PICK rs \in Regions :
           seen' = Append(seen, [frame |-> f, kept |-> rs])
    BY <2>1, <2>3 DEF Show
  <2>5. Len(seen') = Len(seen) + 1 /\ \A g \in 1..Len(seen') : seen'[g].frame = g
    BY <1>3, <2>3, <2>4
  <2>6. \A i \in 1..Len(queue') : queue'[i] = 0 \/ queue'[i] = Len(seen') + i
    <3> TAKE i \in 1..Len(queue')
    <3>1. i + 1 \in 1..Len(queue) /\ queue'[i] = queue[i + 1]
      BY <1>2, <2>2
    <3>2. queue[i + 1] = 0 \/ queue[i + 1] = Len(seen) + (i + 1)
      BY <1>1, <3>1 DEF SourceInv
    <3> QED BY <1>2, <2>5, <3>1, <3>2
  <2>10. Len(seen') + Len(queue') = Len(seen) + Len(queue)
    BY <1>2, <2>2, <2>5
  <2>7. /\ reader' \in {"read", "stuck"} => made' = Len(seen') + Len(queue')
        /\ reader' = "put" => item' = 0 \/ (item' = made' /\ made' = Len(seen') + Len(queue') + 1)
    <3>1. reader' = reader /\ made' = made /\ item' = item
      BY <2>1
    <3> QED BY <1>1, <2>10, <3>1 DEF SourceInv
  <2>8. SourceInv'
    BY <2>1, <2>5, <2>6, <2>7 DEF SourceInv
  <2>9. queue' \in Seq(0..Video) /\ Len(queue') <= QueueMax
    <3>1. Tail(queue) \in Seq(0..Video)
      BY <1>2, <2>1
    <3> QED BY <1>2, <2>1, <2>2, <3>1 DEF FrameConstants
  <2> QED BY <1>2, <2>1, <2>3, <2>4, <2>8, <2>9
<1> QED BY <1>4, <1>5

\* The FFmpeg reader's thread fills, publishes or stops.
LEMMA ReaderKeeps ==
    ASSUME FrameConstants, FrameInv, Fill \/ Publish \/ ReaderStops
    PROVE  /\ SourceInv'
           /\ made' \in 0..Video /\ item' \in 0..Video /\ queue' \in Seq(0..Video) /\ Len(queue') <= QueueMax
           /\ reader' \in {"read", "put", "done"}
           /\ UNCHANGED <<mode, decoder, pending, ffStop, stalls, pc, seen, streak, buffer, clean, enh, segs, bg, stop>>
<1>1. TypeOK /\ SourceInv
  BY DEF FrameInv
<1>2. /\ Len(seen) \in Nat /\ Len(queue) \in Nat /\ queue \in Seq(0..Video) /\ made \in 0..Video /\ item \in 0..Video
      /\ Len(queue) <= QueueMax
  BY <1>1, Lengths DEF TypeOK
<1>0. Len(seen) \in Nat /\ Len(queue) \in Nat /\ made \in 0..Video /\ item \in 0..Video /\ Video \in Nat
  BY <1>2 DEF FrameConstants
<1>3. /\ UNCHANGED <<mode, decoder, pending, ffStop, stalls, pc, seen, streak, buffer, clean, enh, segs, bg, stop>>
      /\ reader \in {"read", "put"} /\ decoder # "opencv"
  BY <1>1 DEF Fill, Publish, ReaderStops, run, backdrop, SourceInv
<1>4. CASE Fill
  <2>1. /\ reader = "read" /\ reader' = "put" /\ queue' = queue
        /\ \/ made < Video /\ made' = made + 1 /\ item' = made + 1
           \/ item' = 0 /\ made' = made
    BY <1>4 DEF Fill, EOF
  <2>2. made = Len(seen) + Len(queue)
    BY <1>1, <2>1 DEF SourceInv
  <2>3. made' \in 0..Video /\ item' \in 0..Video /\ (item' = 0 \/ (item' = made' /\ made' = Len(seen) + Len(queue) + 1))
    <3>1. CASE made < Video /\ made' = made + 1 /\ item' = made + 1
      <4>1. made' \in 0..Video /\ item' \in 0..Video
        BY <1>0, <3>1
      <4>2. item' = made' /\ made' = Len(seen) + Len(queue) + 1
        BY <1>0, <2>2, <3>1
      <4> QED BY <4>1, <4>2
    <3>2. CASE item' = 0 /\ made' = made
      BY <1>0, <3>2
    <3> QED BY <2>1, <3>1, <3>2
  <2> QED BY <1>1, <1>2, <1>3, <2>1, <2>3 DEF SourceInv
<1>5. CASE Publish
  <2>1. /\ reader = "put" /\ Len(queue) < QueueMax /\ queue' = Append(queue, item) /\ made' = made /\ item' = item
        /\ reader' = IF item = 0 THEN "done" ELSE "read"
    BY <1>5 DEF Publish, EOF
  <2>2. /\ Len(queue') = Len(queue) + 1 /\ queue'[Len(queue) + 1] = item /\ \A i \in 1..Len(queue) : queue'[i] = queue[i]
        /\ queue' \in Seq(0..Video)
    BY <1>2, <2>1
  <2>3. item = 0 \/ (item = made /\ made = Len(seen) + Len(queue) + 1)
    BY <1>1, <2>1 DEF SourceInv
  <2>4. \A i \in 1..Len(queue') : queue'[i] = 0 \/ queue'[i] = Len(seen) + i
    <3> TAKE i \in 1..Len(queue')
    <3>1. CASE i = Len(queue) + 1
      BY <1>2, <2>2, <2>3, <3>1
    <3>2. CASE i \in 1..Len(queue)
      BY <1>1, <2>2, <3>2 DEF SourceInv
    <3> QED BY <1>2, <2>2, <3>1, <3>2
  <2>5. reader' \in {"read", "stuck"} => made' = Len(seen) + Len(queue')
    BY <1>2, <2>1, <2>2, <2>3
  <2> QED BY <1>1, <1>2, <1>3, <2>1, <2>2, <2>4, <2>5 DEF SourceInv, FrameConstants
<1>6. CASE ReaderStops
  <2>1. reader' = "done" /\ UNCHANGED <<made, queue, item>>
    BY <1>6 DEF ReaderStops
  <2> QED BY <1>1, <1>2, <1>3, <2>1 DEF SourceInv
<1> QED BY <1>4, <1>5, <1>6

\* The enhancement keeps its record, whatever it decides.
LEMMA EnhanceTypes ==
    ASSUME FrameConstants, TypeOK, SourceInv, Enhance, Len(seen) >= 1
    PROVE  enh' \in [count : Nat, job : Pictures, done : BOOLEAN, last : Pictures]
<1>1. enh \in [count : Nat, job : Pictures, done : BOOLEAN, last : Pictures]
  BY DEF TypeOK
<1>2. Last(seen).frame \in Pictures
  <2>1. Len(seen) \in 1..Len(seen)
    BY Lengths
  <2>2. seen[Len(seen)].frame \in 1..Video
    BY <2>1, SeenType
  <2> QED BY <2>2 DEF Last, Pictures, NoBack, FrameConstants
<1>3. Collect \in Pictures
  BY <1>1 DEF Collect
<1>4. CASE enh' = enh
  BY <1>1, <1>4
<1>5. CASE EveryN > 0
  <2>1. (enh.count + 1) % EveryN \in Nat
    BY <1>1, <1>5 DEF FrameConstants
  <2>2. \/ enh' = enh
        \/ enh' = [count |-> (enh.count + 1) % EveryN, job |-> Last(seen).frame, done |-> FALSE, last |-> Collect]
        \/ enh' = [enh EXCEPT !.count = (enh.count + 1) % EveryN]
    BY DEF Enhance
  <2>3. PICK n \in Nat : n = (enh.count + 1) % EveryN
    BY <2>1
  <2>4. [count |-> n, job |-> Last(seen).frame, done |-> FALSE, last |-> Collect]
           \in [count : Nat, job : Pictures, done : BOOLEAN, last : Pictures]
    BY <1>2, <1>3
  <2>5. [enh EXCEPT !.count = n] \in [count : Nat, job : Pictures, done : BOOLEAN, last : Pictures]
    BY <1>1
  <2> QED BY <1>1, <2>2, <2>3, <2>4, <2>5
<1>6. CASE EveryN = 0
  BY <1>4, <1>6 DEF Enhance
<1> QED BY <1>5, <1>6 DEF FrameConstants

\* The clean background is a picture.
LEMMA BackdropTypes ==
    ASSUME FrameConstants, TypeOK, SourceInv, GapInv, Backdrop, Len(seen) >= 1, pc = "frame"
    PROVE  streak' \in Nat /\ buffer' \in Seq(Pictures) /\ Len(buffer') <= Lag + 1 /\ clean' \in Pictures /\ bg' \in Pictures
<1>1. /\ streak \in Nat /\ buffer \in Seq(Pictures) /\ clean \in Pictures /\ bg \in Pictures /\ Len(buffer) <= Lag + 1
      /\ Len(buffer) \in Nat
  BY Lengths DEF TypeOK
<1>2. Last(seen).frame \in Pictures
  <2>1. Len(seen) \in 1..Len(seen)
    BY Lengths
  <2>2. seen[Len(seen)].frame \in 1..Video
    BY <2>1, SeenType
  <2> QED BY <2>2 DEF Last, Pictures, NoBack, FrameConstants
<1> DEFINE more == Append(buffer, Last(seen).frame)
<1>3. \/ streak' = 0 /\ buffer' = <<>> /\ UNCHANGED <<clean, bg>>
      \/ streak' = 0 /\ buffer' = <<>> /\ streak >= CleanFrames /\ clean' = Head(buffer) /\ bg' \in {clean', bg}
      \/ /\ streak' = streak + 1 /\ UNCHANGED <<clean, bg>>
         /\ buffer' = IF Len(more) > Lag + 1 THEN Tail(more) ELSE more
  BY DEF Backdrop
<1>4. more \in Seq(Pictures) /\ Len(more) = Len(buffer) + 1
  BY <1>1, <1>2
<1> HIDE DEF more
<1>5. CASE streak' = 0 /\ buffer' = <<>> /\ UNCHANGED <<clean, bg>>
  BY <1>1, <1>5 DEF FrameConstants
<1>6. CASE streak' = 0 /\ buffer' = <<>> /\ streak >= CleanFrames /\ clean' = Head(buffer) /\ bg' \in {clean', bg}
  <2>1. Head(buffer) \in Pictures
    BY <1>6, GapIsClear
  <2> QED BY <1>1, <1>6, <2>1 DEF FrameConstants
<1>7. CASE /\ streak' = streak + 1 /\ UNCHANGED <<clean, bg>>
           /\ buffer' = IF Len(more) > Lag + 1 THEN Tail(more) ELSE more
  <2>1. CASE Len(more) > Lag + 1
    <3>1. buffer' = Tail(more) /\ Len(more) >= 1
      BY <1>1, <1>4, <1>7, <2>1
    <3>2. buffer' \in Seq(Pictures) /\ Len(buffer') = Len(more) - 1
      BY <1>1, <1>4, <3>1
    <3> QED BY <1>1, <1>4, <1>7, <3>2 DEF FrameConstants
  <2>2. CASE ~(Len(more) > Lag + 1)
    BY <1>1, <1>4, <1>7, <2>2 DEF FrameConstants
  <2> QED BY <2>1, <2>2
<1> QED BY <1>3, <1>5, <1>6, <1>7

\* The segments are segments after each step that changes them.
LEMMA SegmentTypes ==
    ASSUME FrameConstants, FrameInv, OpenSegment \/ Write \/ Final
    PROVE  segs' \in Seq(Segment) /\ bg' \in Pictures
<1>1. /\ TypeOK /\ segs \in Seq(Segment) /\ Len(segs) \in Nat /\ clean \in Pictures /\ bg \in Pictures
      /\ SourceInv /\ CutInv /\ WrittenInv
  BY Lengths DEF FrameInv, TypeOK
<1>2. Video + 1 \in Pictures
  BY DEF Pictures, NoBack, FrameConstants
<1>3. CASE OpenSegment
  <2> DEFINE fresh == [state |-> "open", frames |-> <<>>]
  <2>1. fresh \in Segment
    BY DEF Segment
  <2>2. \/ segs' = segs /\ bg' = bg
        \/ segs' = Append(segs, fresh) /\ bg' \in {clean, Video + 1}
    BY <1>3 DEF OpenSegment, NoBack
  <2> HIDE DEF fresh
  <2> QED BY <1>1, <1>2, <2>1, <2>2
<1>4. CASE Write
  <2>1. Len(seen) >= 1 /\ Open
    BY <1>1, <1>4 DEF Write, WrittenInv, CutInv
  <2>2. PICK k \in Nat \ {0} : \E more, p, st :
             /\ k = Len(segs) /\ k = Len(segs') /\ \A i \in 1..k : i # k => segs'[i] = segs[i]
             /\ segs'[k] = [state |-> st, frames |-> more]
             /\ more = Append(segs[k].frames, p)
             /\ p.frame = Len(seen) /\ p.back = bg /\ p \in Piece
             /\ \/ st = "saved" /\ Len(more) >= SegmentFrames /\ bg' = Video + 1
                \/ st = "open" /\ Len(more) < SegmentFrames /\ bg' = bg
    BY <1>1, <1>4, <2>1, WriteShape
  <2>3. PICK more, p, st :
             /\ segs'[k] = [state |-> st, frames |-> more]
             /\ more = Append(segs[k].frames, p) /\ p \in Piece
             /\ st \in {"saved", "open"} /\ bg' \in {Video + 1, bg}
    BY <2>2
  <2>4. segs[k].frames \in Seq(Piece)
    BY <1>1, <2>2, SegmentType
  <2>5. segs'[k] \in Segment
    BY <2>3, <2>4 DEF Segment
  <2>6. \E r : segs' = [segs EXCEPT ![Len(segs)] = r]
    BY <1>4 DEF Write
  <2>7. PICK r : segs' = [segs EXCEPT ![k] = r]
    BY <2>2, <2>6
  <2>8. k \in 1..Len(segs) /\ k \in DOMAIN segs
    <3>1. k = Len(segs) /\ k \in Nat \ {0}
      BY <2>2
    <3>2. k \in 1..Len(segs)
      BY <3>1
    <3> QED BY <1>1, <3>2
  <2>9. r \in Segment
    BY <2>5, <2>7, <2>8
  <2>10. segs' \in Seq(Segment)
    BY <1>1, <2>7, <2>8, <2>9, ExceptSeq
  <2> QED BY <1>1, <1>2, <2>3, <2>10
<1>5. CASE Final
  <2>1. bg' = bg
    BY <1>5 DEF Final
  <2>2. CASE ~Open
    BY <1>1, <1>5, <2>1, <2>2 DEF Final
  <2>3. CASE Open
    <3>1. PICK st \in {"aborted", "saved"} : segs' = [segs EXCEPT ![Len(segs)].state = st]
      BY <1>5, <2>3 DEF Final, CloseAll
    <3>2. Len(segs) \in 1..Len(segs)
      BY <1>1, <2>3 DEF Open
    <3>3. [segs[Len(segs)] EXCEPT !.state = st] \in Segment
      BY <1>1, <3>2, SegmentType DEF Segment
    <3>4. segs' = [segs EXCEPT ![Len(segs)] = [segs[Len(segs)] EXCEPT !.state = st]]
      BY <3>1
    <3>5. segs' \in Seq(Segment)
      BY <1>1, <3>2, <3>3, <3>4, ExceptSeq
    <3> QED BY <1>1, <2>1, <3>5
  <2> QED BY <2>2, <2>3
<1> QED BY <1>3, <1>4, <1>5

\* Every step keeps the types.
LEMMA FrameTypes ==
    ASSUME FrameConstants, FrameInv, [Next]_vars
    PROVE  TypeOK'
<1>1. TypeOK /\ SourceInv /\ GapInv /\ WrittenInv /\ CutInv
  BY DEF FrameInv
<1>2. CASE Fill \/ Publish \/ ReaderStops
  <2>1. /\ made' \in 0..Video /\ item' \in 0..Video /\ queue' \in Seq(0..Video) /\ Len(queue') <= QueueMax
        /\ reader' \in {"read", "put", "done"}
        /\ UNCHANGED <<mode, decoder, pending, ffStop, stalls, pc, seen, streak, buffer, clean, enh, segs, bg, stop>>
    BY <1>2, ReaderKeeps
  <2> QED BY <1>1, <2>1 DEF TypeOK
<1>3. CASE ReadOpenCV \/ ReadFFmpeg
  <2>1. PICK rs \in Regions : \E f \in 1..Video :
           seen' = Append(seen, [frame |-> f, kept |-> rs])
    BY <1>3, ReadTakesNext
  <2>2. PICK f \in 1..Video :
           seen' = Append(seen, [frame |-> f, kept |-> rs])
    BY <2>1
  <2>4. [frame |-> f, kept |-> rs] \in Shown
    BY DEF Shown
  <2>5. seen' \in Seq(Shown)
    <3>1. seen \in Seq(Shown)
      BY <1>1 DEF TypeOK
    <3> QED BY <2>2, <2>4, <3>1, AppendProperties
  <2>6. made' \in 0..Video /\ queue' \in Seq(0..Video) /\ Len(queue') <= QueueMax /\ pending' \in BOOLEAN
    BY <1>3, ReadTakesNext
  <2>7. /\ pc' = "frame"
        /\ UNCHANGED <<mode, decoder, reader, item, ffStop, stalls, streak, buffer, clean, enh, segs, bg, stop>>
    BY <1>3 DEF ReadOpenCV, ReadFFmpeg, run, backdrop, ffmpeg
  <2> HIDE <1>3
  <2> QED BY <1>1, <2>5, <2>6, <2>7 DEF TypeOK
<1>4. CASE Decide
  <2>1. Len(seen) >= 1 /\ pc = "frame"
    BY <1>1, <1>4 DEF Decide, WrittenInv
  <2>2. enh' \in [count : Nat, job : Pictures, done : BOOLEAN, last : Pictures]
    BY <1>1, <1>4, <2>1, EnhanceTypes DEF Decide
  <2>3. streak' \in Nat /\ buffer' \in Seq(Pictures) /\ Len(buffer') <= Lag + 1 /\ clean' \in Pictures /\ bg' \in Pictures
    <3>1. CASE Backdrop
      BY <1>1, <2>1, <3>1, BackdropTypes
    <3>2. CASE UNCHANGED <<streak, buffer, clean, bg>>
      BY <1>1, <3>2 DEF TypeOK
    <3> QED BY <1>4, <3>1, <3>2 DEF Decide, backdrop
  <2>4. /\ pc' \in {"open", "top"}
        /\ UNCHANGED <<mode, decoder, made, pending, queue, reader, item, ffStop, stalls, seen, segs, stop>>
    BY <1>4 DEF Decide, run, source, ffmpeg
  <2> HIDE <1>4
  <2> QED BY <1>1, <2>2, <2>3, <2>4 DEF TypeOK
<1>5. CASE OpenSegment \/ Write \/ Final
  <2>1. segs' \in Seq(Segment) /\ bg' \in Pictures
    BY <1>5, SegmentTypes
  <2>2. /\ pc' \in {"write", "top", "release"}
        /\ UNCHANGED <<mode, decoder, made, pending, queue, reader, item, ffStop, stalls, seen, streak, buffer, clean, enh, stop>>
    BY <1>5 DEF OpenSegment, Write, Final, run, source, ffmpeg, backdrop
  <2> HIDE <1>5
  <2> QED BY <1>1, <2>1, <2>2 DEF TypeOK
<1>6. CASE EnhanceDone
  <2>1. enh' \in [count : Nat, job : Pictures, done : BOOLEAN, last : Pictures]
    BY <1>1, <1>6 DEF TypeOK, EnhanceDone
  <2>2. UNCHANGED <<mode, decoder, made, pending, queue, reader, item, ffStop, stalls, pc, seen, streak, buffer, clean, segs, bg, stop>>
    BY <1>6 DEF EnhanceDone, run, source, ffmpeg, backdrop
  <2> HIDE <1>6
  <2> QED BY <1>1, <2>1, <2>2 DEF TypeOK
<1>7. CASE \/ LoopTop \/ EndOfSource \/ WarmFrame \/ WriteStopped \/ Release \/ Close \/ RequestStop
           \/ UNCHANGED vars
  <2>1. UNCHANGED <<mode, decoder, made, pending, queue, reader, item, stalls, seen, streak, buffer, clean, enh, segs, bg>>
    BY <1>7 DEF LoopTop, EndOfSource, WarmFrame, WriteStopped, Release, Close, RequestStop, vars,
                run, source, ffmpeg, backdrop
  <2>2. /\ ffStop \in BOOLEAN /\ stop \in BOOLEAN
        /\ pc \in {"top", "reading", "frame", "open", "write", "final", "release", "close", "done"}
    BY <1>1 DEF TypeOK
  <2>3. ffStop' \in {ffStop, TRUE} /\ stop' \in {stop, TRUE} /\ pc' \in {"reading", "final", "top", "close", "done", pc}
    BY <1>7 DEF LoopTop, EndOfSource, WarmFrame, WriteStopped, Release, Close, RequestStop, vars, source, ffmpeg
  <2>4. /\ pc' \in {"top", "reading", "frame", "open", "write", "final", "release", "close", "done"}
        /\ ffStop' \in BOOLEAN /\ stop' \in BOOLEAN
    BY <2>2, <2>3
  <2> HIDE <1>7
  <2> QED BY <1>1, <2>1, <2>4 DEF TypeOK
<1>8. CASE Wedge \/ Unwedge
  <2>1. UNCHANGED <<mode, decoder, made, pending, queue, item, ffStop, pc, seen, streak, buffer, clean, enh, segs, bg, stop>>
    BY <1>8 DEF Wedge, Unwedge, run, backdrop
  <2>2. stalls \in 0..MaxStalls /\ (stalls' = stalls \/ (stalls < MaxStalls /\ stalls' = stalls + 1))
    BY <1>1, <1>8 DEF TypeOK, Wedge, Unwedge
  <2>3. stalls' \in 0..MaxStalls
    BY <2>2 DEF FrameConstants
  <2>4. reader' \in {"read", "stuck", "put", "done"}
    BY <1>8 DEF Wedge, Unwedge
  <2> HIDE <1>8
  <2> QED BY <1>1, <2>1, <2>3, <2>4 DEF TypeOK
<1> QED BY <1>2, <1>3, <1>4, <1>5, <1>6, <1>7, <1>8 DEF Next, ReaderStep, LoopStep

\* Every step keeps the invariant.
LEMMA FrameSteps == FrameConstants /\ FrameInv /\ [Next]_vars => FrameInv'
<1> SUFFICES ASSUME FrameConstants, FrameInv, [Next]_vars PROVE FrameInv'
  OBVIOUS
<1>1. TypeOK'
  BY FrameTypes
<1>2. SourceInv
  BY DEF FrameInv
<1>3. CASE Fill \/ Publish \/ ReaderStops
  BY <1>1, <1>3, ReaderKeeps, LoopStays DEF FrameInv
<1>4. CASE ReadOpenCV \/ ReadFFmpeg
  <2>1. SourceInv' /\ \E s : seen' = Append(seen, s)
    BY <1>4, ReadTakesNext
  <2>2. pc = "reading" /\ pc' = "frame" /\ UNCHANGED <<mode, streak, buffer, clean, bg, segs>>
    BY <1>4 DEF ReadOpenCV, ReadFFmpeg, run, backdrop
  <2> QED BY <1>1, <2>1, <2>2, ReadKeeps DEF FrameInv
<1>5. CASE WarmFrame \/ Decide \/ OpenSegment \/ Write \/ Final
  <2>1. UNCHANGED <<decoder, made, pending, queue, reader, item, seen>>
    BY <1>5 DEF WarmFrame, Decide, OpenSegment, Write, Final, run, source, ffmpeg
  <2> QED BY <1>1, <1>2, <1>5, <2>1, SourceStays, WarmFrameKeeps, DecideKeeps, OpenSegmentKeeps, WriteKeeps, FinalKeeps
          DEF FrameInv
<1>6. CASE \/ LoopTop \/ EndOfSource \/ WriteStopped \/ Release \/ Close \/ EnhanceDone \/ RequestStop
           \/ UNCHANGED vars
  <2>1. /\ UNCHANGED <<decoder, made, pending, queue, reader, item, seen>>
        /\ UNCHANGED <<mode, seen, streak, buffer, clean, segs, bg>>
    BY <1>6 DEF LoopTop, EndOfSource, WriteStopped, Release, Close, EnhanceDone, RequestStop, vars,
                run, source, ffmpeg, backdrop
  <2>2. \/ pc' = pc
        \/ pc = "top" /\ pc' \in {"reading", "final"}
        \/ pc \in {"reading", "write"} /\ pc' = "final"
        \/ pc = "release" /\ pc' = "close"
        \/ pc = "close" /\ pc' = "done"
    BY <1>6 DEF LoopTop, EndOfSource, WriteStopped, Release, Close, EnhanceDone, RequestStop, vars
  <2> QED BY <1>1, <1>2, <2>1, <2>2, SourceStays, LoopStays DEF FrameInv
<1>7. CASE Wedge \/ Unwedge
  <2>1. UNCHANGED <<mode, decoder, made, pending, queue, item, pc, seen, streak, buffer, clean, segs, bg>>
    BY <1>7 DEF Wedge, Unwedge, run, backdrop
  <2>2. reader \in {"read", "stuck"} /\ reader' \in {"read", "stuck"}
    BY <1>7 DEF Wedge, Unwedge
  <2>3. SourceInv'
    BY <1>2, <2>1, <2>2 DEF SourceInv
  <2> QED BY <1>1, <2>1, <2>3, LoopStays DEF FrameInv
<1> QED BY <1>3, <1>4, <1>5, <1>6, <1>7 DEF Next, ReaderStep, LoopStep

-----------------------------------------------------------------------------
(* The pictures that stand for the frames *)

\* A picture that the enhancement holds is that of a frame after the warm-up with regions.
Enhanceable(p) == p = 0 \/ (EveryN > 0 /\ Warmup < p /\ seen[p].kept # {})
\* What it shows comes from before what it was last given.
EnhInv ==
    /\ Enhanceable(enh.job) /\ Enhanceable(enh.last)
    /\ enh.job <= Decided
    /\ enh.last = 0 \/ enh.last < enh.job
\* A piece of a segment shows its own frame, or an enhanced one of before.
Stands(q) ==
    \/ q.picture = q.frame
    \/ /\ EveryN > 0 /\ Warmup < q.picture /\ q.picture < q.frame
       /\ seen[q.picture].kept # {} /\ seen[q.frame].kept # {}
       /\ q.picture <= enh.last
PiecesStand == \A i \in 1..Len(segs) : \A n \in 1..Len(segs[i].frames) : Stands(segs[i].frames[n])
\* An enhanced piece after another does not show an earlier picture.
Follows(q, r) == q.picture # q.frame /\ r.picture # r.frame => q.picture <= r.picture
PiecesFollow ==
    \A i, j \in 1..Len(segs) : \A m \in 1..Len(segs[i].frames), n \in 1..Len(segs[j].frames) :
        (i < j \/ (i = j /\ m < n)) => Follows(segs[i].frames[m], segs[j].frames[n])
PictureInv == EnhInv /\ PiecesStand /\ PiecesFollow

\* A picture of the enhancement stays one when more frames are seen.
LEMMA EnhanceableLasts ==
    ASSUME FrameConstants, TypeOK, SeenGrows, NEW CONSTANT p \in Nat, p <= Len(seen), Enhanceable(p)
    PROVE  Enhanceable(p)'
<1>1. CASE p = 0
  BY <1>1 DEF Enhanceable
<1>2. CASE p # 0
  <2>1. p \in 1..Len(seen)
    BY <1>2, Lengths
  <2> QED BY <1>2, <2>1 DEF Enhanceable, SeenGrows
<1> QED BY <1>1, <1>2

\* The numbers of the enhancement.
LEMMA EnhNumbers ==
    ASSUME FrameConstants, TypeOK, EnhInv
    PROVE  enh.job \in Nat /\ enh.last \in Nat /\ Decided \in Int /\ Decided <= Len(seen)
           /\ enh.job <= Len(seen) /\ enh.last <= Len(seen)
<1>1. enh \in [count : Nat, job : Pictures, done : BOOLEAN, last : Pictures] /\ Len(seen) \in Nat
  BY Lengths DEF TypeOK
<1>2. enh.job \in Nat /\ enh.last \in Nat
  BY <1>1 DEF Pictures, NoBack, FrameConstants
<1>3. Decided \in Int /\ Decided <= Len(seen)
  BY <1>1 DEF Decided
<1> QED BY <1>1, <1>2, <1>3 DEF EnhInv

\* A step that gives the enhancement no frame keeps what it holds.
LEMMA EnhStays ==
    ASSUME FrameConstants, TypeOK, TypeOK', EnhInv, SeenGrows, Decided' >= Decided, Decided' \in Int,
           enh'.job = enh.job, enh'.last = enh.last
    PROVE  EnhInv'
<1>1. enh.job \in Nat /\ enh.last \in Nat /\ Decided \in Int /\ enh.job <= Len(seen) /\ enh.last <= Len(seen)
  BY EnhNumbers
<1>2. PICK j \in Nat, l \in Nat : j = enh.job /\ l = enh.last
  BY <1>1
<1>3. Enhanceable(j)' /\ Enhanceable(l)'
  BY <1>1, <1>2, EnhanceableLasts DEF EnhInv
<1>4. Enhanceable(enh.job)' /\ Enhanceable(enh.last)'
  BY <1>2, <1>3 DEF Enhanceable
<1> QED BY <1>1, <1>4 DEF EnhInv

\* The frame decided about may be given to the enhancement.
LEMMA EnhDecides ==
    ASSUME FrameConstants, FrameInv, EnhInv, TypeOK', Decide
    PROVE  EnhInv' /\ enh'.last >= enh.last
<1>1. TypeOK /\ SourceInv /\ WrittenInv
  BY DEF FrameInv
<1>2. /\ pc = "frame" /\ pc' \in {"open", "top"} /\ seen' = seen /\ Enhance /\ Len(seen) > Warmup
      /\ Len(seen) \in Nat /\ Len(seen) >= 1
  BY <1>1, Lengths DEF Decide, Warming, WrittenInv, FrameConstants
<1>3. Decided = Len(seen) - 1 /\ Decided' = Len(seen) /\ SeenGrows
  BY <1>2 DEF Decided, SeenGrows
<1>4. enh.job \in Nat /\ enh.last \in Nat /\ enh.job <= Len(seen) - 1
  BY <1>1, <1>3, EnhNumbers DEF EnhInv
<1>5. enh \in [count : Nat, job : Pictures, done : BOOLEAN, last : Pictures]
  BY <1>1 DEF TypeOK
<1>6. CASE enh'.job = enh.job /\ enh'.last = enh.last
  BY <1>1, <1>2, <1>3, <1>4, <1>6, EnhStays
<1>7. CASE enh'.job = Last(seen).frame /\ enh'.last = Collect /\ EveryN > 0 /\ Kept
  <2>1. Last(seen) = seen[Len(seen)] /\ enh'.job = Len(seen)
    BY <1>1, <1>2, <1>7 DEF Last, SourceInv
  <2>2. enh'.last \in {enh.job, enh.last} /\ enh'.last >= enh.last
    BY <1>4, <1>7 DEF Collect, Black, EnhInv
  <2>3. enh'.last < Len(seen) /\ enh'.last \in Nat
    BY <1>2, <1>4, <2>2 DEF EnhInv
  <2>4. Enhanceable(enh'.last)
    BY <2>2 DEF EnhInv, Enhanceable
  <2>5. Enhanceable(enh'.job)
    BY <1>2, <1>7, <2>1 DEF Enhanceable, Kept
  <2>6. Enhanceable(enh.job)' /\ Enhanceable(enh.last)'
    BY <1>2, <2>4, <2>5 DEF Enhanceable
  <2> QED BY <1>2, <1>3, <2>1, <2>2, <2>3, <2>6 DEF EnhInv
<1> QED
  <2>1. \/ enh' = enh
        \/ EveryN # 0 /\ Kept /\ \E n : enh' = [count |-> n, job |-> Last(seen).frame, done |-> FALSE, last |-> Collect]
        \/ \E n : enh' = [enh EXCEPT !.count = n]
    BY <1>2 DEF Enhance
  <2>2. CASE enh' = enh
    BY <1>6, <2>2
  <2>3. CASE EveryN # 0 /\ Kept /\ \E n : enh' = [count |-> n, job |-> Last(seen).frame, done |-> FALSE, last |-> Collect]
    BY <1>7, <2>3 DEF FrameConstants
  <2>4. CASE \E n : enh' = [enh EXCEPT !.count = n]
    BY <1>5, <1>6, <2>4
  <2> QED BY <2>1, <2>2, <2>3, <2>4

\* The pieces of the segments keep standing for what they stood for.
LEMMA PiecesLast ==
    ASSUME FrameConstants, TypeOK, TypeOK', SeenGrows, SameFrames, WrittenRight, PiecesStand, PiecesFollow,
           enh'.last >= enh.last, enh.last \in Nat, enh'.last \in Nat
    PROVE  PiecesStand' /\ PiecesFollow'
<1>1. Len(segs) \in Nat /\ Len(segs') \in Nat /\ Len(seen) \in Nat /\ Len(seen') \in Nat
  BY Lengths, LengthsThen
<1>2. \A i \in 1..Len(segs') : \A n \in 1..Len(segs'[i].frames) :
         i \in 1..Len(segs) /\ n \in 1..Len(segs[i].frames) /\ segs'[i].frames[n] = segs[i].frames[n]
  <2> TAKE i \in 1..Len(segs')
  <2> TAKE n \in 1..Len(segs'[i].frames)
  <2>1. i \in 1..Len(segs)
    BY <1>1 DEF SameFrames
  <2> QED BY <2>1 DEF SameFrames
<1>3. PiecesFollow'
  <2> SUFFICES ASSUME NEW i \in 1..Len(segs'), NEW j \in 1..Len(segs'),
                      NEW m \in 1..Len(segs'[i].frames), NEW n \in 1..Len(segs'[j].frames),
                      i < j \/ (i = j /\ m < n)
               PROVE  Follows(segs'[i].frames[m], segs'[j].frames[n])
    BY DEF PiecesFollow, Follows
  <2>1. /\ i \in 1..Len(segs) /\ m \in 1..Len(segs[i].frames) /\ segs'[i].frames[m] = segs[i].frames[m]
        /\ j \in 1..Len(segs) /\ n \in 1..Len(segs[j].frames) /\ segs'[j].frames[n] = segs[j].frames[n]
    BY <1>2
  <2>2. Follows(segs[i].frames[m], segs[j].frames[n])
    BY <2>1 DEF PiecesFollow
  <2> QED BY <2>1, <2>2
<1>4. PiecesStand'
  <2> SUFFICES ASSUME NEW i \in 1..Len(segs'), NEW n \in 1..Len(segs'[i].frames)
               PROVE  Stands(segs[i].frames[n])'
    BY DEF PiecesStand
  <2>1. i \in 1..Len(segs) /\ n \in 1..Len(segs[i].frames) /\ segs'[i].frames[n] = segs[i].frames[n]
    BY <1>2
  <2>2. Stands(segs[i].frames[n]) /\ Written(i, n) \in 1..Offered /\ segs[i].frames[n] \in Piece
    BY <2>1, SegmentType DEF PiecesStand, WrittenRight
  <2>3. PICK q \in Piece : q = segs[i].frames[n]
    BY <2>2
  <2>4. q.frame \in 1..Len(seen)
    BY <1>1, <2>2, <2>3 DEF Written, Offered
  <2>5. q.picture \in Nat
    <3>1. q.picture \in Pictures
      BY DEF Piece
    <3> QED BY <3>1 DEF Pictures, NoBack, FrameConstants
  <2>6. Stands(q)'
    <3>1. CASE q.picture = q.frame
      BY <3>1 DEF Stands
    <3>2. CASE q.picture # q.frame
      <4>1. /\ EveryN > 0 /\ Warmup < q.picture /\ q.picture < q.frame
            /\ seen[q.picture].kept # {} /\ seen[q.frame].kept # {} /\ q.picture <= enh.last
        BY <2>2, <2>3, <3>2 DEF Stands
      <4>2. q.picture \in 1..Len(seen)
        BY <1>1, <2>4, <2>5, <4>1 DEF FrameConstants
      <4>3. seen'[q.picture] = seen[q.picture] /\ seen'[q.frame] = seen[q.frame]
        BY <2>4, <4>2 DEF SeenGrows
      <4>4. q.picture <= enh'.last
        BY <2>5, <4>1
      <4> QED BY <4>1, <4>3, <4>4 DEF Stands
    <3> QED BY <3>1, <3>2
  <2> QED BY <2>1, <2>3, <2>6 DEF Stands
<1> QED BY <1>3, <1>4

\* The picture that write_frame is given stands for the frame.
LEMMA PictureStands ==
    ASSUME FrameConstants, FrameInv, EnhInv, pc = "write"
    PROVE  LET q == [frame |-> Last(seen).frame, picture |-> Picture, back |-> bg]
           IN  Stands(q) /\ (q.picture # q.frame => q.picture = enh.last)
<1> DEFINE q == [frame |-> Last(seen).frame, picture |-> Picture, back |-> bg]
<1>1. TypeOK /\ SourceInv /\ WrittenInv
  BY DEF FrameInv
<1>2. Len(seen) \in Nat /\ Len(seen) >= 1 /\ Last(seen) = seen[Len(seen)] /\ Last(seen).frame = Len(seen)
  BY <1>1, Lengths DEF WrittenInv, Last, SourceInv
<1>3. enh.job \in Nat /\ enh.last \in Nat /\ Decided = Len(seen)
  BY <1>1, EnhNumbers DEF Decided
<1>4. CASE EveryN > 0 /\ Kept /\ enh.last # Black
  <2>1. Picture = enh.last
    BY <1>4 DEF Picture
  <2>2. enh.last < Len(seen)
    BY <1>2, <1>3, <1>4 DEF EnhInv, Black
  <2>3. Warmup < enh.last /\ seen[enh.last].kept # {}
    BY <1>4 DEF EnhInv, Enhanceable, Black
  <2>4. seen[Len(seen)].kept # {}
    BY <1>2, <1>4 DEF Kept
  <2> QED BY <1>2, <1>3, <1>4, <2>1, <2>2, <2>3, <2>4 DEF Stands
<1>5. CASE ~(EveryN > 0 /\ Kept /\ enh.last # Black)
  <2>1. Picture = Last(seen).frame
    BY <1>5 DEF Picture
  <2> QED BY <2>1 DEF Stands
<1> QED BY <1>4, <1>5

\* The piece that a write adds is the one given to it.
LEMMA WriteAdds ==
    ASSUME FrameConstants, FrameInv, TypeOK', Write
    PROVE  \E k \in Nat \ {0}, l \in Nat \ {0} :
             /\ k = Len(segs) /\ k = Len(segs')
             /\ segs'[k].frames[l] = [frame |-> Last(seen).frame, picture |-> Picture, back |-> bg]
             /\ \A i \in 1..k : \A n \in 1..Len(segs'[i].frames) :
                  \/ n \in 1..Len(segs[i].frames) /\ segs'[i].frames[n] = segs[i].frames[n]
                  \/ i = k /\ n = l
             /\ Len(segs'[k].frames) = l
<1> DEFINE k == Len(segs)
           l == Len(segs[k].frames) + 1
           q == [frame |-> Last(seen).frame, picture |-> Picture, back |-> bg]
           more == Append(Last(segs).frames, q)
           full == Len(more) >= SegmentFrames
           s == [state |-> IF full THEN "saved" ELSE "open", frames |-> more]
<1>1. TypeOK /\ CutInv /\ pc = "write"
  BY DEF FrameInv, Write
<1>2. segs \in Seq(Segment) /\ segs # <<>>
  BY <1>1 DEF TypeOK, CutInv, Open
<1>3. k \in Nat \ {0} /\ k \in 1..Len(segs) /\ Last(segs) = segs[k]
  BY <1>2 DEF Last
<1>4. segs[k].frames \in Seq(Piece) /\ Len(segs[k].frames) \in Nat
  BY <1>1, <1>3, SegmentType
<1>5. segs' = [segs EXCEPT ![k] = s]
  BY DEF Write
<1>13. s.frames = Append(Last(segs).frames, q)
  OBVIOUS
<1> HIDE DEF q, s
<1>6. Len(segs') = k /\ segs'[k] = s /\ \A i \in 1..k : i # k => segs'[i] = segs[i]
  BY <1>2, <1>3, <1>5
<1>7. segs'[k].frames = Append(segs[k].frames, q)
  BY <1>3, <1>6, <1>13
<1>11. PICK old \in Seq(Piece) : old = segs[k].frames
  BY <1>4
<1>12. segs'[k].frames = Append(old, q) /\ l = Len(old) + 1 /\ Len(old) \in Nat
  BY <1>4, <1>7, <1>11
<1>8. /\ Len(segs'[k].frames) = l /\ l \in Nat \ {0} /\ segs'[k].frames[l] = q
      /\ \A n \in 1..l : n = l \/ (n \in 1..Len(segs[k].frames) /\ segs'[k].frames[n] = segs[k].frames[n])
  <2>1. Len(Append(old, q)) = Len(old) + 1 /\ Append(old, q)[Len(old) + 1] = q
        /\ \A n \in 1..Len(old) : Append(old, q)[n] = old[n]
    BY <1>11, <1>12
  <2>2. \A n \in 1..(Len(old) + 1) : n = Len(old) + 1 \/ n \in 1..Len(old)
    BY <1>12
  <2> QED BY <1>11, <1>12, <2>1, <2>2
<1>9. \A i \in 1..k : \A n \in 1..Len(segs'[i].frames) :
         \/ n \in 1..Len(segs[i].frames) /\ segs'[i].frames[n] = segs[i].frames[n]
         \/ i = k /\ n = l
  BY <1>6, <1>8
<1>10. k = Len(segs)
  OBVIOUS
<1> HIDE DEF k, l
<1> QED BY <1>3, <1>6, <1>8, <1>9, <1>10 DEF q

\* So does the piece that a write adds.
LEMMA WriteStands ==
    ASSUME FrameConstants, FrameInv, PictureInv, TypeOK', Write
    PROVE  PictureInv'
<1>1. TypeOK /\ SourceInv /\ WrittenInv /\ EnhInv
  BY DEF FrameInv, PictureInv
<1>2. pc = "write" /\ pc' = "top" /\ seen' = seen /\ enh' = enh
  BY DEF Write
<1>3. EnhInv'
  <2>1. Decided' = Decided
    BY <1>2 DEF Decided
  <2> QED BY <1>1, <1>2, <2>1 DEF EnhInv, Enhanceable
<1>4. PICK k \in Nat \ {0}, l \in Nat \ {0} :
         /\ k = Len(segs) /\ k = Len(segs')
         /\ segs'[k].frames[l] = [frame |-> Last(seen).frame, picture |-> Picture, back |-> bg]
         /\ \A i \in 1..k : \A n \in 1..Len(segs'[i].frames) :
              \/ n \in 1..Len(segs[i].frames) /\ segs'[i].frames[n] = segs[i].frames[n]
              \/ i = k /\ n = l
         /\ Len(segs'[k].frames) = l
  BY WriteAdds
<1>5. /\ Stands(segs'[k].frames[l])
      /\ segs'[k].frames[l].picture # segs'[k].frames[l].frame => segs'[k].frames[l].picture = enh.last
  BY <1>1, <1>2, <1>4, PictureStands
<1>6. \A q : Stands(q)' <=> Stands(q)
  BY <1>2 DEF Stands
<1>7. PiecesStand'
  <2> SUFFICES ASSUME NEW i \in 1..k, NEW n \in 1..Len(segs'[i].frames)
               PROVE  Stands(segs[i].frames[n])'
    BY <1>4 DEF PiecesStand
  <2>1. Stands(segs'[i].frames[n])
    BY <1>4, <1>5 DEF PictureInv, PiecesStand
  <2> QED BY <1>2, <2>1 DEF Stands
<1>8. PiecesFollow'
  <2> SUFFICES ASSUME NEW i \in 1..k, NEW j \in 1..k,
                      NEW m \in 1..Len(segs'[i].frames), NEW n \in 1..Len(segs'[j].frames),
                      i < j \/ (i = j /\ m < n)
               PROVE  Follows(segs'[i].frames[m], segs'[j].frames[n])
    BY <1>4 DEF PiecesFollow, Follows
  <2>1. m \in 1..Len(segs[i].frames) /\ segs'[i].frames[m] = segs[i].frames[m]
    <3>1. CASE i = k /\ m = l
      <4>1. j = k /\ l < n /\ n <= l
        BY <1>4, <3>1
      <4> QED BY <1>4, <4>1
    <3> QED BY <1>4, <3>1
  <2>2. CASE n \in 1..Len(segs[j].frames) /\ segs'[j].frames[n] = segs[j].frames[n]
    BY <1>4, <2>1, <2>2 DEF PictureInv, PiecesFollow
  <2>3. CASE j = k /\ n = l
    <3>1. Stands(segs[i].frames[m])
      BY <1>4, <2>1 DEF PictureInv, PiecesStand
    <3> QED BY <1>5, <2>1, <2>3, <3>1 DEF Stands, Follows
  <2> QED BY <1>4, <2>2, <2>3
<1> QED BY <1>3, <1>7, <1>8 DEF PictureInv

\* No other step writes a piece.
LEMMA PicturesStay ==
    ASSUME FrameConstants, FrameInv, FrameInv', PictureInv, [Next]_vars, ~Write
    PROVE  PictureInv'
<1>1. TypeOK /\ TypeOK' /\ WrittenInv /\ EnhInv /\ PiecesStand /\ PiecesFollow
  BY DEF FrameInv, PictureInv
<1>2. Len(seen) \in Nat /\ Len(segs) \in Nat /\ segs \in Seq(Segment) /\ seen \in Seq(Shown)
  BY <1>1, Lengths DEF TypeOK
<1>3. SeenGrows
  <2>1. CASE ReadOpenCV \/ ReadFFmpeg
    <3>1. PICK s : seen' = Append(seen, s)
      BY <2>1, ReadTakesNext
    <3> QED BY <1>2, <3>1 DEF SeenGrows
  <2>2. CASE ~(ReadOpenCV \/ ReadFFmpeg)
    <3>1. seen' = seen
      BY <2>2 DEF Next, ReaderStep, LoopStep, vars, Fill, Publish, ReaderStops, Wedge, Unwedge, LoopTop, EndOfSource,
                  WarmFrame, Decide, OpenSegment, Write, WriteStopped, Final, Release, Close, EnhanceDone, RequestStop
    <3> QED BY <1>2, <3>1 DEF SeenGrows
  <2> QED BY <2>1, <2>2
<1>4. SameFrames
  <2>1. CASE OpenSegment
    <3>1. segs' = segs \/ segs' = Append(segs, [state |-> "open", frames |-> <<>>])
      BY <2>1 DEF OpenSegment
    <3> QED BY <1>2, <3>1 DEF SameFrames
  <2>2. CASE Final
    <3>1. segs' = segs \/ (segs # <<>> /\ \E st \in {"aborted", "saved"} : segs' = [segs EXCEPT ![Len(segs)].state = st])
      BY <2>2 DEF Final, CloseAll, Open
    <3>2. CASE segs' = segs
      BY <1>2, <3>2 DEF SameFrames
    <3>3. ASSUME segs # <<>>, NEW st \in {"aborted", "saved"}, segs' = [segs EXCEPT ![Len(segs)].state = st]
          PROVE  SameFrames
      <4>1. Len(segs) \in 1..Len(segs) /\ segs[Len(segs)] \in Segment
        BY <1>2, <3>3
      <4>2. Len(segs') = Len(segs) /\ \A i \in 1..Len(segs) : i # Len(segs) => segs'[i] = segs[i]
        BY <1>2, <3>3
      <4>3. segs'[Len(segs)] = [segs[Len(segs)] EXCEPT !.state = st]
        BY <1>2, <3>3, <4>1
      <4>4. segs'[Len(segs)].frames = segs[Len(segs)].frames
        BY <4>1, <4>3 DEF Segment
      <4> QED BY <1>2, <4>2, <4>4 DEF SameFrames
    <3> QED BY <3>1, <3>2, <3>3
  <2>3. CASE ~(OpenSegment \/ Final)
    <3>1. segs' = segs
      BY <2>3 DEF Next, ReaderStep, LoopStep, vars, Fill, Publish, ReaderStops, Wedge, Unwedge, LoopTop, EndOfSource,
                  ReadOpenCV, ReadFFmpeg, WarmFrame, Decide, WriteStopped, Release, Close, EnhanceDone, RequestStop
    <3> QED BY <1>2, <3>1 DEF SameFrames
  <2> QED BY <2>1, <2>2, <2>3
<1>5. EnhInv' /\ enh'.last >= enh.last
  <2>1. CASE Decide
    BY <1>1, <2>1, EnhDecides
  <2>2. CASE ~Decide
    <3>1. enh'.job = enh.job /\ enh'.last = enh.last
      <4>1. enh \in [count : Nat, job : Pictures, done : BOOLEAN, last : Pictures]
        BY <1>1 DEF TypeOK
      <4>2. enh' = enh \/ enh' = [enh EXCEPT !.done = TRUE]
        BY <2>2 DEF Next, ReaderStep, LoopStep, vars, Fill, Publish, ReaderStops, Wedge, Unwedge, LoopTop, EndOfSource,
                    ReadOpenCV, ReadFFmpeg, WarmFrame, OpenSegment, WriteStopped, Final, Release, Close,
                    EnhanceDone, RequestStop
      <4> QED BY <4>1, <4>2
    <3>2. Decided' \in Int /\ Decided' >= Decided
      <4>1. Len(seen') \in Nat
        BY <1>1, LengthsThen
      <4>2. CASE ReadOpenCV \/ ReadFFmpeg
        <5>1. pc = "reading" /\ pc' = "frame" /\ \E s : seen' = Append(seen, s)
          BY <4>2, ReadTakesNext DEF ReadOpenCV, ReadFFmpeg
        <5>2. Len(seen') = Len(seen) + 1
          BY <1>2, <5>1
        <5> QED BY <1>2, <4>1, <5>1, <5>2 DEF Decided
      <4>3. CASE ~(ReadOpenCV \/ ReadFFmpeg)
        <5>1. seen' = seen /\ (pc' = "frame" => pc = "frame")
          BY <2>2, <4>3 DEF Next, ReaderStep, LoopStep, vars, Fill, Publish, ReaderStops, Wedge, Unwedge, LoopTop,
                  EndOfSource, WarmFrame, OpenSegment, Write, WriteStopped, Final, Release, Close, EnhanceDone, RequestStop
        <5> QED BY <1>2, <5>1 DEF Decided
      <4> QED BY <4>2, <4>3
    <3>3. enh.last \in Nat
      BY <1>1, EnhNumbers
    <3> QED BY <1>1, <1>3, <3>1, <3>2, <3>3, EnhStays
  <2> QED BY <2>1, <2>2
<1>6. enh.last \in Nat /\ enh'.last \in Nat
  <2>1. enh.last \in Pictures /\ enh'.last \in Pictures
    BY <1>1 DEF TypeOK
  <2> QED BY <2>1 DEF Pictures, NoBack, FrameConstants
<1>7. PiecesStand' /\ PiecesFollow'
  BY <1>1, <1>3, <1>4, <1>5, <1>6, PiecesLast DEF WrittenInv
<1> QED BY <1>5, <1>7 DEF PictureInv

\* Nothing is enhanced before the first frame.
LEMMA PicturesStart == FrameConstants /\ Init => PictureInv
  BY DEF Init, PictureInv, EnhInv, PiecesStand, PiecesFollow, Enhanceable, Decided, Black

\* What the segments show is what the property says of it.
LEMMA PicturesAsSaid == FrameInv /\ PictureInv => PicturesTold
<1> SUFFICES ASSUME FrameInv, PictureInv PROVE PicturesTold
  OBVIOUS
<1>1. TypeOK
  BY DEF FrameInv
<1>2. DOMAIN segs = 1..Len(segs) /\ \A i \in 1..Len(segs) : DOMAIN segs[i].frames = 1..Len(segs[i].frames)
  BY <1>1, SegmentType DEF TypeOK
<1>3. \A i \in DOMAIN segs : \A n \in DOMAIN segs[i].frames : Enhanced(i, n) =>
         LET p == segs[i].frames[n].picture
         IN  /\ EveryN > 0 /\ Warmup < p /\ p < Written(i, n)
             /\ seen[p].kept # {} /\ seen[Written(i, n)].kept # {}
  BY <1>2 DEF PictureInv, PiecesStand, Stands, Enhanced, Written
<1>4. \A i, j \in DOMAIN segs : \A m \in DOMAIN segs[i].frames, n \in DOMAIN segs[j].frames :
         (i < j \/ (i = j /\ m < n)) /\ Enhanced(i, m) /\ Enhanced(j, n)
            => segs[i].frames[m].picture <= segs[j].frames[n].picture
  BY <1>2 DEF PictureInv, PiecesFollow, Follows, Enhanced, Written
<1> QED BY <1>3, <1>4 DEF PicturesTold
-----------------------------------------------------------------------------
\* The invariant says what the properties of the run say.
LEMMA FramesAsSaid == FrameInv /\ PictureInv => EncodedAndCut /\ BackgroundClear
<1> SUFFICES ASSUME FrameInv, PictureInv PROVE EncodedAndCut /\ BackgroundClear
  OBVIOUS
<1>1. TypeOK /\ SourceInv /\ ClearInv /\ CutInv /\ WrittenInv
  BY DEF FrameInv
<1>2. seen \in Seq(Shown) /\ segs \in Seq(Segment) /\ Len(seen) \in Nat /\ Len(segs) \in Nat
  BY <1>1, Lengths DEF TypeOK
<1>3. DOMAIN seen = 1..Len(seen) /\ DOMAIN segs = 1..Len(segs)
  BY <1>2
<1>4. \A i \in 1..Len(segs) : DOMAIN segs[i].frames = 1..Len(segs[i].frames)
  BY <1>1, SegmentType
<1>5. Offered \in Int /\ Offered <= Len(seen) /\ (pc \in {"top", "reading"} => Offered = Len(seen))
  BY <1>2 DEF Offered
<1>6. EncodedExactly
  <2>1. \A f \in DOMAIN seen : seen[f].frame = f
    BY <1>1, <1>3 DEF SourceInv
  <2>2. \A i \in DOMAIN segs : \A n \in DOMAIN segs[i].frames :
           Written(i, n) \in DOMAIN seen /\ Wanted(Written(i, n))
    <3> TAKE i \in DOMAIN segs
    <3> TAKE n \in DOMAIN segs[i].frames
    <3>1. Written(i, n) \in 1..Offered /\ Wanted(Written(i, n))
      BY <1>1, <1>3, <1>4 DEF WrittenInv, WrittenRight
    <3>2. Written(i, n) \in 1..Len(seen)
      BY <1>2, <1>5, <3>1
    <3> QED BY <1>3, <3>1, <3>2
  <2>3. \A i, j \in DOMAIN segs : \A m \in DOMAIN segs[i].frames, n \in DOMAIN segs[j].frames :
           (i < j \/ (i = j /\ m < n)) => Written(i, m) < Written(j, n)
    BY <1>1, <1>3, <1>4 DEF WrittenInv, WrittenInOrder
  <2>4. pc \in {"top", "reading"} =>
          \A f \in DOMAIN seen : Wanted(f) =>
             \E i \in DOMAIN segs : \E n \in DOMAIN segs[i].frames : Written(i, n) = f
    BY <1>1, <1>3, <1>4, <1>5 DEF WrittenInv, IsWritten
  <2> QED BY <2>1, <2>2, <2>3, <2>4 DEF EncodedExactly
<1>7. SegmentsFull
  BY <1>1, <1>3 DEF SegmentsFull, CutInv
<1>8. PicturesTold
  BY PicturesAsSaid
<1> QED BY <1>1, <1>6, <1>7, <1>8 DEF EncodedAndCut, ClearInv

\* The invariant holds of every run of the frame loop (run_pipeline).
THEOREM FramesIsInductive == FrameConstants => (Spec => [](FrameInv /\ PictureInv))
<1> SUFFICES ASSUME FrameConstants PROVE Spec => [](FrameInv /\ PictureInv)
  OBVIOUS
<1>1. Init => FrameInv /\ PictureInv
  BY FramesStart, PicturesStart
<1>2. FrameInv /\ PictureInv /\ [Next]_vars => (FrameInv /\ PictureInv)'
  <2> SUFFICES ASSUME FrameInv, PictureInv, [Next]_vars PROVE FrameInv' /\ PictureInv'
    OBVIOUS
  <2>1. FrameInv' /\ TypeOK'
    BY FrameSteps DEF FrameInv
  <2> QED BY <2>1, WriteStands, PicturesStay
<1> QED BY <1>1, <1>2, PTL DEF Spec

\* Every frame that was read and that the mode wants is encoded, once and in order, whichever
\* decoder reads it; its picture is its own, or with enhancement that of an earlier frame with
\* regions, never one before the last that was shown; and every segment but the last has its
\* full length (EncodedAndCut).
THEOREM WantedFramesAreEncoded == FrameConstants => (Spec => []EncodedAndCut)
<1> SUFFICES ASSUME FrameConstants PROVE Spec => []EncodedAndCut
  OBVIOUS
<1>1. FrameInv /\ PictureInv => EncodedAndCut
  BY FramesAsSaid
<1> QED BY <1>1, FramesIsInductive, PTL

\* A background of mode 2 is a frame without an object, in a gap that is long enough and past
\* the quarantine (BackgroundClear).
THEOREM BackgroundsAreClear == FrameConstants => (Spec => []BackgroundClear)
<1> SUFFICES ASSUME FrameConstants PROVE Spec => []BackgroundClear
  OBVIOUS
<1>1. FrameInv /\ PictureInv => BackgroundClear
  BY FramesAsSaid
<1> QED BY <1>1, FramesIsInductive, PTL
=============================================================================
