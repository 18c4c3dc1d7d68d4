----------------------------- MODULE UploadProofs -----------------------------
(***************************************************************************)
(* Proofs about Upload: until a chunk is stored between the hash and the   *)
(* move of a finish, the .part file of an upload that can be resumed is a  *)
(* prefix of the file; and every step of the upload is one of              *)
(* UploadPromise or changes nothing there.                                 *)
(***************************************************************************)
EXTENDS Upload, TLAPS

(* The inductive invariant.                                                  *)

\* What the engine's next reply answers.
Asked == IF phase = "begin" THEN "begin"
         ELSE IF phase \in {"resume", "ask"} THEN "status"
         ELSE IF phase = "send" /\ offset < Size THEN "chunk" ELSE "finish"

\* Nobody knows the id of an upload that has not begun, and nothing is stored for it.
KnownHere ==
    /\ checkpoint <= begun /\ id <= begun
    /\ phase \in {"resume", "send", "ask"} => id # 0
    /\ work = "running" => phase # "none"
KnownThere ==
    /\ \A c \in Calls : call[c].op \in {"status", "chunk", "finish"} => call[c].id <= begun
    /\ \A i \in meta : i <= begun
    /\ \A i \in Ids : i > begun => part[i] = <<>>

\* A chunk carries the block at its offset, or a damaged one.
Blocks == \A c \in Calls : call[c].op = "chunk" => call[c].block \in {call[c].offset + 1, 0}

\* Who is in the critical section of an upload that still exists holds its lock, alone, and
\* the size it has read is the size there is, or the whole one, at which nothing is appended:
\* a finish moves the .part from under it only when that is whole.
Locked ==
    \A c \in Calls :
        At(c, "chunk", "locked") /\ call[c].id \in meta =>
            /\ call[c].epoch = epoch[call[c].id]
            /\ stray \/ call[c].current \in {Len(part[call[c].id]), Size}
            /\ \A d \in Calls : At(d, "chunk", "locked") /\ call[d].id = call[c].id => d = c

\* What was hashed is the file, until it is moved or swept or a chunk comes in between; what
\* was moved has landed.
Hashed == \A c \in Calls :
             At(c, "finish", "hashed") => stray \/ part[call[c].id] \in {Whole, <<>>}
Moved  == \A c \in Calls : At(c, "finish", "moved") => landed # {}
LandedWhole == stray \/ landed \in {{}, {Whole}}

\* The engine waits only while it runs, and for the answer to its own question.
Waits ==
    /\ waiting # NoCall => work = "running" /\ reply = NoReply /\ call[waiting].op = Asked
    /\ reply # NoReply => work = "running"

\* The answer "ok" means what the question asked for.
Replies ==
    reply.tag = "ok" =>
        /\ Asked = "begin" => reply.id \in 1..begun
        /\ Asked \in {"status", "chunk"} => reply.offset \in Nat
        /\ Asked = "finish" => landed # {}

Serving == Blocks /\ Locked /\ PartIsPrefix /\ Hashed /\ Moved /\ LandedWhole
IInv    == TypeOK /\ KnownHere /\ KnownThere /\ Serving /\ Waits /\ Replies

-----------------------------------------------------------------------------
(* Initially *)

LEMMA InitInv == Init => IInv
<1> SUFFICES ASSUME Init PROVE IInv
  OBVIOUS
<1> USE SizeAssumption, BoundAssumption DEF Init
<1>1. TypeOK
  <2>1. MaxIds \in Nat
    BY DEF MaxIds
  <2>2. <<>> \in Seq(Nat)
    OBVIOUS
  <2>3. NoReply \in Answers /\ Free \in CallRecords
    BY DEF NoReply, Free, Answers, CallRecords
  <2>4. call \in [Calls -> CallRecords] /\ part \in [Ids -> Seq(Nat)]
    BY <2>2, <2>3
  <2>5. /\ checkpoint \in 0..MaxIds /\ id \in 0..MaxIds /\ begun \in 0..MaxIds
        /\ epoch \in [Ids -> Nat]
    BY <2>1
  <2>6. waiting \in Calls \union {NoCall} /\ reply \in Answers
    BY <2>3
  <2> QED BY <2>4, <2>5, <2>6 DEF TypeOK
<1>2. KnownHere /\ KnownThere
  BY DEF KnownHere, KnownThere, Free, Ids
<1>3. Serving
  BY DEF Serving, Blocks, Locked, PartIsPrefix, Hashed, Moved, LandedWhole, At, Free
<1>4. Waits /\ Replies
  BY DEF Waits, Replies, NoReply
<1> QED BY <1>1, <1>2, <1>3, <1>4 DEF IInv

-----------------------------------------------------------------------------
(* The server *)

\* A request that stays, a reply that goes.
LEMMA AdvanceType ==
    ASSUME TypeOK, NEW c \in Calls, NEW at, call[c].op = "finish",
           at \in {"sized", "hashed", "moved"}, Advance(c, at)
    PROVE  /\ call' \in [Calls -> CallRecords]
           /\ \A d \in Calls : d # c => call'[d] = call[d]
           /\ call'[c].op = "finish" /\ call'[c].at = at /\ call'[c].id = call[c].id
<1>1. call[c] \in CallRecords
  BY DEF TypeOK
<1>2. call[c] \in [op : {"finish"}, at : {"sent", "sized", "hashed", "moved"}, id : Ids]
  BY <1>1 DEF CallRecords
<1>3. [call[c] EXCEPT !.at = at] \in [op : {"finish"}, at : {"sent", "sized", "hashed", "moved"}, id : Ids]
  BY <1>2
<1>4. [call[c] EXCEPT !.at = at] \in CallRecords
  BY <1>3 DEF CallRecords
<1>5. call' = [call EXCEPT ![c] = [call[c] EXCEPT !.at = at]]
  BY DEF Advance
<1> QED BY <1>2, <1>4, <1>5 DEF TypeOK

LEMMA RespondType ==
    ASSUME TypeOK, NEW c \in Calls, NEW answer \in Answers, Respond(c, answer)
    PROVE  /\ call' \in [Calls -> CallRecords]
           /\ \A d \in Calls : d # c => call'[d] = call[d]
           /\ call'[c] = Free
           /\ waiting' \in Calls \union {NoCall} /\ reply' \in Answers
<1>1. Free \in CallRecords
  BY DEF Free, CallRecords
<1> QED BY <1>1 DEF Respond, TypeOK, wire

\* The engine's own question was answered, or somebody else's.
LEMMA RespondWaits ==
    ASSUME TypeOK, Waits, NEW c \in Calls, NEW answer \in Answers, Respond(c, answer),
           UNCHANGED <<phoneDisk, engine>>
    PROVE  Waits'
<1>1. Asked' = Asked
  BY DEF Asked, engine
<1>2. CASE waiting = c
  BY <1>2, BoundAssumption DEF Waits, Respond, phoneDisk
<1>3. CASE waiting # c
  BY <1>1, <1>3, RespondType DEF Waits, Respond, phoneDisk, wire, TypeOK
<1> QED BY <1>2, <1>3

LEMMA RespondReplies ==
    ASSUME TypeOK, Waits, Replies, NEW c \in Calls, NEW answer \in Answers, Respond(c, answer),
           UNCHANGED <<phoneDisk, engine>>,
           begun' \in {begun, begun + 1}, landed # {} => landed' # {},
           answer.tag = "ok" => /\ call[c].op = "begin" => answer.id \in 1..begun'
                                /\ call[c].op \in {"status", "chunk"} => answer.offset \in Nat
                                /\ call[c].op = "finish" => landed' # {}
    PROVE  Replies'
<1>1. Asked' = Asked
  BY DEF Asked, engine
<1>2. CASE waiting = c
  <2>1. call[c].op = Asked /\ reply' = answer
    BY <1>2, BoundAssumption DEF Waits, Respond
  <2> QED BY <1>1, <2>1 DEF Replies
<1>3. CASE waiting # c
  <2>1. reply' = reply
    BY <1>3 DEF Respond, wire
  <2>2. begun \in Nat
    BY DEF TypeOK
  <2> QED BY <1>1, <2>1, <2>2 DEF Replies
<1> QED BY <1>2, <1>3

LEMMA BoundType == MaxIds \in Nat /\ Ids \subseteq Nat /\ Size \in Nat \ {0} /\ NoCall \notin Calls
BY SizeAssumption, BoundAssumption DEF MaxIds, Ids

\* A step that only takes calls away, removes uploads or adds an empty one keeps what is so
\* of the calls and the files that are left.
LEMMA FewerServing ==
    ASSUME TypeOK, KnownThere, Serving,
           \A d \in Calls : call'[d] = call[d] \/ call'[d] = Free,
           meta' \subseteq Ids,
           \A i \in meta' : \/ i \in meta /\ part'[i] = part[i] /\ epoch'[i] = epoch[i]
                            \/ i > begun /\ part'[i] = <<>>,
           \A i \in Ids : part'[i] \in {part[i], <<>>},
           landed' = landed, stray' = stray
    PROVE  Serving'
<1>0. \A d \in Calls : call'[d].op # "none" => call'[d] = call[d]
  BY DEF Free
<1>1. Blocks'
  BY <1>0 DEF Serving, Blocks
<1>2. \A d \in Calls : call[d].op \in {"chunk", "finish"} => call[d].id \in Ids /\ call[d].id <= begun
  BY DEF TypeOK, CallRecords, KnownThere
<1>3. Locked'
  <2> SUFFICES ASSUME NEW d \in Calls, At(d, "chunk", "locked")', call'[d].id \in meta'
               PROVE  /\ call'[d].epoch = epoch'[call'[d].id]
                      /\ stray' \/ call'[d].current \in {Len(part'[call'[d].id]), Size}
                      /\ \A e \in Calls : At(e, "chunk", "locked")' /\ call'[e].id = call'[d].id => e = d
    BY DEF Locked
  <2>1. call'[d] = call[d] /\ At(d, "chunk", "locked")
    BY <1>0 DEF At
  <2>2. call[d].id \in Nat /\ begun \in Nat /\ call[d].id <= begun
    <3>1. call[d].op = "chunk"
      BY <2>1 DEF At
    <3>2. begun \in Nat
      BY BoundType DEF TypeOK
    <3> QED BY <1>2, <3>1, <3>2, BoundType
  <2>3. call[d].id \in meta /\ part'[call[d].id] = part[call[d].id] /\ epoch'[call[d].id] = epoch[call[d].id]
    BY <2>1, <2>2
  <2>4. \A e \in Calls : At(e, "chunk", "locked")' => At(e, "chunk", "locked") /\ call'[e] = call[e]
    BY <1>0 DEF At
  <2> QED BY <2>1, <2>3, <2>4 DEF Serving, Locked
<1>4. PartIsPrefix'
  BY BoundType DEF Serving, PartIsPrefix
<1>5. Hashed' /\ Moved' /\ LandedWhole'
  BY <1>0, <1>2 DEF Serving, Hashed, Moved, LandedWhole, At
<1> QED BY <1>1, <1>3, <1>4, <1>5 DEF Serving

LEMMA FewerKnown ==
    ASSUME TypeOK, KnownThere, begun' \in Nat, begun' >= begun,
           \A d \in Calls : call'[d] = call[d] \/ call'[d] = Free,
           \A i \in meta' : i \in meta \/ i <= begun',
           \A i \in Ids : part'[i] \in {part[i], <<>>}
    PROVE  KnownThere'
<1>1. \A d \in Calls : call'[d].op # "none" => call'[d] = call[d]
  BY DEF Free
<1>2. \A d \in Calls : call[d].op \in {"status", "chunk", "finish"} => call[d].id \in Nat
  BY BoundType DEF TypeOK, CallRecords
<1>3. \A i \in meta : i \in Nat
  BY BoundType DEF TypeOK
<1>4. begun \in Nat /\ Ids \subseteq Nat
  BY BoundType DEF TypeOK
<1>5. \A d \in Calls : call'[d].op \in {"status", "chunk", "finish"} => call'[d].id <= begun'
  BY <1>1, <1>2, <1>4 DEF KnownThere
<1>6. \A i \in meta' : i <= begun'
  BY <1>3, <1>4 DEF KnownThere
<1>7. \A i \in Ids : i > begun' => part'[i] = <<>>
  BY <1>4 DEF KnownThere
<1> QED BY <1>5, <1>6, <1>7 DEF KnownThere

LEMMA SweepType ==
    ASSUME TypeOK, NEW stale \in SUBSET meta, SweepStale(stale)
    PROVE  /\ part' \in [Ids -> Seq(Nat)] /\ epoch' \in [Ids -> Nat] /\ faults' \in Nat
           /\ \A i \in Ids : /\ i \notin stale => part'[i] = part[i] /\ epoch'[i] = epoch[i]
                             /\ i \in stale => part'[i] = <<>>
<1>1. <<>> \in Seq(Nat)
  OBVIOUS
<1>2. faults' \in Nat
  BY DEF SweepStale, TypeOK, Fault
<1> QED BY <1>1, <1>2 DEF SweepStale, TypeOK

LEMMA ServeBeginInv ==
    ASSUME IInv, NEW c \in Calls, ServeBegin(c)
    PROVE  IInv'
<1> USE DEF IInv
<1> DEFINE answer == [tag |-> "ok", id |-> begun + 1]
<1>0. /\ begun' = begun + 1 /\ begun < MaxIds /\ landed' = landed /\ stray' = stray
      /\ call[c].op = "begin" /\ Respond(c, answer)
      /\ UNCHANGED <<phoneDisk, engine>>
  BY DEF ServeBegin, At
<1>1. PICK stale \in SUBSET meta : SweepStale(stale) /\ meta' = (meta \ stale) \union {begun + 1}
  BY DEF ServeBegin
<1>2. begun \in Nat /\ begun' \in Ids /\ meta \subseteq Ids
  BY <1>0, BoundType DEF TypeOK, Ids
<1>3. answer \in Answers
  BY <1>0, <1>2 DEF Answers
<1>4. /\ call' \in [Calls -> CallRecords] /\ call'[c] = Free
      /\ \A d \in Calls : d # c => call'[d] = call[d]
      /\ waiting' \in Calls \union {NoCall} /\ reply' \in Answers
  BY <1>0, <1>3, RespondType
<1>5. /\ part' \in [Ids -> Seq(Nat)] /\ epoch' \in [Ids -> Nat] /\ faults' \in Nat
      /\ \A i \in Ids : /\ i \notin stale => part'[i] = part[i] /\ epoch'[i] = epoch[i]
                        /\ i \in stale => part'[i] = <<>>
  BY <1>1, SweepType
<1>6. TypeOK'
  BY <1>0, <1>1, <1>2, <1>4, <1>5 DEF TypeOK, phoneDisk, engine, Ids
<1>7. KnownHere'
  <2>1. checkpoint \in Nat /\ id \in Nat
    BY BoundType DEF TypeOK
  <2> QED BY <1>0, <1>2, <2>1 DEF KnownHere, phoneDisk, engine
<1>8. part'[begun + 1] = <<>> /\ begun + 1 \notin stale
  <2>1. begun + 1 \in Ids /\ begun + 1 > begun /\ ~(begun + 1 <= begun)
    BY <1>0, <1>2
  <2>2. part[begun + 1] = <<>> /\ begun + 1 \notin stale
    BY <2>1 DEF KnownThere
  <2> QED BY <1>5, <2>1, <2>2
<1>9. \A i \in Ids : part'[i] \in {part[i], <<>>}
  BY <1>5
<1>10. \A i \in meta' : \/ i \in meta /\ part'[i] = part[i] /\ epoch'[i] = epoch[i]
                        \/ i > begun /\ part'[i] = <<>>
  BY <1>1, <1>2, <1>5, <1>8
<1>11. Serving'
  BY <1>0, <1>4, <1>6, <1>9, <1>10, FewerServing DEF TypeOK
<1>12. KnownThere'
  BY <1>0, <1>1, <1>2, <1>4, <1>9, FewerKnown
<1>13. Waits'
  BY <1>0, <1>3, RespondWaits
<1>14. Replies'
  BY <1>0, <1>2, <1>3, RespondReplies, BoundType
<1> QED BY <1>6, <1>7, <1>11, <1>12, <1>13, <1>14

LEMMA OtherBeginInv ==
    ASSUME IInv, OtherBegin
    PROVE  IInv'
<1> USE DEF IInv
<1>1. PICK stale \in SUBSET meta : SweepStale(stale) /\ meta' = meta \ stale
  BY DEF OtherBegin
<1>2. UNCHANGED <<begun, landed, stray, wire, call, phoneDisk, engine>>
  BY DEF OtherBegin
<1>3. /\ part' \in [Ids -> Seq(Nat)] /\ epoch' \in [Ids -> Nat] /\ faults' \in Nat
      /\ \A i \in Ids : /\ i \notin stale => part'[i] = part[i] /\ epoch'[i] = epoch[i]
                        /\ i \in stale => part'[i] = <<>>
  BY <1>1, SweepType
<1>4. TypeOK'
  BY <1>1, <1>2, <1>3 DEF TypeOK, phoneDisk, engine, wire
<1>5. KnownHere' /\ Waits' /\ Replies'
  BY <1>2 DEF KnownHere, Waits, Replies, Asked, phoneDisk, engine, wire
<1>6. Serving'
  BY <1>1, <1>2, <1>3, <1>4, FewerServing DEF TypeOK
<1>7. KnownThere'
  BY <1>1, <1>2, <1>3, FewerKnown DEF TypeOK
<1> QED BY <1>4, <1>5, <1>6, <1>7

\* A finish goes on.  When it takes the .part away, that is whole, so that whoever is in the
\* critical section of the upload appends nothing, or a chunk has already come in between.
LEMMA AdvanceInv ==
    ASSUME IInv, NEW c \in Calls, NEW at \in {"sized", "hashed", "moved"},
           call[c].op = "finish", Advance(c, at),
           UNCHANGED <<wire, begun, meta, epoch, stray, phoneDisk, engine, faults>>,
           part' \in [Ids -> Seq(Nat)],
           \A i \in Ids : part'[i] \in {part[i], <<>>},
           \A i \in Ids : i # call[c].id => part'[i] = part[i],
           part' = part \/ stray \/ Len(part[call[c].id]) = Size,
           landed' \subseteq Seq(Nat), landed \subseteq landed',
           stray \/ landed' \in {landed, {Whole}},
           at = "hashed" => part[call[c].id] = Whole,
           at = "moved" => landed' # {}
    PROVE  IInv'
<1> USE DEF IInv
<1>1. /\ call' \in [Calls -> CallRecords]
      /\ \A d \in Calls : d # c => call'[d] = call[d]
      /\ call'[c].op = "finish" /\ call'[c].at = at /\ call'[c].id = call[c].id
  BY AdvanceType
<1>2. TypeOK'
  BY <1>1 DEF TypeOK, phoneDisk, engine, wire
<1>3. KnownHere'
  BY DEF KnownHere, phoneDisk, engine
<1>4. \A d \in Calls : call'[d].op = call[d].op
  BY <1>1
<1>5. KnownThere'
  <2>1. \A d \in Calls : call'[d].op \in {"status", "chunk", "finish"} =>
            call[d].op \in {"status", "chunk", "finish"} /\ call'[d].id = call[d].id
    BY <1>1
  <2> QED BY <2>1 DEF KnownThere
<1>6. \A d \in Calls : call'[d].op = "chunk" => d # c /\ call'[d] = call[d]
  BY <1>1
<1>7. Blocks' /\ Locked'
  <2>1. Blocks'
    BY <1>6 DEF Serving, Blocks
  <2>2. SUFFICES ASSUME NEW d \in Calls, At(d, "chunk", "locked")', call'[d].id \in meta'
                 PROVE  /\ call'[d].epoch = epoch'[call'[d].id]
                        /\ stray' \/ call'[d].current \in {Len(part'[call'[d].id]), Size}
                        /\ \A e \in Calls : At(e, "chunk", "locked")' /\ call'[e].id = call'[d].id => e = d
    BY <2>1 DEF Locked
  <2>3. \A e \in Calls : At(e, "chunk", "locked")' => At(e, "chunk", "locked") /\ call'[e] = call[e]
    BY <1>6 DEF At
  <2>4. /\ call[d].id \in meta /\ call[d].epoch = epoch[call[d].id]
        /\ stray \/ call[d].current \in {Len(part[call[d].id]), Size}
        /\ \A e \in Calls : At(e, "chunk", "locked") /\ call[e].id = call[d].id => e = d
    BY <2>2, <2>3 DEF Serving, Locked
  <2>5. call[d].id \in Ids
    BY <2>4 DEF TypeOK
  <2>6. stray \/ call[d].current \in {Len(part'[call[d].id]), Size}
    BY <2>4, <2>5
  <2> QED BY <2>2, <2>3, <2>4, <2>6
<1>8. PartIsPrefix'
  BY BoundType DEF Serving, PartIsPrefix, TypeOK
<1>9. Hashed' /\ Moved' /\ LandedWhole'
  <2>1. \A d \in Calls : \A where \in {"hashed", "moved"} : d # c /\ At(d, "finish", where)' =>
            At(d, "finish", where) /\ call'[d] = call[d]
    BY <1>1 DEF At
  <2>2. \A d \in Calls : call[d].op = "finish" => call[d].id \in Ids
    BY DEF TypeOK, CallRecords
  <2>3. Hashed'
    <3> SUFFICES ASSUME NEW d \in Calls, At(d, "finish", "hashed")', ~stray
                 PROVE  part'[call'[d].id] \in {Whole, <<>>}
      BY DEF Hashed
    <3>1. CASE d = c
      BY <1>1, <2>2, <3>1 DEF At
    <3>2. CASE d # c
      BY <2>1, <2>2, <3>2 DEF Serving, Hashed, At
    <3> QED BY <3>1, <3>2
  <2>4. Moved'
    <3> SUFFICES ASSUME NEW d \in Calls, At(d, "finish", "moved")' PROVE landed' # {}
      BY DEF Moved
    <3>1. CASE d = c
      BY <1>1, <3>1 DEF At
    <3>2. CASE d # c
      BY <2>1, <3>2 DEF Serving, Moved
    <3> QED BY <3>1, <3>2
  <2>5. LandedWhole'
    BY DEF Serving, LandedWhole
  <2> QED BY <2>3, <2>4, <2>5
<1>10. Waits'
  BY <1>4 DEF Waits, Asked, wire, phoneDisk, engine, TypeOK
<1>11. Replies'
  BY DEF Replies, Asked, wire, phoneDisk, engine
<1> QED BY <1>2, <1>3, <1>5, <1>7, <1>8, <1>9, <1>10, <1>11 DEF Serving

\* A handler that replies, and at most removes an upload.
LEMMA ReplyInv ==
    ASSUME IInv, NEW c \in Calls, NEW answer \in Answers, Respond(c, answer),
           UNCHANGED <<phoneDisk, engine, begun, landed, stray, faults>>,
           meta' \subseteq meta, part' \in [Ids -> Seq(Nat)], epoch' \in [Ids -> Nat],
           \A i \in meta' : part'[i] = part[i] /\ epoch'[i] = epoch[i],
           \A i \in Ids : part'[i] \in {part[i], <<>>},
           answer.tag = "ok" => /\ call[c].op = "begin" => answer.id \in 1..begun
                                /\ call[c].op \in {"status", "chunk"} => answer.offset \in Nat
                                /\ call[c].op = "finish" => landed # {}
    PROVE  IInv'
<1> USE DEF IInv
<1>1. /\ call' \in [Calls -> CallRecords] /\ call'[c] = Free
      /\ \A d \in Calls : d # c => call'[d] = call[d]
      /\ waiting' \in Calls \union {NoCall} /\ reply' \in Answers
  BY RespondType
<1>2. TypeOK'
  BY <1>1 DEF TypeOK, phoneDisk, engine
<1>3. KnownHere'
  BY DEF KnownHere, phoneDisk, engine
<1>4. begun \in Nat /\ begun' = begun /\ landed' = landed
  BY BoundType DEF TypeOK
<1>5. KnownThere'
  BY <1>1, <1>4, FewerKnown
<1>6. Serving'
  BY <1>1, <1>2, <1>4, FewerServing DEF TypeOK
<1>7. Waits'
  BY RespondWaits
<1>8. Replies'
  BY <1>4, RespondReplies
<1> QED BY <1>2, <1>3, <1>5, <1>6, <1>7, <1>8

LEMMA ServeStatusInv ==
    ASSUME IInv, NEW c \in Calls, ServeStatus(c)
    PROVE  IInv'
<1> USE DEF IInv
<1> DEFINE answer == IF call[c].id \in meta
                     THEN [tag |-> "ok", offset |-> Len(part[call[c].id])]
                     ELSE [tag |-> "gone"]
<1>1. /\ call[c].op = "status" /\ Respond(c, answer)
      /\ UNCHANGED <<server, phoneDisk, engine, faults>>
  BY DEF ServeStatus, At
<1>2. call[c].id \in meta => Len(part[call[c].id]) \in Nat
  BY DEF TypeOK
<1>3. answer \in Answers /\ (answer.tag = "ok" => answer.offset \in Nat)
  <2>1. CASE call[c].id \in meta
    BY <1>2, <2>1 DEF Answers
  <2>2. CASE call[c].id \notin meta
    BY <2>2 DEF Answers
  <2> QED BY <2>1, <2>2
<1> HIDE DEF answer
<1> QED BY <1>1, <1>3, ReplyInv DEF TypeOK, server

LEMMA ServeGoneInv ==
    ASSUME IInv, NEW c \in Calls, ServeGone(c)
    PROVE  IInv'
<1> DEFINE answer == [tag |-> "gone"]
<1>1. Respond(c, answer) /\ UNCHANGED <<server, phoneDisk, engine, faults>>
  BY DEF ServeGone
<1>2. answer \in Answers /\ answer.tag # "ok"
  BY DEF Answers
<1> HIDE DEF answer
<1> QED BY <1>1, <1>2, ReplyInv DEF IInv, TypeOK, server

LEMMA FinishSizeInv ==
    ASSUME IInv, NEW c \in Calls, FinishSize(c)
    PROVE  IInv'
<1>1. CASE Len(part[call[c].id]) = Size
  <2>1. call[c].op = "finish" /\ Advance(c, "sized")
        /\ UNCHANGED <<wire, server, phoneDisk, engine, faults>>
    BY <1>1 DEF FinishSize, At
  <2> QED BY <2>1, AdvanceInv DEF server, IInv, TypeOK
<1>2. CASE Len(part[call[c].id]) # Size
  <2> DEFINE answer == [tag |-> "error"]
  <2>1. Respond(c, answer) /\ UNCHANGED <<server, phoneDisk, engine, faults>>
    BY <1>2 DEF FinishSize
  <2>2. answer \in Answers /\ answer.tag # "ok"
    BY DEF Answers
  <2> HIDE DEF answer
  <2> QED BY <2>1, <2>2, ReplyInv DEF IInv, TypeOK, server
<1> QED BY <1>1, <1>2

LEMMA DiscardType ==
    ASSUME TypeOK, NEW i \in Ids, Discard(i)
    PROVE  /\ meta' \subseteq meta /\ part' \in [Ids -> Seq(Nat)] /\ epoch' \in [Ids -> Nat]
           /\ \A j \in meta' : part'[j] = part[j] /\ epoch'[j] = epoch[j]
           /\ \A j \in Ids : part'[j] \in {part[j], <<>>}
<1>1. <<>> \in Seq(Nat)
  OBVIOUS
<1> QED BY <1>1 DEF Discard, TypeOK

LEMMA FinishHashInv ==
    ASSUME IInv, NEW c \in Calls, FinishHash(c)
    PROVE  IInv'
<1> USE DEF IInv
<1>0. call[c].op = "finish" /\ call[c].at = "sized" /\ call[c].id \in Ids
      /\ UNCHANGED <<phoneDisk, engine, faults>>
  BY DEF FinishHash, At, TypeOK, CallRecords
<1>1. CASE part[call[c].id] = Whole
  <2>1. Advance(c, "hashed") /\ UNCHANGED <<wire, server>>
    BY <1>1 DEF FinishHash
  <2> QED BY <1>0, <1>1, <2>1, AdvanceInv DEF server, TypeOK
<1>2. CASE part[call[c].id] # Whole /\ part[call[c].id] = <<>>
  <2> DEFINE answer == [tag |-> "error"]
  <2>1. Respond(c, answer) /\ UNCHANGED server
    BY <1>2 DEF FinishHash
  <2>2. answer \in Answers /\ answer.tag # "ok"
    BY DEF Answers
  <2> HIDE DEF answer
  <2> QED BY <1>0, <2>1, <2>2, ReplyInv DEF TypeOK, server
<1>3. CASE part[call[c].id] # Whole /\ part[call[c].id] # <<>>
  <2> DEFINE answer == [tag |-> "mismatch"]
  <2>1. Respond(c, answer) /\ Discard(call[c].id) /\ UNCHANGED <<begun, landed, stray>>
    BY <1>3 DEF FinishHash
  <2>2. answer \in Answers /\ answer.tag # "ok"
    BY DEF Answers
  <2> HIDE DEF answer
  <2> QED BY <1>0, <2>1, <2>2, DiscardType, ReplyInv
<1> QED BY <1>1, <1>2, <1>3

LEMMA NotAVideoInv ==
    ASSUME IInv, NEW c \in Calls, NotAVideo(c)
    PROVE  IInv'
<1> USE DEF IInv
<1> DEFINE answer == [tag |-> "refused"]
<1>1. /\ call[c].id \in Ids /\ Respond(c, answer) /\ Discard(call[c].id)
      /\ UNCHANGED <<begun, landed, stray, phoneDisk, engine, faults>>
  BY DEF NotAVideo, At, TypeOK, CallRecords
<1>2. answer \in Answers /\ answer.tag # "ok"
  BY DEF Answers
<1> HIDE DEF answer
<1> QED BY <1>1, <1>2, DiscardType, ReplyInv

LEMMA FinishForgetInv ==
    ASSUME IInv, NEW c \in Calls, FinishForget(c)
    PROVE  IInv'
<1> USE DEF IInv
<1> DEFINE answer == [tag |-> "ok"]
<1>1. /\ call[c].op = "finish" /\ call[c].id \in Ids /\ landed # {} /\ Respond(c, answer)
      /\ meta' = meta \ {call[c].id} /\ epoch' = [epoch EXCEPT ![call[c].id] = @ + 1]
      /\ UNCHANGED <<begun, part, landed, stray, phoneDisk, engine, faults>>
  BY DEF FinishForget, At, TypeOK, CallRecords, Serving, Moved
<1>2. answer \in Answers
  BY DEF Answers
<1>3. epoch' \in [Ids -> Nat] /\ \A i \in meta' : epoch'[i] = epoch[i]
  BY <1>1 DEF TypeOK
<1> HIDE DEF answer
<1> QED BY <1>1, <1>2, <1>3, ReplyInv DEF TypeOK

LEMMA FinishMoveInv ==
    ASSUME IInv, NEW c \in Calls, FinishMove(c)
    PROVE  IInv'
<1> USE DEF IInv
<1>0. /\ call[c].op = "finish" /\ call[c].at = "hashed" /\ call[c].id \in Ids
      /\ stray \/ part[call[c].id] \in {Whole, <<>>}
      /\ part[call[c].id] \in Seq(Nat)
      /\ UNCHANGED <<begun, meta, epoch, stray, phoneDisk, engine, faults>>
  BY DEF FinishMove, At, TypeOK, CallRecords, Serving, Hashed
<1>1. CASE part[call[c].id] = <<>>
  <2> DEFINE answer == [tag |-> "error"]
  <2>1. Respond(c, answer) /\ UNCHANGED <<part, landed>>
    BY <1>1 DEF FinishMove
  <2>2. answer \in Answers /\ answer.tag # "ok"
    BY DEF Answers
  <2> HIDE DEF answer
  <2> QED BY <1>0, <2>1, <2>2, ReplyInv DEF TypeOK
<1>2. CASE part[call[c].id] # <<>>
  <2>1. /\ landed' = landed \union {part[call[c].id]} /\ part' = [part EXCEPT ![call[c].id] = <<>>]
        /\ Advance(c, "moved") /\ UNCHANGED wire
    BY <1>0, <1>2 DEF FinishMove
  <2>2. /\ stray \/ landed' = {Whole}
        /\ landed' # {} /\ landed \subseteq landed' /\ landed' \subseteq Seq(Nat)
    BY <1>0, <1>2, <2>1 DEF Serving, LandedWhole, TypeOK
  <2>6. stray \/ Len(part[call[c].id]) = Size
    BY <1>0, <1>2, BoundType DEF Whole
  <2>3. <<>> \in Seq(Nat)
    OBVIOUS
  <2>4. part' \in [Ids -> Seq(Nat)] /\ \A i \in Ids : part'[i] \in {part[i], <<>>}
    BY <2>1, <2>3 DEF TypeOK
  <2>5. \A i \in Ids : i # call[c].id => part'[i] = part[i]
    BY <2>1 DEF TypeOK
  <2> QED BY <1>0, <2>1, <2>2, <2>4, <2>5, <2>6, AdvanceInv
<1> QED BY <1>1, <1>2

-----------------------------------------------------------------------------
(* The critical section of a chunk *)

\* A chunk goes on in its handler: it keeps its block, its offset and its upload.
LEMMA ChunkOnType ==
    ASSUME TypeOK, Blocks, KnownThere, Waits, Replies, NEW c \in Calls,
           NEW at \in {"sent", "loaded", "locked"}, NEW held \in Nat, NEW current \in Nat,
           call[c].op = "chunk",
           call' = [call EXCEPT ![c] = [call[c] EXCEPT !.at = at, !.epoch = held, !.current = current]],
           UNCHANGED <<wire, server, phoneDisk, engine, faults>>
    PROVE  /\ TypeOK' /\ Blocks' /\ KnownThere' /\ Waits' /\ Replies'
           /\ \A d \in Calls : d # c => call'[d] = call[d]
           /\ call'[c].op = "chunk" /\ call'[c].id = call[c].id /\ call'[c].at = at
           /\ call'[c].epoch = held /\ call'[c].current = current
<1>1. call[c] \in [op : {"chunk"}, at : {"sent", "loaded", "locked"}, id : Ids,
                   offset : Nat, block : Nat, epoch : Nat, current : Nat]
  BY DEF TypeOK, CallRecords
<1>2. [call[c] EXCEPT !.at = at, !.epoch = held, !.current = current]
          \in [op : {"chunk"}, at : {"sent", "loaded", "locked"}, id : Ids,
               offset : Nat, block : Nat, epoch : Nat, current : Nat]
  BY <1>1
<1>3. /\ call' \in [Calls -> CallRecords]
      /\ \A d \in Calls : d # c => call'[d] = call[d]
      /\ call'[c].op = "chunk" /\ call'[c].id = call[c].id /\ call'[c].at = at
      /\ call'[c].epoch = held /\ call'[c].current = current
      /\ call'[c].offset = call[c].offset /\ call'[c].block = call[c].block
  BY <1>1, <1>2 DEF TypeOK, CallRecords
<1>4. \A d \in Calls : /\ call'[d].op = call[d].op
                       /\ call[d].op \in {"status", "chunk", "finish"} => call'[d].id = call[d].id
                       /\ call[d].op = "chunk" => /\ call'[d].offset = call[d].offset
                                                  /\ call'[d].block = call[d].block
  BY <1>3
<1>5. TypeOK'
  BY <1>3 DEF TypeOK, wire, server, phoneDisk, engine
<1>6. Blocks' /\ KnownThere'
  BY <1>4 DEF Blocks, KnownThere, server
<1>7. Waits' /\ Replies'
  BY <1>4 DEF Waits, Replies, Asked, wire, server, phoneDisk, engine, TypeOK
<1> QED BY <1>3, <1>5, <1>6, <1>7

LEMMA ChunkLoadInv ==
    ASSUME IInv, NEW c \in Calls, ChunkLoad(c)
    PROVE  IInv'
<1> USE DEF IInv
<1>0. call[c].op = "chunk" /\ call[c].at = "sent" /\ Advance(c, "loaded")
      /\ UNCHANGED <<wire, server, phoneDisk, engine, faults>>
  BY DEF ChunkLoad, At
<1>1. call[c] \in [op : {"chunk"}, at : {"sent", "loaded", "locked"}, id : Ids,
                   offset : Nat, block : Nat, epoch : Nat, current : Nat]
  BY <1>0 DEF TypeOK, CallRecords
<1>2. call' = [call EXCEPT ![c] = [call[c] EXCEPT !.at = "loaded", !.epoch = call[c].epoch,
                                                  !.current = call[c].current]]
  BY <1>0, <1>1 DEF Advance
<1>3. /\ TypeOK' /\ Blocks' /\ KnownThere' /\ Waits' /\ Replies'
      /\ \A d \in Calls : d # c => call'[d] = call[d]
      /\ call'[c].op = "chunk" /\ call'[c].id = call[c].id /\ call'[c].at = "loaded"
  BY <1>0, <1>1, <1>2, ChunkOnType DEF Serving
<1>4. KnownHere'
  BY <1>0 DEF KnownHere, phoneDisk, engine, server
<1>5. \A d \in Calls : At(d, "chunk", "locked")' => At(d, "chunk", "locked") /\ call'[d] = call[d]
  BY <1>3 DEF At
<1>6. Locked'
  BY <1>0, <1>5 DEF Serving, Locked, server
<1>7. \A d \in Calls : \A at \in {"hashed", "moved"} :
          At(d, "finish", at)' => At(d, "finish", at) /\ call'[d] = call[d]
  BY <1>3 DEF At
<1>8. PartIsPrefix' /\ Hashed' /\ Moved' /\ LandedWhole'
  BY <1>0, <1>7 DEF Serving, PartIsPrefix, Hashed, Moved, LandedWhole, server
<1> QED BY <1>3, <1>4, <1>6, <1>8 DEF Serving

\* Whoever else is in the critical section of the upload holds its lock, or the upload is gone.
LEMMA ChunkLockInv ==
    ASSUME IInv, NEW c \in Calls, ChunkLock(c)
    PROVE  IInv'
<1> USE DEF IInv
<1> DEFINE i == call[c].id
<1>0. call[c].op = "chunk" /\ call[c].at = "loaded" /\ ~Held(c)
      /\ call' = [call EXCEPT ![c] = [call[c] EXCEPT !.at = "locked", !.epoch = epoch[i],
                                                     !.current = Len(part[i])]]
      /\ UNCHANGED <<wire, server, phoneDisk, engine, faults>>
  BY DEF ChunkLock, ChunkEnter, At
<1>1. i \in Ids /\ epoch[i] \in Nat /\ Len(part[i]) \in Nat
  BY <1>0 DEF TypeOK, CallRecords
<1>3. /\ TypeOK' /\ Blocks' /\ KnownThere' /\ Waits' /\ Replies'
      /\ \A d \in Calls : d # c => call'[d] = call[d]
      /\ call'[c].op = "chunk" /\ call'[c].id = i /\ call'[c].at = "locked"
      /\ call'[c].epoch = epoch[i] /\ call'[c].current = Len(part[i])
  BY <1>0, <1>1, ChunkOnType DEF Serving
<1>4. KnownHere'
  BY <1>0 DEF KnownHere, phoneDisk, engine, server
<1>5. \A d \in Calls : d # c /\ At(d, "chunk", "locked")' => At(d, "chunk", "locked") /\ call'[d] = call[d]
  BY <1>3 DEF At
<1>6. i \in meta => \A d \in Calls : d # c /\ At(d, "chunk", "locked")' => call'[d].id # i
  BY <1>0, <1>5 DEF Serving, Locked, Held
<1>7. Locked'
  <2> SUFFICES ASSUME NEW d \in Calls, At(d, "chunk", "locked")', call'[d].id \in meta'
               PROVE  /\ call'[d].epoch = epoch'[call'[d].id]
                      /\ stray' \/ call'[d].current \in {Len(part'[call'[d].id]), Size}
                      /\ \A e \in Calls : At(e, "chunk", "locked")' /\ call'[e].id = call'[d].id => e = d
    BY DEF Locked
  <2>0. meta' = meta /\ part' = part /\ epoch' = epoch /\ stray' = stray
    BY <1>0 DEF server
  <2>1. CASE d = c
    BY <1>3, <1>6, <2>0, <2>1
  <2>2. CASE d # c
    BY <1>3, <1>5, <1>6, <2>0, <2>2 DEF Serving, Locked
  <2> QED BY <2>1, <2>2
<1>8. \A d \in Calls : \A at \in {"hashed", "moved"} :
          At(d, "finish", at)' => At(d, "finish", at) /\ call'[d] = call[d]
  BY <1>3 DEF At
<1>9. PartIsPrefix' /\ Hashed' /\ Moved' /\ LandedWhole'
  BY <1>0, <1>8 DEF Serving, PartIsPrefix, Hashed, Moved, LandedWhole, server
<1> QED BY <1>3, <1>4, <1>7, <1>9 DEF Serving

\* The append.  The chunk's offset is the size there is, so its block is the next one; without
\* the lock the size could be old, and a late chunk would be appended a second time.  When no
\* finish has hashed the file, none is disturbed.
LEMMA ChunkStoreInv ==
    ASSUME IInv, NEW c \in Calls, ChunkStore(c)
    PROVE  IInv'
<1> USE DEF IInv
<1> DEFINE r == call[c]
<1>0. /\ r.op = "chunk" /\ r.at = "locked"
      /\ UNCHANGED <<begun, meta, landed, epoch, phoneDisk, engine, faults>>
  BY DEF ChunkStore, At
<1>1. r \in [op : {"chunk"}, at : {"sent", "loaded", "locked"}, id : Ids,
             offset : Nat, block : Nat, epoch : Nat, current : Nat]
  BY <1>0 DEF TypeOK, CallRecords
<1>2. CASE r.offset # r.current
  <2> DEFINE answer == [tag |-> "conflict", offset |-> r.current]
  <2>1. Respond(c, answer) /\ UNCHANGED <<part, stray>>
    BY <1>2 DEF ChunkStore
  <2>2. answer \in Answers /\ answer.tag # "ok"
    BY <1>1 DEF Answers
  <2> HIDE DEF answer
  <2> QED BY <1>0, <2>1, <2>2, ReplyInv DEF TypeOK
<1>3. CASE r.offset = r.current /\ r.current + 1 > Size
  <2> DEFINE answer == [tag |-> "refused"]
  <2>1. Respond(c, answer) /\ UNCHANGED <<part, stray>>
    BY <1>3 DEF ChunkStore
  <2>2. answer \in Answers /\ answer.tag # "ok"
    BY DEF Answers
  <2> HIDE DEF answer
  <2> QED BY <1>0, <2>1, <2>2, ReplyInv DEF TypeOK
<1>4. CASE r.offset = r.current /\ ~(r.current + 1 > Size)
  <2> DEFINE answer == [tag |-> "ok", offset |-> r.current + 1]
  <2>1. Respond(c, answer) /\ part' = [part EXCEPT ![r.id] = Append(@, r.block)]
    BY <1>4 DEF ChunkStore
  <2>0. /\ stray' = (stray \/ \E d \in Calls : At(d, "finish", "hashed") /\ call[d].id = r.id)
        /\ stray' \in BOOLEAN /\ (stray => stray')
    BY <1>4 DEF ChunkStore, TypeOK
  <2>2. answer \in Answers /\ answer.offset \in Nat
    BY <1>1 DEF Answers
  <2>3. /\ call' \in [Calls -> CallRecords] /\ call'[c] = Free
        /\ \A d \in Calls : d # c => call'[d] = call[d]
        /\ waiting' \in Calls \union {NoCall} /\ reply' \in Answers
    BY <2>1, <2>2, RespondType
  <2>4. /\ part' \in [Ids -> Seq(Nat)] /\ part'[r.id] = Append(part[r.id], r.block)
        /\ \A i \in Ids : i # r.id => part'[i] = part[i]
    <3>1. part[r.id] \in Seq(Nat)
      BY <1>1 DEF TypeOK
    <3>2. Append(part[r.id], r.block) \in Seq(Nat)
      BY <1>1, <3>1
    <3> QED BY <1>1, <2>1, <3>2 DEF TypeOK
  <2>5. TypeOK'
    BY <1>0, <2>0, <2>3, <2>4 DEF TypeOK, phoneDisk, engine
  <2>6. \A d \in Calls : call'[d].op # "none" => call'[d] = call[d] /\ d # c
    BY <2>3 DEF Free
  <2>7. KnownHere'
    BY <1>0 DEF KnownHere, phoneDisk, engine
  <2>8. KnownThere'
    <3>1. r.id <= begun /\ r.id \in Nat /\ begun \in Nat
      <4>1. r.id <= begun
        BY <1>0 DEF KnownThere
      <4>2. begun \in Nat
        BY BoundType DEF TypeOK
      <4> QED BY <1>1, <4>1, <4>2, BoundType
    <3>2. \A i \in Ids : i > begun => i # r.id
      BY <3>1
    <3>3. \A d \in Calls : call'[d].op \in {"status", "chunk", "finish"} => call'[d].id <= begun'
      BY <1>0, <2>6 DEF KnownThere
    <3>4. \A i \in Ids : i > begun' => part'[i] = <<>>
      BY <1>0, <2>4, <3>2 DEF KnownThere
    <3> QED BY <1>0, <3>3, <3>4 DEF KnownThere
  <2>9. Blocks'
    BY <2>6 DEF Serving, Blocks
  <2>10. Locked'
    <3> SUFFICES ASSUME NEW d \in Calls, At(d, "chunk", "locked")', call'[d].id \in meta'
                 PROVE  /\ call'[d].epoch = epoch'[call'[d].id]
                        /\ stray' \/ call'[d].current \in {Len(part'[call'[d].id]), Size}
                        /\ \A e \in Calls : At(e, "chunk", "locked")' /\ call'[e].id = call'[d].id => e = d
      BY DEF Locked
    <3>1. \A e \in Calls : At(e, "chunk", "locked")' => At(e, "chunk", "locked") /\ call'[e] = call[e] /\ e # c
      BY <2>6 DEF At
    <3>2. call[d].id \in meta /\ meta \subseteq Ids
      BY <1>0, <3>1 DEF TypeOK
    <3>3. call[d].id # r.id
      BY <1>0, <3>1, <3>2 DEF Serving, Locked, At
    <3>4. /\ call[d].epoch = epoch[call[d].id]
          /\ stray \/ call[d].current \in {Len(part[call[d].id]), Size}
          /\ \A e \in Calls : At(e, "chunk", "locked") /\ call[e].id = call[d].id => e = d
      BY <3>1, <3>2 DEF Serving, Locked
    <3>5. epoch' = epoch /\ part'[call[d].id] = part[call[d].id]
      BY <1>0, <2>4, <3>2, <3>3
    <3>6. \A e \in Calls : At(e, "chunk", "locked")' /\ call'[e].id = call'[d].id => e = d
      BY <3>1, <3>4
    <3> QED BY <2>0, <3>1, <3>4, <3>5, <3>6
  <2>11. PartIsPrefix'
    <3> SUFFICES ASSUME NEW i \in meta, ~stray'
                 PROVE  /\ Len(part'[i]) <= Size
                        /\ \A k \in DOMAIN part'[i] : part'[i][k] \in {k, 0}
      BY <1>0 DEF PartIsPrefix
    <3>1. CASE i = r.id
      <4>1. /\ part[i] \in Seq(Nat) /\ Len(part[i]) <= Size
            /\ \A k \in DOMAIN part[i] : part[i][k] \in {k, 0}
        BY <2>0 DEF TypeOK, Serving, PartIsPrefix
      <4>2. r.current = Len(part[i])
        BY <1>0, <1>1, <1>4, <2>0, <3>1, BoundType DEF Serving, Locked, At
      <4>3. r.block \in {Len(part[i]) + 1, 0} /\ Len(part[i]) + 1 <= Size
        BY <1>0, <1>1, <1>4, <4>1, <4>2, BoundType DEF Serving, Blocks
      <4>4. part'[i] = Append(part[i], r.block)
        BY <2>4, <3>1
      <4> QED BY <1>1, <4>1, <4>3, <4>4
    <3>2. CASE i # r.id
      BY <2>0, <2>4, <3>2 DEF TypeOK, Serving, PartIsPrefix
    <3> QED BY <3>1, <3>2
  <2>12. Hashed' /\ Moved' /\ LandedWhole'
    <3>1. \A d \in Calls : \A where \in {"hashed", "moved"} :
              At(d, "finish", where)' => At(d, "finish", where) /\ call'[d] = call[d]
      BY <2>6 DEF At
    <3>2. \A d \in Calls : At(d, "finish", "hashed") => call[d].id \in Ids
      BY DEF At, TypeOK, CallRecords
    <3>3. Hashed'
      BY <2>0, <2>4, <3>1, <3>2 DEF Serving, Hashed
    <3>4. Moved' /\ LandedWhole'
      BY <1>0, <2>0, <3>1 DEF Serving, Moved, LandedWhole
    <3> QED BY <3>3, <3>4
  <2>13. Waits'
    BY <1>0, <2>1, <2>2, RespondWaits
  <2>14. Replies'
    BY <1>0, <2>1, <2>2, RespondReplies
  <2> QED BY <2>5, <2>7, <2>8, <2>9, <2>10, <2>11, <2>12, <2>13, <2>14 DEF Serving
<1> QED BY <1>2, <1>3, <1>4

-----------------------------------------------------------------------------
(* The network and the server's process *)

LEMMA StayServing ==
    ASSUME TypeOK, KnownThere, Serving, UNCHANGED server,
           \A d \in Calls : call'[d] = call[d] \/ call'[d] = Free
    PROVE  KnownThere' /\ Serving'
<1>1. begun \in Nat /\ meta \subseteq Ids
  BY BoundType DEF TypeOK
<1> QED BY <1>1, FewerServing, FewerKnown DEF server

LEMMA TimeoutInv ==
    ASSUME IInv, Timeout
    PROVE  IInv'
<1> USE DEF IInv
<1>0. /\ waiting \in Calls /\ waiting' = NoCall /\ reply' = Lost /\ faults' \in Nat
      /\ UNCHANGED <<phoneDisk, engine, server>>
  BY DEF Timeout, Fault, TypeOK
<1>1. \/ call' = call
      \/ call' = [call EXCEPT ![waiting] = Free]
  BY DEF Timeout
<1>2. Free \in CallRecords /\ Lost \in Answers /\ Lost.tag # "ok"
  BY DEF Free, CallRecords, Lost, Answers
<1>3. call' \in [Calls -> CallRecords] /\ \A d \in Calls : call'[d] = call[d] \/ call'[d] = Free
  BY <1>0, <1>1, <1>2 DEF TypeOK
<1>4. TypeOK'
  BY <1>0, <1>2, <1>3 DEF TypeOK, phoneDisk, engine, server
<1>5. KnownThere' /\ Serving'
  BY <1>0, <1>3, StayServing
<1>6. KnownHere'
  BY <1>0 DEF KnownHere, phoneDisk, engine, server
<1>7. Waits' /\ Replies'
  BY <1>0, <1>2, BoundType DEF Waits, Replies, phoneDisk
<1> QED BY <1>4, <1>5, <1>6, <1>7

LEMMA ServerCrashInv ==
    ASSUME IInv, ServerCrash
    PROVE  IInv'
<1> USE DEF IInv
<1>0. /\ call' = [c \in Calls |-> Free] /\ faults' \in Nat
      /\ UNCHANGED <<server, phoneDisk, engine>>
      /\ waiting' = NoCall
      /\ \/ waiting = NoCall /\ reply' = reply
         \/ waiting # NoCall /\ reply' = Lost
  BY DEF ServerCrash, Fault, TypeOK, wire
<1>1. Free \in CallRecords /\ Lost \in Answers /\ Lost.tag # "ok"
  BY DEF Free, CallRecords, Lost, Answers
<1>2. TypeOK'
  BY <1>0, <1>1 DEF TypeOK, phoneDisk, engine, server
<1>3. KnownThere' /\ Serving'
  BY <1>0, StayServing
<1>4. KnownHere'
  BY <1>0 DEF KnownHere, phoneDisk, engine, server
<1>5. Waits' /\ Replies'
  BY <1>0, <1>1 DEF Waits, Replies, Asked, phoneDisk, engine, server
<1> QED BY <1>2, <1>3, <1>4, <1>5

-----------------------------------------------------------------------------
(* The phone *)

\* The engine is left, however it ends.
LEMMA LeaveInv ==
    ASSUME IInv, UNCHANGED <<server, call>>,
           work' \in {"queued", "succeeded", "failed", "cancelled"},
           attempts' \in Nat, staged' \in BOOLEAN, checkpoint' \in 0..begun, faults' \in Nat,
           LeaveEngine, HangUp
    PROVE  IInv'
<1> USE DEF IInv
<1>1. begun \in Nat /\ begun <= MaxIds /\ MaxIds \in Nat
  BY BoundType DEF TypeOK
<1>2. NoReply \in Answers
  BY DEF NoReply, Answers
<1>3. TypeOK'
  BY <1>1, <1>2 DEF TypeOK, server, LeaveEngine, HangUp
<1>4. KnownThere' /\ Serving'
  BY StayServing
<1>5. KnownHere'
  BY <1>1 DEF KnownHere, LeaveEngine, server
<1>6. Waits' /\ Replies'
  BY DEF Waits, Replies, HangUp, NoReply
<1> QED BY <1>3, <1>4, <1>5, <1>6

LEMMA EndInv ==
    ASSUME IInv, UNCHANGED <<server, call>>, faults' \in Nat,
           NEW state \in {"succeeded", "failed"}, End(state)
    PROVE  IInv'
<1>1. 0 \in 0..begun /\ attempts \in Nat
  BY BoundType DEF IInv, TypeOK
<1> QED BY <1>1, LeaveInv DEF End, Cleanup

LEMMA RetryLaterInv ==
    ASSUME IInv, UNCHANGED <<server, call, faults>>, NEW saved \in 0..begun, RetryLater(saved)
    PROVE  IInv'
<1>0. faults' \in Nat /\ attempts \in Nat /\ staged \in BOOLEAN
  BY DEF IInv, TypeOK
<1>1. CASE attempts + 1 >= MaxAttempts
  BY <1>0, <1>1, EndInv DEF RetryLater
<1>2. CASE ~(attempts + 1 >= MaxAttempts)
  BY <1>0, <1>2, LeaveInv DEF RetryLater
<1> QED BY <1>1, <1>2

\* What the phone has saved is known to the server.
LEMMA SavedType ==
    ASSUME IInv
    PROVE  /\ begun \in Nat /\ checkpoint \in 0..begun /\ 0 \in 0..begun /\ MaxIds \in Nat
           /\ begun <= MaxIds /\ attempts \in Nat /\ staged \in BOOLEAN /\ faults \in Nat
BY BoundType DEF IInv, TypeOK, KnownHere

LEMMA UnauthorizedInv == ASSUME IInv, Unauthorized PROVE IInv'
<1>1. faults' \in Nat
  BY SavedType DEF Unauthorized, Fault
<1> QED BY <1>1, EndInv DEF Unauthorized

LEMMA SystemStopInv == ASSUME IInv, SystemStop PROVE IInv'
<1>1. faults' \in Nat /\ attempts' \in Nat
  BY SavedType DEF SystemStop, Fault
<1> QED BY <1>1, SavedType, LeaveInv DEF SystemStop, Cleanup

LEMMA PhoneDiesInv == ASSUME IInv, PhoneDies PROVE IInv'
<1>1. faults' \in Nat /\ attempts' \in Nat
  BY SavedType DEF PhoneDies, Fault
<1> QED BY <1>1, SavedType, LeaveInv DEF PhoneDies

LEMMA UserCancelInv == ASSUME IInv, UserCancel PROVE IInv'
<1>1. staged' \in BOOLEAN /\ checkpoint' \in 0..begun
  BY SavedType DEF UserCancel, Cleanup
<1> QED BY <1>1, SavedType, LeaveInv DEF UserCancel

\* The engine takes an answer and goes on in this run.
LEMMA GoOnInv ==
    ASSUME IInv, UNCHANGED <<server, call, faults, work, attempts, staged, waiting>>,
           reply # NoReply, reply' = NoReply,
           phase' \in {"begin", "send", "ask"}, phase' = "begin" \/ id' # 0,
           id' \in 0..begun, checkpoint' \in 0..begun, offset' \in Nat, retries' \in Nat
    PROVE  IInv'
<1> USE DEF IInv
<1>1. NoReply \in Answers /\ NoReply.tag # "ok"
  BY DEF NoReply, Answers
<1>2. waiting = NoCall /\ work = "running"
  BY DEF Waits
<1>3. TypeOK'
  BY <1>1, SavedType DEF TypeOK, server
<1>4. KnownThere' /\ Serving'
  BY StayServing
<1>5. KnownHere'
  BY SavedType DEF KnownHere, server
<1>6. Waits' /\ Replies'
  BY <1>1, <1>2 DEF Waits, Replies
<1> QED BY <1>3, <1>4, <1>5, <1>6

LEMMA StartRunInv == ASSUME IInv, StartRun PROVE IInv'
<1> USE DEF IInv
<1>0. work = "queued" /\ UNCHANGED <<server, call, faults>>
  BY DEF StartRun
<1>1. CASE ~staged
  BY <1>0, <1>1, SavedType, EndInv DEF StartRun
<1>2. CASE staged
  <2>1. /\ work' = "running" /\ phase' \in {"begin", "resume"} /\ id' = checkpoint
        /\ phase' = "resume" => checkpoint # 0
        /\ UNCHANGED <<attempts, staged, checkpoint, offset, retries, wire>>
    BY <1>2 DEF StartRun
  <2>2. TypeOK'
    BY <1>0, <2>1 DEF TypeOK, server, wire
  <2>3. KnownThere' /\ Serving'
    BY <1>0, StayServing
  <2>4. KnownHere'
    BY <1>0, <2>1 DEF KnownHere, server
  <2>5. waiting = NoCall /\ reply = NoReply
    BY <1>0 DEF Waits
  <2>6. Waits' /\ Replies'
    BY <2>1, <2>5 DEF Waits, Replies, wire, NoReply
  <2> QED BY <2>2, <2>3, <2>4, <2>6
<1> QED BY <1>1, <1>2 DEF IInv, TypeOK

LEMMA ResumeInv == ASSUME IInv, Resume PROVE IInv'
<1> USE DEF IInv
<1>0. phase = "resume" /\ work = "running" /\ UNCHANGED <<server, call, faults>>
  BY DEF Resume, Engine
<1>1. id # 0 /\ id \in 0..begun /\ retries \in Nat
  BY <1>0, SavedType DEF KnownHere, TypeOK
<1>2. CASE Answered("ok") /\ Phase("send", reply.offset) /\ UNCHANGED <<phoneDisk, id, retries, waiting>>
  <2>1. reply.offset \in Nat /\ reply # NoReply
    BY <1>0, <1>2 DEF Replies, Asked, Answered, NoReply
  <2> QED BY <1>0, <1>1, <1>2, <2>1, SavedType, GoOnInv DEF Phase, phoneDisk
<1>3. CASE /\ Answered("gone") /\ Phase("begin", 0) /\ checkpoint' = 0
           /\ UNCHANGED <<work, attempts, staged, id, retries, waiting>>
  <2>1. reply # NoReply
    BY <1>3 DEF Answered, NoReply
  <2> QED BY <1>0, <1>1, <1>3, <2>1, SavedType, GoOnInv DEF Phase
<1>4. CASE RetryLater(checkpoint)
  BY <1>0, <1>4, SavedType, RetryLaterInv
<1> QED BY <1>2, <1>3, <1>4 DEF Resume

LEMMA BeginInv == ASSUME IInv, Begin PROVE IInv'
<1> USE DEF IInv
<1>0. phase = "begin" /\ work = "running" /\ UNCHANGED <<server, call, faults>>
  BY DEF Begin, Engine
<1>1. CASE /\ Answered("ok") /\ Phase("send", 0) /\ id' = reply.id /\ checkpoint' = reply.id
           /\ UNCHANGED <<work, attempts, staged, retries, waiting>>
  <2>1. reply.id \in 1..begun /\ reply # NoReply
    BY <1>0, <1>1 DEF Replies, Asked, Answered, NoReply
  <2>2. reply.id \in 0..begun /\ reply.id # 0 /\ retries \in Nat
    BY <2>1, SavedType DEF TypeOK
  <2> QED BY <1>0, <1>1, <2>1, <2>2, GoOnInv DEF Phase
<1>2. CASE RetryLater(checkpoint)
  BY <1>0, <1>2, SavedType, RetryLaterInv
<1> QED BY <1>1, <1>2 DEF Begin

LEMMA ChunkInv == ASSUME IInv, Chunk PROVE IInv'
<1> USE DEF IInv
<1>0. phase = "send" /\ offset < Size /\ work = "running" /\ UNCHANGED <<server, call, faults>>
  BY DEF Chunk, Engine
<1>1. id # 0 /\ id \in 0..begun /\ retries \in Nat /\ retries + 1 \in Nat /\ offset \in Nat
  BY <1>0, SavedType DEF KnownHere, TypeOK
<1>2. CASE /\ Answered("ok") /\ Phase("send", reply.offset) /\ retries' = 0
           /\ UNCHANGED <<phoneDisk, id, waiting>>
  <2>1. reply.offset \in Nat /\ reply # NoReply
    BY <1>0, <1>2 DEF Replies, Asked, Answered, NoReply
  <2> QED BY <1>0, <1>1, <1>2, <2>1, SavedType, GoOnInv DEF Phase, phoneDisk
<1>3. CASE /\ Answered("conflict") /\ Phase("send", reply.offset)
           /\ UNCHANGED <<phoneDisk, id, retries, waiting>>
  <2>1. reply.offset \in Nat /\ reply # NoReply
    BY <1>3 DEF TypeOK, Answers, Answered, NoReply
  <2> QED BY <1>0, <1>1, <1>3, <2>1, SavedType, GoOnInv DEF Phase, phoneDisk
<1>4. CASE RetryLater(0) \/ RetryLater(checkpoint)
  BY <1>0, <1>4, SavedType, RetryLaterInv
<1>5. CASE End("failed")
  BY <1>0, <1>5, SavedType, EndInv
<1>6. CASE /\ Answered("lost") /\ retries' = retries + 1 /\ Phase("ask", offset)
           /\ UNCHANGED <<phoneDisk, id, waiting>>
  <2>1. reply # NoReply
    BY <1>6 DEF Answered, NoReply
  <2> QED BY <1>0, <1>1, <1>6, <2>1, SavedType, GoOnInv DEF Phase, phoneDisk
<1> QED BY <1>2, <1>3, <1>4, <1>5, <1>6 DEF Chunk

LEMMA ReseekInv == ASSUME IInv, Reseek PROVE IInv'
<1> USE DEF IInv
<1>0. /\ phase = "ask" /\ work = "running" /\ reply # NoReply /\ phase' = "send" /\ reply' = NoReply
      /\ offset' = IF Answered("ok") THEN reply.offset ELSE offset
      /\ UNCHANGED <<phoneDisk, id, retries, waiting, server, call, faults>>
  BY DEF Reseek, Engine, Phase
<1>1. id # 0 /\ id \in 0..begun /\ retries \in Nat /\ offset \in Nat
  BY <1>0, SavedType DEF KnownHere, TypeOK
<1>2. Answered("ok") => reply.offset \in Nat
  BY <1>0 DEF Replies, Asked, Answered
<1>3. offset' \in Nat
  BY <1>0, <1>1, <1>2
<1> QED BY <1>0, <1>1, <1>3, SavedType, GoOnInv DEF phoneDisk

LEMMA FinishInv == ASSUME IInv, Finish PROVE IInv'
<1>0. UNCHANGED <<server, call, faults>>
  BY DEF Finish
<1>1. CASE End("succeeded") \/ End("failed")
  BY <1>0, <1>1, SavedType, EndInv
<1>2. CASE RetryLater(0) \/ RetryLater(checkpoint)
  BY <1>0, <1>2, SavedType, RetryLaterInv
<1> QED BY <1>1, <1>2 DEF Finish

\* A request leaves: it is the engine's own question.
LEMMA SendInv ==
    ASSUME IInv, NEW c \in Calls, NEW request \in CallRecords, Send(c, request),
           work = "running", UNCHANGED <<phoneDisk, engine, server>>, faults' \in Nat,
           request.op = Asked,
           request.op # "begin" => request.id = id,
           request.op \in {"chunk", "finish"} => request.at = "sent",
           request.op = "chunk" => request.block \in {request.offset + 1, 0}
    PROVE  IInv'
<1> USE DEF IInv
<1>0. /\ call[c] = Free /\ call' = [call EXCEPT ![c] = request]
      /\ waiting' = c /\ reply' = NoReply
      /\ Asked' = Asked
  BY DEF Send, Asked, engine
<1>1. /\ call' \in [Calls -> CallRecords] /\ call'[c] = request
      /\ \A d \in Calls : d # c => call'[d] = call[d]
  BY <1>0 DEF TypeOK
<1>2. NoReply \in Answers /\ NoReply.tag # "ok"
  BY DEF NoReply, Answers
<1>3. TypeOK'
  BY <1>0, <1>1, <1>2 DEF TypeOK, phoneDisk, engine, server
<1>4. KnownHere'
  BY DEF KnownHere, phoneDisk, engine, server
<1>5. KnownThere'
  BY <1>1 DEF KnownThere, KnownHere, server
<1>6. Blocks'
  BY <1>1 DEF Serving, Blocks
<1>8. \A d \in Calls : At(d, "chunk", "locked")' => At(d, "chunk", "locked") /\ call'[d] = call[d]
  BY <1>1 DEF At
<1>9. Locked'
  BY <1>8 DEF Serving, Locked, server
<1>10. \A d \in Calls : \A at \in {"hashed", "moved"} :
           At(d, "finish", at)' => At(d, "finish", at) /\ call'[d] = call[d]
  BY <1>1 DEF At
<1>11. PartIsPrefix' /\ Hashed' /\ Moved' /\ LandedWhole'
  BY <1>10 DEF Serving, PartIsPrefix, Hashed, Moved, LandedWhole, server
<1>12. Waits' /\ Replies'
  BY <1>0, <1>1, <1>2 DEF Waits, Replies, phoneDisk, NoReply
<1> QED BY <1>3, <1>4, <1>5, <1>6, <1>9, <1>11, <1>12 DEF Serving

LEMMA RequestType ==
    ASSUME IInv, work = "running"
    PROVE  /\ Request \in CallRecords /\ Request.op = Asked
           /\ Request.op # "begin" => Request.id = id
           /\ Request.op \in {"chunk", "finish"} => Request.at = "sent"
           /\ Request.op = "chunk" => Request.block = Request.offset + 1
           /\ Request.op = "chunk" => [Request EXCEPT !.block = 0] \in CallRecords
<1> USE DEF IInv
<1>1. phase \in {"resume", "begin", "send", "ask"} /\ offset \in Nat
  BY DEF TypeOK, KnownHere
<1>2. phase # "begin" => id \in Ids
  BY <1>1, BoundType DEF TypeOK, KnownHere, Ids
<1>3. CASE phase = "begin"
  BY <1>3 DEF Request, Asked, CallRecords
<1>4. CASE phase \in {"resume", "ask"}
  BY <1>2, <1>4 DEF Request, Asked, CallRecords
<1>5. CASE phase = "send" /\ offset < Size
  <2> DEFINE chunk(block) == [op |-> "chunk", at |-> "sent", id |-> id, offset |-> offset,
                              block |-> block, epoch |-> 0, current |-> 0]
  <2>1. Request = chunk(offset + 1) /\ Asked = "chunk"
    BY <1>5 DEF Request, Asked
  <2>2. [Request EXCEPT !.block = 0] = chunk(0)
    BY <2>1
  <2>3. \A block \in Nat : chunk(block) \in CallRecords
    BY <1>1, <1>2, <1>5 DEF CallRecords
  <2> QED BY <1>1, <2>1, <2>2, <2>3
<1>6. CASE phase = "send" /\ ~(offset < Size)
  BY <1>2, <1>6 DEF Request, Asked, CallRecords
<1> QED BY <1>1, <1>3, <1>4, <1>5, <1>6

LEMMA AskInv == ASSUME IInv, Ask PROVE IInv'
<1>1. PICK c \in Calls : Send(c, Request)
  BY DEF Ask
<1>2. faults' \in Nat
  BY SavedType DEF Ask
<1>3. work = "running" /\ UNCHANGED <<phoneDisk, engine, server>>
  BY DEF Ask
<1> HIDE DEF Request, Asked
<1> QED BY <1>1, <1>2, <1>3, RequestType, SendInv

LEMMA AskDamagedInv == ASSUME IInv, AskDamaged PROVE IInv'
<1> DEFINE damaged == [Request EXCEPT !.block = 0]
<1>1. PICK c \in Calls : Send(c, damaged)
  BY DEF AskDamaged
<1>2. work = "running" /\ phase = "send" /\ offset < Size
      /\ UNCHANGED <<phoneDisk, engine, server>>
  BY DEF AskDamaged, Engine
<1>3. faults' \in Nat
  BY SavedType DEF AskDamaged, Fault
<1>4. Asked = "chunk"
  BY <1>2 DEF Asked
<1>5. Request = [op |-> "chunk", at |-> "sent", id |-> id, offset |-> offset,
                 block |-> offset + 1, epoch |-> 0, current |-> 0]
  BY <1>2 DEF Request
<1>6. damaged.op = "chunk" /\ damaged.id = id /\ damaged.at = "sent" /\ damaged.block = 0
  BY <1>5
<1>7. damaged \in CallRecords
  BY <1>2, <1>4, RequestType
<1> HIDE DEF damaged
<1> QED BY <1>1, <1>2, <1>3, <1>4, <1>6, <1>7, SendInv

-----------------------------------------------------------------------------
(* Every step *)

LEMMA StutterInv == ASSUME IInv, UNCHANGED vars PROVE IInv'
<1> USE DEF IInv
<1>1. UNCHANGED <<phoneDisk, engine, wire, server, call, faults>>
  BY DEF vars
<1>2. KnownThere' /\ Serving'
  BY <1>1, StayServing
<1>3. TypeOK' /\ KnownHere'
  BY <1>1 DEF TypeOK, KnownHere, phoneDisk, engine, wire, server
<1>4. Waits' /\ Replies'
  BY <1>1 DEF Waits, Replies, Asked, phoneDisk, engine, wire, server
<1> QED BY <1>2, <1>3, <1>4

LEMMA ServeInv == ASSUME IInv, NEW c \in Calls, Serve(c) PROVE IInv'
BY ServeBeginInv, ServeStatusInv, ServeGoneInv, ChunkLoadInv, ChunkLockInv, ChunkStoreInv,
   FinishSizeInv, FinishHashInv, NotAVideoInv, FinishMoveInv, FinishForgetInv DEF Serve

LEMMA NextInv == ASSUME IInv, [Next]_vars PROVE IInv'
<1>1. CASE RunStep
  BY <1>1, StartRunInv, AskInv, ResumeInv, BeginInv, ChunkInv, ReseekInv, FinishInv DEF RunStep
<1>2. CASE AskDamaged \/ Unauthorized \/ SystemStop \/ UserCancel \/ PhoneDies
  BY <1>2, AskDamagedInv, UnauthorizedInv, SystemStopInv, UserCancelInv, PhoneDiesInv
<1>3. CASE Timeout \/ ServerCrash \/ OtherBegin
  BY <1>3, TimeoutInv, ServerCrashInv, OtherBeginInv
<1>4. CASE \E c \in Calls : Serve(c)
  BY <1>4, ServeInv
<1>5. CASE UNCHANGED vars
  BY <1>5, StutterInv
<1> QED BY <1>1, <1>2, <1>3, <1>4, <1>5 DEF Next

\* The inductive invariant, whatever the network, the sweep, the crashes and the user do to
\* the calls of one upload, those the phone has given up on and still under way included.
THEOREM Inductive == Spec => []IInv
<1>1. Init => IInv
  BY InitInv
<1>2. IInv /\ [Next]_vars => IInv'
  BY NextInv
<1> QED BY <1>1, <1>2, PTL DEF Spec

\* The offset the server reports can be trusted (ingest_bp.py, api_upload_chunk): for any
\* file, any number of late and repeated calls and any bound on faults, the .part of an upload
\* that can be resumed is a prefix of the file, until a chunk is stored between the hash and
\* the move of a finish, which takes no lock.
THEOREM PartSafe == Spec => []PartIsPrefix
<1>1. IInv => PartIsPrefix
  BY DEF IInv, Serving
<1> QED BY <1>1, Inductive, PTL

-----------------------------------------------------------------------------
(* The promise *)

Pending == work \in {"queued", "running"}

\* What may become of pending work.
LEMMA PromiseStep ==
    ASSUME landed' = landed, stray' = stray, Pending,
           \/ Pending'
           \/ work' \in {"failed", "cancelled"}
           \/ work' = "succeeded" /\ landed # {} /\ (stray \/ landed = {Whole})
    PROVE  [Promise!Next]_(Promise!vars)
BY DEF Pending, Promise!Next, Promise!Land, Promise!Succeed, Promise!GiveUp, Promise!vars

\* How a run can end otherwise than well.
LEMMA RetryLaterPromise ==
    ASSUME work = "running", UNCHANGED server, NEW saved, RetryLater(saved) \/ End("failed")
    PROVE  [Promise!Next]_(Promise!vars)
<1>1. landed' = landed /\ stray' = stray /\ work' \in {"queued", "failed"}
  BY DEF RetryLater, End, server
<1> QED BY <1>1, PromiseStep DEF Pending

LEMMA RunPromise == ASSUME IInv, RunStep PROVE [Promise!Next]_(Promise!vars)
<1>0. landed' = landed /\ stray' = stray
  BY DEF RunStep, StartRun, Ask, Resume, Begin, Chunk, Reseek, Finish, server
<1>1. CASE StartRun
  <2>1. work = "queued" /\ work' \in {"running", "failed"}
    BY <1>1 DEF StartRun, End
  <2> QED BY <1>0, <2>1, PromiseStep DEF Pending
<1>2. CASE Ask \/ Reseek
  <2>1. work' = work
    BY <1>2 DEF Ask, Reseek, phoneDisk
  <2> QED BY <1>0, <2>1 DEF Promise!vars
<1>3. CASE Resume \/ Begin \/ Chunk
  <2>1. work = "running" /\ UNCHANGED server
    BY <1>3 DEF Resume, Begin, Chunk, Engine
  <2>2. \/ work' = work
        \/ End("failed") \/ \E saved \in {0, checkpoint} : RetryLater(saved)
    BY <1>3 DEF Resume, Begin, Chunk, phoneDisk
  <2> QED BY <1>0, <2>1, <2>2, PromiseStep, RetryLaterPromise DEF Pending
<1>4. CASE Finish
  <2>1. work = "running" /\ phase = "send" /\ ~(offset < Size) /\ UNCHANGED server
    BY <1>4, BoundType DEF Finish, Engine, IInv, TypeOK
  <2>2. CASE Answered("ok") /\ End("succeeded")
    <3>1. landed # {} /\ (stray \/ landed = {Whole})
      BY <2>1, <2>2 DEF IInv, Serving, LandedWhole, Replies, Asked, Answered
    <3>2. work' = "succeeded"
      BY <2>2 DEF End
    <3> QED BY <1>0, <2>1, <3>1, <3>2, PromiseStep DEF Pending
  <2>3. CASE End("failed") \/ RetryLater(0) \/ RetryLater(checkpoint)
    BY <2>1, <2>3, RetryLaterPromise
  <2> QED BY <1>4, <2>2, <2>3 DEF Finish
<1> QED BY <1>1, <1>2, <1>3, <1>4 DEF RunStep

LEMMA ServePromise == ASSUME IInv, NEW c \in Calls, Serve(c) PROVE [Promise!Next]_(Promise!vars)
<1>1. work' = work
  BY DEF Serve, ServeBegin, ServeStatus, ServeGone, ChunkLoad, ChunkLock, ChunkEnter, ChunkStore,
         FinishSize, FinishHash, NotAVideo, FinishMove, FinishForget, phoneDisk
<1>2. CASE FinishMove(c)
  <2>1. stray \/ part[call[c].id] \in {Whole, <<>>}
    BY <1>2 DEF FinishMove, IInv, Serving, Hashed
  <2>2. stray' = stray /\ (landed' = landed \/ landed' = landed \union {part[call[c].id]})
    BY <1>2 DEF FinishMove
  <2>3. landed' = landed \/ (landed \subseteq landed' /\ (stray \/ landed' = {Whole}))
    BY <1>2, <2>1, <2>2 DEF FinishMove, IInv, Serving, LandedWhole
  <2> QED BY <1>1, <2>2, <2>3 DEF Promise!Next, Promise!Land, Promise!vars
<1>3. CASE ChunkStore(c)
  <2>1. landed' = landed /\ (stray' = stray \/ stray' = TRUE)
    BY <1>3 DEF ChunkStore, IInv, TypeOK
  <2> QED BY <1>1, <2>1 DEF Promise!Next, Promise!Excuse, Promise!vars
<1>4. CASE ~FinishMove(c) /\ ~ChunkStore(c)
  <2>1. landed' = landed /\ stray' = stray
    BY <1>4 DEF Serve, ServeBegin, ServeStatus, ServeGone, ChunkLoad, ChunkLock, ChunkEnter,
                FinishSize, FinishHash, NotAVideo, FinishForget, server
  <2> QED BY <1>1, <2>1 DEF Promise!vars
<1> QED BY <1>2, <1>3, <1>4

LEMMA NextPromise == ASSUME IInv, [Next]_vars PROVE [Promise!Next]_(Promise!vars)
<1>1. CASE RunStep
  BY <1>1, RunPromise
<1>2. CASE \E c \in Calls : Serve(c)
  BY <1>2, ServePromise
<1>3. CASE AskDamaged \/ Timeout \/ ServerCrash \/ OtherBegin \/ UNCHANGED vars
  <2>1. landed' = landed /\ stray' = stray /\ work' = work
    BY <1>3 DEF AskDamaged, Timeout, ServerCrash, OtherBegin, vars, phoneDisk, server
  <2> QED BY <2>1 DEF Promise!vars
<1>4. CASE Unauthorized \/ SystemStop \/ PhoneDies \/ UserCancel
  <2>1. /\ work \in {"queued", "running"} /\ work' \in {"failed", "queued", "cancelled"}
        /\ landed' = landed /\ stray' = stray
    BY <1>4 DEF Unauthorized, SystemStop, PhoneDies, UserCancel, End, server
  <2> QED BY <2>1, PromiseStep DEF Pending
<1> QED BY <1>1, <1>2, <1>3, <1>4 DEF Next

\* The safety part of UploadPromise: only the whole file reaches the folder until a chunk is
\* stored between the hash and the move of a finish, and the phone reports success only after
\* something did, which without such a chunk is the file.
THEOREM PromiseKept == Spec => Promise!Safety
<1>1. Init => Promise!Init
  BY DEF Init, Promise!Init
<1>2. IInv /\ [Next]_vars => [Promise!Next]_(Promise!vars)
  BY NextPromise
<1> QED BY <1>1, <1>2, Inductive, PTL DEF Spec, Promise!Safety

\* Every variable keeps its type.
THEOREM TypeCorrect == Spec => []TypeOK
<1>1. IInv => TypeOK
  BY DEF IInv
<1> QED BY <1>1, Inductive, PTL
=============================================================================
