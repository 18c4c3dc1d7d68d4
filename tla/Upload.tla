------------------------------- MODULE Upload -------------------------------
(***************************************************************************)
(* One resumable upload from the phone (UploadWorker.kt, UploadEngine.kt)  *)
(* to the server (src/gui/routes/ingest_bp.py).                            *)
(*                                                                         *)
(* A call is one request with its handler on the server; the phone waits   *)
(* for at most one, but a call it has given up on may still be executed,   *)
(* late, beside its successors.  The file is a sequence of blocks, one per *)
(* chunk; block 0 is a block damaged on the way.  A missing .part and an   *)
(* empty one are the same to every handler.                                *)
(***************************************************************************)
EXTENDS Naturals, Sequences

CONSTANTS
    Size,         \* blocks of the file
    Calls,        \* bound on requests under way at a time
    MaxAttempts,  \* MAX_RUN_ATTEMPTS
    MaxRetries,   \* maxChunkRetries
    MaxFaults,    \* bound on timeouts, damage, crashes, sweeps and stops
    NoCall        \* no request

ASSUME SizeAssumption  == Size \in Nat \ {0}
ASSUME BoundAssumption == {MaxAttempts, MaxRetries, MaxFaults} \subseteq Nat /\ NoCall \notin Calls

\* A run begins at most one upload, and each run but the last ends in a retry or a
\* fault: the bound on uploads is never reached.
MaxIds == MaxAttempts + MaxFaults
Ids    == 1..MaxIds
Whole == [i \in 1..Size |-> i]

VARIABLES
    \* the phone, on disk
    work,        \* the WorkManager state of the upload
    attempts,    \* runAttemptCount
    staged,      \* the private copy of the file exists
    checkpoint,  \* the saved serverUploadId, or 0
    \* the phone, in the running worker
    phase,       \* what the engine waits for
    id, offset, retries,  \* uploadId, offset and retries of run()
    waiting,     \* the call the engine waits for
    reply,       \* its reply, as far as it has come
    \* the server, on disk
    begun,       \* uploads begun so far
    meta,        \* uploads with a .json file
    part,        \* the .part files
    landed,      \* contents in the upload folder
    \* the server, in memory
    call,        \* the requests under way
    epoch,       \* per upload: which Lock object _upload_locks holds
    stray,       \* a chunk was stored under a finish that had hashed the file (history)
    faults

phoneDisk == <<work, attempts, staged, checkpoint>>
engine    == <<phase, id, offset, retries>>
wire      == <<waiting, reply>>
server    == <<begun, meta, part, landed, epoch, stray>>
vars      == <<phoneDisk, engine, wire, server, call, faults>>

Free    == [op |-> "none"]
NoReply == [tag |-> "none"]
Lost    == [tag |-> "lost"]

Fault == faults < MaxFaults /\ faults' = faults + 1

-----------------------------------------------------------------------------
(* Requests *)

\* A request leaves the phone, in any free place.
Place == CHOOSE c \in Calls : call[c] = Free
Send(c, request) ==
    /\ call[c] = Free /\ c = Place
    /\ call'    = [call EXCEPT ![c] = request]
    /\ waiting' = c /\ reply' = NoReply

\* A handler is done: its reply reaches the phone if that still waits for it.
Respond(c, answer) ==
    /\ call' = [call EXCEPT ![c] = Free]
    /\ IF waiting = c
       THEN waiting' = NoCall /\ reply' = answer
       ELSE UNCHANGED wire

\* The phone gives up on a call: the request or the reply is lost, or the reply is
\* late.  The request may still be served, unless it never arrived.
Timeout ==
    /\ waiting # NoCall /\ Fault
    /\ waiting' = NoCall /\ reply' = Lost
    /\ call' \in {call} \union
                 (IF call[waiting].at = "sent" THEN {[call EXCEPT ![waiting] = Free]} ELSE {})
    /\ UNCHANGED <<phoneDisk, engine, server>>

At(c, op, at) == call[c].op = op /\ call[c].at = at
Advance(c, at) == call' = [call EXCEPT ![c].at = at]

-----------------------------------------------------------------------------
(* The server *)

\* _sweep_stale_uploads: those begun more than 48 hours ago, however active.
SweepStale(stale) ==
    /\ part'  = [i \in Ids |-> IF i \in stale THEN <<>> ELSE part[i]]
    /\ epoch' = [i \in Ids |-> IF i \in stale THEN epoch[i] + 1 ELSE epoch[i]]
    /\ IF stale = {} THEN UNCHANGED faults ELSE Fault

\* api_upload_begin: the sweep, an empty .part, then the .json.
ServeBegin(c) ==
    /\ At(c, "begin", "sent") /\ begun < MaxIds
    /\ begun' = begun + 1
    /\ \E stale \in SUBSET meta :
          SweepStale(stale) /\ meta' = (meta \ stale) \union {begun + 1}
    /\ Respond(c, [tag |-> "ok", id |-> begun + 1])
    /\ UNCHANGED <<landed, stray, phoneDisk, engine>>

\* The same for another client, whose upload is not followed.
OtherBegin ==
    /\ \E stale \in (SUBSET meta) \ {{}} : SweepStale(stale) /\ meta' = meta \ stale
    /\ UNCHANGED <<begun, landed, stray, wire, call, phoneDisk, engine>>

ServeStatus(c) ==
    /\ At(c, "status", "sent")
    /\ Respond(c, IF call[c].id \in meta
                  THEN [tag |-> "ok", offset |-> Len(part[call[c].id])]
                  ELSE [tag |-> "gone"])
    /\ UNCHANGED <<server, phoneDisk, engine, faults>>

\* Every handler loads the .json first, without the lock.
ServeGone(c) ==
    /\ At(c, "chunk", "sent") \/ At(c, "finish", "sent")
    /\ call[c].id \notin meta
    /\ Respond(c, [tag |-> "gone"])
    /\ UNCHANGED <<server, phoneDisk, engine, faults>>

ChunkLoad(c) ==
    /\ At(c, "chunk", "sent") /\ call[c].id \in meta
    /\ Advance(c, "loaded")
    /\ UNCHANGED <<wire, server, phoneDisk, engine, faults>>

\* The lock of the upload, as _lock_for finds or makes it, and the size read
\* under it.
Held(c) ==
    \E d \in Calls : /\ At(d, "chunk", "locked") /\ call[d].id = call[c].id
                     /\ call[d].epoch = epoch[call[c].id]
ChunkEnter(c) ==
    /\ call' = [call EXCEPT ![c] = [@ EXCEPT !.at = "locked",
                                             !.epoch = epoch[call[c].id],
                                             !.current = Len(part[call[c].id])]]
    /\ UNCHANGED <<wire, server, phoneDisk, engine, faults>>
ChunkRush(c) == At(c, "chunk", "loaded") /\ ChunkEnter(c)
ChunkLock(c) == At(c, "chunk", "loaded") /\ ~Held(c) /\ ChunkEnter(c)

\* The rest of the critical section: 409, or 413, or the append, which a finish that has
\* hashed the file and not moved it yet does not expect.
ChunkStore(c) ==
    /\ At(c, "chunk", "locked")
    /\ LET r == call[c] IN
       IF r.offset # r.current
       THEN Respond(c, [tag |-> "conflict", offset |-> r.current]) /\ UNCHANGED <<part, stray>>
       ELSE IF r.current + 1 > Size
            THEN Respond(c, [tag |-> "refused"]) /\ UNCHANGED <<part, stray>>
            ELSE /\ part' = [part EXCEPT ![r.id] = Append(@, r.block)]
                 /\ stray' = (stray \/ \E d \in Calls : At(d, "finish", "hashed") /\ call[d].id = r.id)
                 /\ Respond(c, [tag |-> "ok", offset |-> r.current + 1])
    /\ UNCHANGED <<begun, meta, landed, epoch, phoneDisk, engine, faults>>

\* api_upload_finish takes no lock.  The declared size is there ...
FinishSize(c) ==
    /\ At(c, "finish", "sent") /\ call[c].id \in meta
    /\ IF Len(part[call[c].id]) = Size
       THEN Advance(c, "sized") /\ UNCHANGED wire
       ELSE Respond(c, [tag |-> "error"])
    /\ UNCHANGED <<server, phoneDisk, engine, faults>>

\* _discard: the .part, the .json and the lock.
Discard(i) ==
    /\ part'  = [part EXCEPT ![i] = <<>>]
    /\ meta'  = meta \ {i}
    /\ epoch' = [epoch EXCEPT ![i] = @ + 1]

\* ... the hash is right ...
HashUnchecked(c) ==
    /\ At(c, "finish", "sized")
    /\ Advance(c, "hashed")
    /\ UNCHANGED <<wire, server, phoneDisk, engine, faults>>
FinishHash(c) ==
    /\ At(c, "finish", "sized")
    /\ IF part[call[c].id] = Whole
       THEN Advance(c, "hashed") /\ UNCHANGED <<wire, server>>
       ELSE IF part[call[c].id] = <<>>     \* moved by another finish: the open fails
       THEN Respond(c, [tag |-> "error"]) /\ UNCHANGED server
       ELSE /\ Respond(c, [tag |-> "mismatch"])
            /\ Discard(call[c].id)
            /\ UNCHANGED <<begun, landed, stray>>
    /\ UNCHANGED <<phoneDisk, engine, faults>>

\* ... and ffprobe finds a video.
NotAVideo(c) ==
    /\ At(c, "finish", "hashed")
    /\ Respond(c, [tag |-> "refused"])
    /\ Discard(call[c].id)
    /\ UNCHANGED <<begun, landed, stray, phoneDisk, engine, faults>>

\* The .part is moved to a free name in the upload folder.
FinishMove(c) ==
    /\ At(c, "finish", "hashed")
    /\ IF part[call[c].id] = <<>>
       THEN Respond(c, [tag |-> "error"]) /\ UNCHANGED <<part, landed>>
       ELSE /\ landed' = landed \union {part[call[c].id]}
            /\ part'   = [part EXCEPT ![call[c].id] = <<>>]
            /\ Advance(c, "moved") /\ UNCHANGED wire
    /\ UNCHANGED <<begun, meta, epoch, stray, phoneDisk, engine, faults>>

\* The .json and the lock go, and the reply.
FinishForget(c) ==
    /\ At(c, "finish", "moved")
    /\ meta'  = meta \ {call[c].id}
    /\ epoch' = [epoch EXCEPT ![call[c].id] = @ + 1]
    /\ Respond(c, [tag |-> "ok"])
    /\ UNCHANGED <<begun, part, landed, stray, phoneDisk, engine, faults>>

\* The server dies and comes back; a torn append is a shorter prefix.
ServerCrash ==
    /\ Fault
    /\ \E c \in Calls : call[c] # Free
    /\ call' = [c \in Calls |-> Free]
    /\ IF waiting = NoCall THEN UNCHANGED wire ELSE waiting' = NoCall /\ reply' = Lost
    /\ UNCHANGED <<server, phoneDisk, engine>>

Serve(c) ==
    \/ ServeBegin(c) \/ ServeStatus(c) \/ ServeGone(c)
    \/ ChunkLoad(c) \/ ChunkLock(c) \/ ChunkStore(c)
    \/ FinishSize(c) \/ FinishHash(c) \/ NotAVideo(c) \/ FinishMove(c) \/ FinishForget(c)

-----------------------------------------------------------------------------
(* The phone: how a run ends *)

LeaveEngine == phase' = "none" /\ id' = 0 /\ offset' = 0 /\ retries' = 0
HangUp      == waiting' = NoCall /\ reply' = NoReply

\* UploadWorker.cleanup, in every terminal state.
Cleanup == staged' = FALSE /\ checkpoint' = 0

End(state) == work' = state /\ Cleanup /\ LeaveEngine /\ HangUp /\ UNCHANGED attempts

\* Result.retry(), or the end after MAX_RUN_ATTEMPTS runs.  WorkManager counts
\* the runs, the interrupted ones too.
RetryLater(saved) ==
    IF attempts + 1 >= MaxAttempts
    THEN End("failed")
    ELSE /\ work' = "queued" /\ attempts' = attempts + 1
         /\ checkpoint' = saved /\ LeaveEngine /\ HangUp
         /\ UNCHANGED staged

-----------------------------------------------------------------------------
(* The phone: one run of the engine *)

Engine(what) == work = "running" /\ phase = what
Answered(tag) == reply.tag = tag

\* WorkManager starts the worker; without the staged copy it fails at once.
StartRun ==
    /\ work = "queued"
    /\ IF ~staged
       THEN End("failed")
       ELSE /\ work' = "running"
            /\ phase' = IF checkpoint = 0 THEN "begin" ELSE "resume"
            /\ id' = checkpoint
            /\ UNCHANGED <<attempts, staged, checkpoint, offset, retries, wire>>
    /\ UNCHANGED <<server, call, faults>>

\* The next request of the phase the engine is in.
Request ==
    IF phase = "begin" THEN [op |-> "begin", at |-> "sent"]
    ELSE IF phase \in {"resume", "ask"} THEN [op |-> "status", at |-> "sent", id |-> id]
    ELSE IF phase = "send" /\ offset < Size
         THEN [op |-> "chunk", at |-> "sent", id |-> id, offset |-> offset,
               block |-> offset + 1, epoch |-> 0, current |-> 0]
         ELSE [op |-> "finish", at |-> "sent", id |-> id]

Ask ==
    /\ work = "running" /\ waiting = NoCall /\ reply = NoReply
    /\ \E c \in Calls : Send(c, Request)
    /\ UNCHANGED <<phoneDisk, engine, server, faults>>

\* The chunk is damaged on its way.
AskDamaged ==
    /\ Engine("send") /\ offset < Size /\ waiting = NoCall /\ reply = NoReply
    /\ Fault
    /\ \E c \in Calls : Send(c, [Request EXCEPT !.block = 0])
    /\ UNCHANGED <<phoneDisk, engine, server>>

Phase(next, where) == phase' = next /\ offset' = where /\ reply' = NoReply

\* resolveSession: the server's offset, a fresh begin, or another time.
Resume ==
    /\ Engine("resume")
    /\ \/ /\ Answered("ok") /\ Phase("send", reply.offset)
          /\ UNCHANGED <<phoneDisk, id, retries, waiting>>
       \/ /\ Answered("gone") /\ Phase("begin", 0)
          /\ checkpoint' = 0
          /\ UNCHANGED <<work, attempts, staged, id, retries, waiting>>
       \/ Answered("lost") /\ RetryLater(checkpoint)
    /\ UNCHANGED <<server, call, faults>>

Begin ==
    /\ Engine("begin")
    /\ \/ /\ Answered("ok") /\ Phase("send", 0)
          /\ id' = reply.id /\ checkpoint' = reply.id
          /\ UNCHANGED <<work, attempts, staged, retries, waiting>>
       \/ Answered("lost") /\ RetryLater(checkpoint)
    /\ UNCHANGED <<server, call, faults>>

\* The inner retries of one run.
RetriesUsedUp == retries + 1 > MaxRetries

\* The answer to a chunk.
Chunk ==
    /\ Engine("send") /\ offset < Size
    /\ \/ /\ Answered("ok") /\ Phase("send", reply.offset)
          /\ retries' = 0
          /\ UNCHANGED <<phoneDisk, id, waiting>>
       \/ /\ Answered("conflict") /\ Phase("send", reply.offset)
          /\ UNCHANGED <<phoneDisk, id, retries, waiting>>
       \/ Answered("gone") /\ RetryLater(0)
       \/ Answered("refused") /\ End("failed")
       \/ /\ Answered("lost")
          /\ IF RetriesUsedUp
             THEN RetryLater(checkpoint)
             ELSE /\ retries' = retries + 1 /\ Phase("ask", offset)
                  /\ UNCHANGED <<phoneDisk, id, waiting>>
    /\ UNCHANGED <<server, call, faults>>

\* After a failed chunk: the server's offset, or the old one if it does not answer.
Reseek ==
    /\ Engine("ask") /\ reply # NoReply
    /\ Phase("send", IF Answered("ok") THEN reply.offset ELSE offset)
    /\ UNCHANGED <<phoneDisk, id, retries, waiting, server, call, faults>>

\* The answer to finish.
Finish ==
    /\ Engine("send") /\ offset >= Size
    /\ \/ Answered("ok") /\ End("succeeded")
       \/ Answered("refused") /\ End("failed")
       \/ (Answered("mismatch") \/ Answered("gone")) /\ RetryLater(0)
       \/ (Answered("lost") \/ Answered("error")) /\ RetryLater(checkpoint)
    /\ UNCHANGED <<server, call, faults>>

RunStep == StartRun \/ Ask \/ Resume \/ Begin \/ Chunk \/ Reseek \/ Finish

\* The server no longer accepts the phone's token: any answer may say so.
Unauthorized ==
    /\ work = "running" /\ waiting # NoCall
    /\ Fault
    /\ End("failed")
    /\ UNCHANGED <<server, call>>

-----------------------------------------------------------------------------
(* The phone: interruptions *)

\* The system stops the worker (no network, out of time) and queues the work
\* again; the worker's CancellationException handler cleans up.
SystemStop ==
    /\ work = "running" /\ Fault
    /\ work' = "queued"
    /\ attempts' = attempts + 1
    /\ Cleanup /\ LeaveEngine /\ HangUp
    /\ UNCHANGED <<server, call>>

UserCancel ==
    /\ work \in {"queued", "running"}
    /\ IF work = "running" THEN Cleanup ELSE UNCHANGED <<staged, checkpoint>>
    /\ work' = "cancelled" /\ LeaveEngine /\ HangUp
    /\ UNCHANGED <<attempts, server, call, faults>>

\* The app's process dies: nothing is cleaned up, and the work is queued again.
PhoneDies ==
    /\ work = "running" /\ Fault
    /\ work' = "queued"
    /\ attempts' = attempts + 1
    /\ LeaveEngine /\ HangUp
    /\ UNCHANGED <<staged, checkpoint, server, call>>

-----------------------------------------------------------------------------
(* Specification *)

Init ==
    /\ work = "queued" /\ attempts = 0 /\ staged = TRUE /\ checkpoint = 0
    /\ phase = "none" /\ id = 0 /\ offset = 0 /\ retries = 0
    /\ waiting = NoCall /\ reply = NoReply
    /\ begun = 0 /\ meta = {} /\ part = [i \in Ids |-> <<>>] /\ landed = {}
    /\ stray = FALSE
    /\ call = [c \in Calls |-> Free] /\ epoch = [i \in Ids |-> 0]
    /\ faults = 0

Next ==
    \/ RunStep \/ AskDamaged \/ Unauthorized
    \/ SystemStop \/ UserCancel \/ PhoneDies
    \/ Timeout \/ ServerCrash
    \/ \E c \in Calls : Serve(c)
    \/ OtherBegin

\* WorkManager runs queued work, the engine goes on, and a request that reaches
\* the server is served.
Fairness == WF_vars(RunStep) /\ \A c \in Calls : WF_vars(Serve(c))

Spec     == Init /\ [][Next]_vars
FairSpec == Spec /\ Fairness

-----------------------------------------------------------------------------
(* Properties *)

Answers == [tag : {"none", "lost", "gone", "error", "mismatch", "refused", "ok"}]
           \union [tag : {"ok", "conflict"}, offset : Nat]
           \union [tag : {"ok"}, id : Ids]
CallRecords ==
    [op : {"none"}]
    \union [op : {"begin"}, at : {"sent"}]
    \union [op : {"status"}, at : {"sent"}, id : Ids]
    \union [op : {"chunk"}, at : {"sent", "loaded", "locked"}, id : Ids,
            offset : Nat, block : Nat, epoch : Nat, current : Nat]
    \union [op : {"finish"}, at : {"sent", "sized", "hashed", "moved"}, id : Ids]

\* Every variable holds a value of its kind.
TypeOK ==
    /\ work \in {"queued", "running", "succeeded", "failed", "cancelled"}
    /\ attempts \in Nat /\ staged \in BOOLEAN /\ checkpoint \in 0..MaxIds
    /\ phase \in {"none", "resume", "begin", "send", "ask"}
    /\ id \in 0..MaxIds /\ offset \in Nat /\ retries \in Nat
    /\ waiting \in Calls \union {NoCall} /\ reply \in Answers
    /\ begun \in 0..MaxIds /\ meta \subseteq Ids
    /\ part \in [Ids -> Seq(Nat)] /\ epoch \in [Ids -> Nat]
    /\ landed \subseteq Seq(Nat) /\ stray \in BOOLEAN
    /\ call \in [Calls -> CallRecords]
    /\ faults \in Nat

\* The lock of api_upload_chunk: late and repeated chunks notwithstanding, the
\* .part of an upload that can be resumed holds the blocks of the file in order,
\* none twice, so that the offset the server reports can be trusted.  finish takes no
\* lock: once a chunk came between its hash and its move, nothing is said.
PartIsPrefix ==
    \A i \in meta : stray \/ /\ Len(part[i]) <= Size
                             /\ \A k \in DOMAIN part[i] : part[i][k] \in {k, 0}

\* The phone's upload keeps the promise of UploadPromise: it ends, what lands is the file
\* and success is told after it landed, with the one excuse that a chunk was stored between
\* the hash and the move of a finish, which a finish asked again beside a slow one and a
\* late chunk can bring about.
Promise == INSTANCE UploadPromise WITH
    outcome <- IF work \in {"queued", "running"} THEN "pending" ELSE work,
    excused <- stray
KeepsPromise == Promise!Spec
=============================================================================
