-------------------------- MODULE BackgroundProofs --------------------------
(***************************************************************************)
(* Proofs about the background threads that MCBackground runs.             *)
(*                                                                         *)
(* The live stream: while the slot is taken there is somebody who will     *)
(* give it back: a start request before its thread, a live thread, or a    *)
(* request about to start the thread in _hls_thread, which no other        *)
(* request has started yet.                                                *)
(*                                                                         *)
(* The notifiers: what a lookup answers while a request is pinned, what    *)
(* the count of the messages in flight stands for, and in which order the  *)
(* messages of a call arrive.  Each has an invariant of its own; they are  *)
(* preserved together, as the second and third rely on the types that the  *)
(* first holds.                                                            *)
(***************************************************************************)
EXTENDS MCBackground, FiniteSetTheorems, SequenceTheorems, TLAPS

-----------------------------------------------------------------------------
(* HlsStream *)

(* The inductive invariant.                                                  *)

\* A request past its claim has made an event; _hls_stop_event is never cleared.
EventMade == \A s \in Sessions : rpc[s] = "event" => event # None

\* The thread that a request is to start exists and has an event.
ThreadMade ==
    /\ \A s \in Sessions : rpc[s] = "thread" => thread # None
    /\ \A t \in Sessions : thread = t => stopEvent[t] # None

\* A thread that was started has an event, and only then its watchdog.
Started ==
    \A s \in Sessions : /\ tpc[s] # "none" => stopEvent[s] # None
                        /\ dog[s] # "none" => tpc[s] # "none"

\* Before a request has made its thread, there is none of its name.
NotBefore ==
    \A s \in Sessions :
        rpc[s] \in {"idle", "checked", "claimed", "event"} => tpc[s] = "none" /\ thread # s

\* Who will give the slot back.
SlotUsed ==
    running => \/ \E s \in Sessions : rpc[s] \in {"claimed", "event"}
               \/ \E s \in Sessions : tpc[s] \in ThreadLive
               \/ \E s, t \in Sessions : rpc[s] = "thread" /\ thread = t /\ tpc[t] = "none"

HlsInv ==
    TypeOK /\ EventMade /\ ThreadMade /\ Started /\ NotBefore /\ SlotUsed /\ FfmpegReaped

-----------------------------------------------------------------------------
(* Initially *)

LEMMA InitInv == Init => HlsInv
<1> SUFFICES ASSUME Init PROVE HlsInv
  OBVIOUS
<1>1. TypeOK
  BY DEF Init, TypeOK
<1>2. EventMade /\ Started /\ SlotUsed /\ FfmpegReaped
  BY DEF Init, EventMade, Started, SlotUsed, FfmpegReaped
<1>3. ThreadMade /\ NotBefore
  BY NoneAssumption DEF NoneAssumption, Init, ThreadMade, NotBefore
<1>4. QED BY <1>1, <1>2, <1>3 DEF HlsInv

-----------------------------------------------------------------------------
(* Every action preserves the invariant. *)

LEMMA RequestInv ==
    ASSUME HlsInv, NEW s \in Sessions, StartCheck(s) \/ RequestStep(s)
    PROVE  HlsInv'
<1> USE NoneAssumption DEF NoneAssumption, HlsInv, Request, Thread, stateVars, handleVars, sessionVars
<1>1. TypeOK'
  <2>1. CASE StartCheck(s) \/ Claim(s) \/ NewEvent(s)
    BY <2>1 DEF TypeOK, StartCheck, Claim, NewEvent
  <2>2. CASE NewThread(s)
    BY <2>2 DEF TypeOK, NewThread
  <2>3. CASE StartThread(s)
    <3>1. tpc' \in [Sessions -> ThreadLive \union {"none", "over"}]
      BY <2>3 DEF TypeOK, ThreadLive, ThreadMade, StartThread
    <3>2. QED BY <2>3, <3>1 DEF TypeOK, StartThread
  <2>4. QED BY <2>1, <2>2, <2>3 DEF RequestStep
<1>2. EventMade' /\ ThreadMade' /\ Started'
  BY DEF TypeOK, EventMade, ThreadMade, Started, NotBefore,
     StartCheck, RequestStep, Claim, NewEvent, NewThread, StartThread
<1>3. NotBefore'
  BY DEF TypeOK, ThreadMade, NotBefore,
     StartCheck, RequestStep, Claim, NewEvent, NewThread, StartThread
<1>4. SlotUsed'
  <2>1. CASE StartCheck(s)
    BY <2>1 DEF TypeOK, SlotUsed, StartCheck
  <2>2. CASE Claim(s)
    BY <2>2 DEF TypeOK, SlotUsed, Claim
  <2>3. CASE NewEvent(s)
    BY <2>3 DEF TypeOK, SlotUsed, NewEvent
  <2>4. CASE NewThread(s)
    BY <2>4 DEF TypeOK, SlotUsed, NotBefore, NewThread
  <2>5. CASE StartThread(s)
    BY <2>5 DEF TypeOK, SlotUsed, ThreadMade, ThreadLive, StartThread
  <2>6. QED BY <2>1, <2>2, <2>3, <2>4, <2>5 DEF RequestStep
<1>5. FfmpegReaped'
  BY DEF TypeOK, FfmpegReaped, StartCheck, RequestStep, Claim, NewEvent, NewThread, StartThread
<1>6. QED BY <1>1, <1>2, <1>3, <1>4, <1>5

LEMMA ThreadInv ==
    ASSUME HlsInv, NEW s \in Sessions, ThreadStep(s) \/ SourceEnds(s)
    PROVE  HlsInv'
<1> USE DEF HlsInv, Request, Thread, stateVars, handleVars, sessionVars
<1>1. TypeOK'
  BY DEF TypeOK, ThreadLive, ThreadStep, GiveUp, Launch, Register, Leave, Reap, Finish, SourceEnds
<1>2. EventMade' /\ ThreadMade' /\ Started' /\ NotBefore'
  BY DEF TypeOK, EventMade, ThreadMade, Started, NotBefore,
     ThreadStep, GiveUp, Launch, Register, Leave, Reap, Finish, SourceEnds
<1>3. SlotUsed'
  <2>1. CASE GiveUp(s) \/ Finish(s)
    BY <2>1 DEF SlotUsed, GiveUp, Finish
  <2>2. CASE Launch(s) \/ Register(s) \/ Leave(s) \/ Reap(s) \/ SourceEnds(s)
    <3>1. tpc'[s] \in ThreadLive
      BY <2>2 DEF TypeOK, ThreadLive, Launch, Register, Leave, Reap, SourceEnds
    <3>2. QED BY <3>1 DEF SlotUsed
  <2>3. QED BY <2>1, <2>2 DEF ThreadStep
<1>4. FfmpegReaped'
  BY DEF TypeOK, FfmpegReaped, ThreadStep, GiveUp, Launch, Register, Leave, Reap, Finish, SourceEnds
<1>5. QED BY <1>1, <1>2, <1>3, <1>4

LEMMA OtherInv ==
    ASSUME HlsInv, \/ \E s \in Sessions : Watch(s)
                 \/ Fetch \/ Expire
                 \/ \E y \in Stops : StopCheck(y) \/ StopStep(y)
    PROVE  HlsInv'
<1> USE DEF HlsInv, stateVars, handleVars, sessionVars
<1>1. CASE \E s \in Sessions : Watch(s)
  <2>1. PICK s \in Sessions : Watch(s)
    BY <1>1
  <2>2. stopEvent[s] \in Sessions
    BY <2>1 DEF TypeOK, Started, Watch
  <2>3. QED
    BY <2>1, <2>2 DEF Watch, Bark, TypeOK, EventMade, ThreadMade, Started, NotBefore,
       SlotUsed, FfmpegReaped
<1>2. CASE Fetch \/ Expire
  <2>1. TypeOK'
    BY <1>2 DEF Fetch, Expire, TypeOK
  <2>2. EventMade' /\ ThreadMade' /\ Started' /\ NotBefore' /\ FfmpegReaped'
    BY <1>2 DEF Fetch, Expire, EventMade, ThreadMade, Started, NotBefore, FfmpegReaped
  <2>3. SlotUsed'
    BY <1>2 DEF Fetch, Expire, SlotUsed
  <2>4. QED BY <2>1, <2>2, <2>3
<1>3. CASE \E y \in Stops : StopCheck(y) \/ StopStep(y)
  <2>1. PICK y \in Stops : StopCheck(y) \/ StopStep(y)
    BY <1>3
  <2>2. TypeOK'
    <3>1. CASE StopCheck(y) \/ StopSet(y) \/ StopClear(y)
      BY <3>1 DEF TypeOK, StopCheck, StopSet, StopClear
    <3>2. CASE StopProcess(y)
      <4>1. ffmpeg' \in [Sessions -> BOOLEAN]
        BY <3>2, Zenon DEF StopProcess
      <4>2. QED BY <3>2, <4>1 DEF TypeOK, StopProcess
    <3>3. QED BY <2>1, <3>1, <3>2 DEF StopStep
  <2>3. EventMade' /\ ThreadMade' /\ Started' /\ NotBefore' /\ SlotUsed'
    BY <2>1 DEF EventMade, ThreadMade, Started, NotBefore, SlotUsed,
       StopCheck, StopStep, StopSet, StopProcess, StopClear
  <2>4. FfmpegReaped'
    BY <2>1 DEF FfmpegReaped, StopCheck, StopStep, StopSet, StopProcess, StopClear
  <2>5. QED BY <2>2, <2>3, <2>4
<1>4. QED BY <1>1, <1>2, <1>3

LEMMA NextInv == HlsInv /\ [Next]_vars => HlsInv'
<1> SUFFICES ASSUME HlsInv, [Next]_vars PROVE HlsInv'
  OBVIOUS
<1>1. ASSUME NEW s \in Sessions, StartCheck(s) \/ RequestStep(s) PROVE HlsInv'
  BY <1>1, RequestInv
<1>2. ASSUME NEW s \in Sessions, ThreadStep(s) \/ SourceEnds(s) PROVE HlsInv'
  BY <1>2, ThreadInv
<1>3. CASE \/ \E s \in Sessions : Watch(s)
           \/ Fetch \/ Expire
           \/ \E y \in Stops : StopCheck(y) \/ StopStep(y)
  BY <1>3, OtherInv
<1>4. CASE UNCHANGED vars
  BY <1>4 DEF vars, stateVars, handleVars, sessionVars, HlsInv, TypeOK, EventMade, ThreadMade,
     Started, NotBefore, SlotUsed, FfmpegReaped
<1>5. QED BY <1>1, <1>2, <1>3, <1>4 DEF Next

LEMMA Invariance == Spec => []HlsInv
<1>1. QED BY InitInv, NextInv, PTL DEF Spec

-----------------------------------------------------------------------------
(* The theorems *)

\* The state of the stream keeps its types, whatever starts and stops overlap.
THEOREM TypeCorrect == Spec => []TypeOK
<1>1. HlsInv => TypeOK BY DEF HlsInv
<1>2. QED BY <1>1, Invariance, PTL

\* The slot is never left taken by nothing (hls_bp.py, hls_runner.py): for any number of
\* overlapping starts and stops.
THEOREM SlotSafe == Spec => []SlotNotLeaked
<1>1. HlsInv => SlotNotLeaked
  BY DEF HlsInv, SlotUsed, SlotNotLeaked
<1>2. QED BY <1>1, Invariance, PTL

\* No FFmpeg of the stream outlives its annotator thread (hls_runner.py).
THEOREM FfmpegSafe == Spec => []FfmpegReaped
<1>1. HlsInv => FfmpegReaped BY DEF HlsInv
<1>2. QED BY <1>1, Invariance, PTL

-----------------------------------------------------------------------------
(* Notify *)

\* Every call has messages, the limits are positive, and the names are apart
\* (the code: a batch is published when it is not empty; 64 in the queue, 5 in a batch).
NotifyConstants ==
    /\ Batch \in [Reporters -> Nat \ {0}]
    /\ BatchMax \in Nat \ {0} /\ QueueMax \in Nat \ {0}
    /\ IsFiniteSet(Reporters)
    /\ N!Channels \cap Tests = {} /\ None \notin N!Posters \union Addresses \union N!Message

-----------------------------------------------------------------------------
(* The name resolution *)

\* The request connects through its pin, or is about to take it away.
Pinning(p) == post[p].pc \in {"connect", "unpin"}

\* The holder of the lock is the request that has replaced the resolver.
Pinned ==
    /\ \A p \in N!Posters : Pinning(p) <=> pinLock = p
    /\ \A p \in N!Posters : post[p].pc \in {"read", "pin", "connect", "unpin"} => post[p].addr \in Addresses
    /\ \A p \in N!Posters : Pinning(p) =>
          resolver = <<[host |-> post[p].host, addr |-> post[p].addr]>> \o post[p].orig

\* The messages of a call are never none, and are of the reporter.
LEMMA MessagesType ==
    ASSUME NotifyConstants, NEW r \in Reporters, NEW c \in N!Channels
    PROVE  /\ N!Messages(r, c) \in Seq(N!Message) /\ N!Messages(r, c) # <<>>
           /\ \A i \in 1 .. Len(N!Messages(r, c)) : N!Messages(r, c)[i] = <<r, i>>
<1> DEFINE n == IF Batch[r] < BatchMax THEN Batch[r] ELSE BatchMax
           first == [i \in 1..n |-> <<r, i>>]
<1>1. n \in Nat \ {0} /\ (Batch[r] > BatchMax => n = BatchMax)
  BY DEF NotifyConstants
<1> HIDE DEF n
<1>2. first \in Seq(N!Message) /\ Len(first) = n
  BY <1>1 DEF N!Message
<1>3. \A i \in 1..n : first[i] = <<r, i>>
  OBVIOUS
<1> HIDE DEF first
<1>4. CASE c = "push" /\ Batch[r] > BatchMax
  <2>1. N!Messages(r, c) = Append(first, <<r, n + 1>>)
    BY <1>1, <1>4 DEF N!Messages, first, n
  <2>2. <<r, n + 1>> \in N!Message
    BY <1>1 DEF N!Message
  <2> DEFINE all == Append(first, <<r, n + 1>>)
  <2>3. /\ all \in Seq(N!Message) /\ all # <<>> /\ Len(all) = n + 1
        /\ \A i \in 1..n : all[i] = first[i]
        /\ all[n + 1] = <<r, n + 1>>
    BY <1>1, <1>2, <2>2, AppendProperties
  <2> HIDE DEF all
  <2>4. \A i \in 1 .. n + 1 : i \in 1..n \/ i = n + 1
    BY <1>1
  <2>5. \A i \in 1 .. Len(all) : all[i] = <<r, i>>
    BY <1>3, <2>3, <2>4
  <2> QED BY <2>1, <2>3, <2>5 DEF all
<1>5. CASE ~(c = "push" /\ Batch[r] > BatchMax)
  <2>1. N!Messages(r, c) = first
    BY <1>5 DEF N!Messages, first, n
  <2> QED BY <1>1, <1>2, <1>3, <2>1
<1> QED BY <1>4, <1>5

\* A lookup answers with addresses.
LEMMA AnswersType == ASSUME N!PostTyped, NEW h PROVE N!Answers(h) \subseteq Addresses
<1> DEFINE hits == {i \in DOMAIN resolver : resolver[i].host = h}
           first == {i \in hits : \A j \in hits : i <= j}
<1>1. \A i \in DOMAIN resolver : resolver[i].addr \in Addresses
  <2>1. resolver \in [1 .. Len(resolver) -> [host : N!Channels, addr : Addresses]]
    BY LenProperties DEF N!PostTyped, N!PinList
  <2> QED BY <2>1
<1>2. {resolver[i].addr : i \in first} \subseteq Addresses
  BY <1>1
<1>3. N!Answers(h) = IF hits = {} THEN Addresses ELSE {resolver[i].addr : i \in first}
  BY DEF N!Answers
<1> QED BY <1>2, <1>3

\* What the outermost pin answers.
LEMMA PinAnswers ==
    ASSUME NEW h \in N!Channels, NEW a \in Addresses, NEW o \in N!PinList,
           resolver = <<[host |-> h, addr |-> a]>> \o o
    PROVE  N!Answers(h) = {a}
<1> DEFINE hits == {i \in DOMAIN resolver : resolver[i].host = h}
           first == {i \in hits : \A j \in hits : i <= j}
<1>1. /\ resolver \in N!PinList /\ DOMAIN resolver \in SUBSET (Nat \ {0}) /\ 1 \in DOMAIN resolver
      /\ resolver[1] = [host |-> h, addr |-> a]
  <2>1. <<[host |-> h, addr |-> a]>> \in N!PinList
    BY DEF N!PinList
  <2> QED BY <2>1, ConcatProperties DEF N!PinList
<1>2. 1 \in hits /\ hits \in SUBSET (Nat \ {0})
  BY <1>1
<1> HIDE DEF hits
<1>3. first = {1}
  <2>1. \A j \in hits : 1 <= j
    BY <1>2
  <2>2. \A i \in hits : i <= 1 => i = 1
    BY <1>2
  <2> QED BY <1>2, <2>1, <2>2
<1> QED BY <1>1, <1>2, <1>3 DEF N!Answers, hits

\* A request goes on to the next of its steps.
LEMMA PostMoves ==
    ASSUME N!PostTyped, NEW p \in N!Posters, NEW s, s \in N!PostState, post' = [post EXCEPT ![p] = s]
    PROVE  /\ post' \in [N!Posters -> N!PostState] /\ post'[p] = s
           /\ \A q \in N!Posters \ {p} : post'[q] = post[q]
  BY DEF N!PostTyped

\* The record of a request after its step.
After(p) ==
    /\ post' \in [N!Posters -> N!PostState]
    /\ \A q \in N!Posters \ {p} : post'[q] = post[q]

\* A step that changes nothing but the place of the request.
LEMMA StepType ==
    ASSUME N!PostTyped, NEW p \in N!Posters, NEW s \in {"read", "pin", "connect", "unpin", "end"}, N!Step(p, s)
    PROVE  After(p) /\ post'[p] = [post[p] EXCEPT !.pc = s]
<1>1. [post[p] EXCEPT !.pc = s] \in N!PostState
  BY DEF N!PostTyped, N!PostState
<1>2. post' = [post EXCEPT ![p] = [post[p] EXCEPT !.pc = s]]
  BY DEF N!Step
<1> QED BY <1>1, <1>2, PostMoves DEF After

\* The invariant of the name resolution.
PinInv == N!PostTyped /\ Pinned

\* The address is validated before the lock is asked for: no pin changes.
LEMMA ValidatePins == ASSUME PinInv, NEW p \in N!Posters, N!Validate(p) PROVE PinInv'
<1>1. PICK a \in Addresses : post' = [post EXCEPT ![p] = [post[p] EXCEPT !.pc = "read", !.addr = a]]
  <2>1. PICK a \in N!Answers(post[p].host) : post' = [post EXCEPT ![p].pc = "read", ![p].addr = a]
    BY DEF N!Validate
  <2> QED BY <2>1, AnswersType DEF PinInv, N!PostTyped, N!PostState
<1>2. [post[p] EXCEPT !.pc = "read", !.addr = a] \in N!PostState
  BY DEF PinInv, N!PostTyped, N!PostState
<1>3. /\ After(p) /\ post'[p].pc = "read" /\ post'[p].addr = a
      /\ UNCHANGED <<sent, resolver, pinLock>> /\ post[p].pc = "check"
  BY <1>1, <1>2, PostMoves DEF PinInv, After, N!Validate, N!PostState, N!PostTyped
<1> QED BY <1>3 DEF PinInv, Pinned, Pinning, After, N!PostTyped

\* A refused URL reaches neither lock nor resolver.
LEMMA RefusePins == ASSUME PinInv, NEW p \in N!Posters, N!RefuseUrl(p) PROVE PinInv'
<1>1. /\ After(p) /\ post'[p].pc = "end"
      /\ UNCHANGED <<sent, resolver, pinLock>> /\ post[p].pc = "check"
  BY StepType DEF PinInv, N!RefuseUrl, N!PostTyped, N!PostState
<1> QED BY <1>1 DEF PinInv, Pinned, Pinning, After, N!PostTyped

\* The resolver that is kept may be the pin of another: it is a list of pins all the same.
LEMMA ReadPins == ASSUME PinInv, NEW p \in N!Posters, N!ReadResolver(p) PROVE PinInv'
<1>1. [post[p] EXCEPT !.pc = "pin", !.orig = resolver] \in N!PostState
  BY DEF PinInv, N!PostTyped, N!PostState
<1>2. post' = [post EXCEPT ![p] = [post[p] EXCEPT !.pc = "pin", !.orig = resolver]]
  BY DEF N!ReadResolver, PinInv, N!PostTyped, N!PostState
<1>3. /\ After(p) /\ post'[p].pc = "pin" /\ post'[p].addr = post[p].addr
      /\ UNCHANGED <<sent, resolver, pinLock>> /\ post[p].pc = "read"
  BY <1>1, <1>2, PostMoves DEF PinInv, After, N!ReadResolver, N!PostState, N!PostTyped
<1> QED BY <1>3 DEF PinInv, Pinned, Pinning, After, N!PostTyped

\* The lock is free, so no other request is pinned, and the new pin is on top.
LEMMA PinPins == ASSUME NotifyConstants, PinInv, NEW p \in N!Posters, N!Pin(p) PROVE PinInv'
<1>1. /\ After(p) /\ post'[p] = [post[p] EXCEPT !.pc = "connect"] /\ post[p].pc = "pin"
      /\ pinLock = None /\ pinLock' = p /\ UNCHANGED sent
      /\ resolver' = <<[host |-> post[p].host, addr |-> post[p].addr]>> \o post[p].orig
  BY StepType DEF PinInv, N!Pin
<1>2. /\ post'[p].pc = "connect" /\ post'[p].addr = post[p].addr /\ post'[p].host = post[p].host
      /\ post'[p].orig = post[p].orig /\ post[p].orig \in N!PinList /\ post[p].host \in N!Channels
      /\ post[p].addr \in Addresses
  BY <1>1 DEF PinInv, N!PostTyped, N!PostState, Pinned
<1>3. <<[host |-> post[p].host, addr |-> post[p].addr]>> \in N!PinList
  BY <1>2 DEF N!PinList
<1>4. resolver' \in N!PinList
  BY <1>1, <1>2, <1>3, ConcatProperties DEF N!PinList
<1>5. \A q \in N!Posters : ~Pinning(q)
  BY <1>1 DEF PinInv, Pinned, NotifyConstants
<1>6. N!PostTyped'
  BY <1>1, <1>4 DEF PinInv, N!PostTyped, After
<1>7. Pinned'
  BY <1>1, <1>2, <1>5 DEF PinInv, Pinned, Pinning, After
<1> QED BY <1>6, <1>7 DEF PinInv

\* The request is made inside the pin.
LEMMA ConnectPins == ASSUME PinInv, NEW p \in N!Posters, N!Connect(p) PROVE PinInv'
<1>1. /\ After(p) /\ post'[p] = [post[p] EXCEPT !.pc = "unpin"] /\ post[p].pc = "connect"
      /\ UNCHANGED <<resolver, pinLock>>
  BY StepType DEF PinInv, N!Connect
<1>2. /\ post'[p].pc = "unpin" /\ post'[p].addr = post[p].addr /\ post'[p].host = post[p].host
      /\ post'[p].orig = post[p].orig /\ post[p].msg \in N!Message \union {None}
  BY <1>1 DEF PinInv, N!PostTyped, N!PostState
<1>3. sent' \in [N!Channels -> Seq(N!Message \union {None})]
  BY <1>2 DEF PinInv, N!PostTyped, N!Connect
<1>4. N!PostTyped'
  BY <1>1, <1>3 DEF PinInv, N!PostTyped, After
<1>5. \A q \in N!Posters :
         /\ post'[q].addr = post[q].addr /\ post'[q].host = post[q].host /\ post'[q].orig = post[q].orig
         /\ post'[q].pc = post[q].pc \/ (post'[q].pc = "unpin" /\ post[q].pc = "connect")
  BY <1>1, <1>2 DEF After
<1>6. \A q \in N!Posters :
         /\ Pinning(q)' <=> Pinning(q)
         /\ post'[q].pc \in {"read", "pin", "connect", "unpin"}
               => post[q].pc \in {"read", "pin", "connect", "unpin"}
  BY <1>5 DEF Pinning
<1>7. Pinned'
  BY <1>1, <1>5, <1>6, SMTT(20) DEF PinInv, Pinned
<1> QED BY <1>4, <1>7 DEF PinInv

\* The holder gives the lock back, and nobody else relied on the resolver.
LEMMA UnpinPins == ASSUME NotifyConstants, PinInv, NEW p \in N!Posters, N!Unpin(p) PROVE PinInv'
<1>1. /\ After(p) /\ post'[p] = [post[p] EXCEPT !.pc = "end"] /\ post[p].pc = "unpin"
      /\ pinLock' = None /\ resolver' = post[p].orig /\ UNCHANGED sent
  BY StepType DEF PinInv, N!Unpin
<1>2. post'[p].pc = "end" /\ post[p].orig \in N!PinList
  BY <1>1 DEF PinInv, N!PostTyped, N!PostState
<1>3. \A q \in N!Posters \ {p} : ~Pinning(q)
  BY <1>1 DEF PinInv, Pinned, Pinning
<1>4. N!PostTyped'
  BY <1>1, <1>2 DEF PinInv, N!PostTyped, After
<1>5. \A q \in N!Posters : post'[q].pc \notin {"connect", "unpin"} /\ pinLock' # q
  BY <1>1, <1>2, <1>3 DEF Pinning, After, NotifyConstants
<1>6. \A q \in N!Posters : post'[q].pc \in {"read", "pin"} => post'[q].addr \in Addresses
  BY <1>1, <1>2 DEF PinInv, Pinned, After
<1>7. Pinned'
  BY <1>5, <1>6 DEF Pinned, Pinning
<1> QED BY <1>4, <1>7 DEF PinInv

\* What the record of a poster is after a request, and of a test after its only one.
LEMMA IdleType == N!Idle \in N!PostState /\ [N!Idle EXCEPT !.pc = "done"] \in N!PostState
<1>1. <<>> \in N!PinList /\ "push" \in N!Channels
  BY DEF N!PinList, N!Channels
<1> HIDE DEF N!PinList, N!Channels
<1> QED BY <1>1 DEF N!Idle, N!PostState

\* The request ends after its pin is gone.
LEMMA EndPins == ASSUME PinInv, NEW p \in N!Posters, N!EndPost(p) PROVE PinInv'
<1> DEFINE s == IF p \in N!Channels THEN N!Idle ELSE [N!Idle EXCEPT !.pc = "done"]
<1>1. s \in N!PostState /\ s.pc \in {"idle", "done"}
  BY IdleType DEF N!Idle
<1>2. post' = [post EXCEPT ![p] = s] /\ UNCHANGED <<sent, resolver, pinLock>> /\ post[p].pc = "end"
  BY DEF N!EndPost
<1> HIDE DEF s
<1>3. After(p) /\ post'[p].pc \in {"idle", "done"}
  BY <1>1, <1>2, PostMoves DEF PinInv, After
<1> QED BY <1>2, <1>3 DEF PinInv, Pinned, Pinning, After, N!PostTyped

\* A request of a worker begins without a pin.
LEMMA GetPins == ASSUME PinInv, N!QueueTyped, NEW c \in N!Channels, N!Get(c) PROVE PinInv'
<1> DEFINE s == [N!Idle EXCEPT !.pc = "check", !.msg = Head(queue[c]), !.host = c]
<1>1. Head(queue[c]) \in N!Message /\ c \in N!Posters
  BY DEF N!QueueTyped, N!Get, N!Posters
<1>2. s \in N!PostState /\ s.pc = "check"
  BY <1>1, IdleType DEF N!Idle, N!PostState
<1>3. post' = [post EXCEPT ![c] = s] /\ UNCHANGED <<sent, resolver, pinLock>> /\ post[c].pc = "idle"
  BY DEF N!Get
<1> HIDE DEF s
<1>4. After(c) /\ post'[c].pc = "check"
  BY <1>1, <1>2, <1>3, PostMoves DEF PinInv, After
<1> QED BY <1>1, <1>3, <1>4 DEF PinInv, Pinned, Pinning, After, N!PostTyped

\* So does that of a test.
LEMMA TestPins == ASSUME PinInv, NEW t \in Tests, N!Test(t) PROVE PinInv'
<1>1. PICK h \in N!Channels : post' = [post EXCEPT ![t] = [N!Idle EXCEPT !.pc = "check", !.host = h]]
  BY DEF N!Test
<1> DEFINE s == [N!Idle EXCEPT !.pc = "check", !.host = h]
<1>2. s \in N!PostState /\ s.pc = "check" /\ t \in N!Posters
  BY <1>1, IdleType DEF N!Idle, N!PostState, N!Posters
<1>3. post' = [post EXCEPT ![t] = s] /\ UNCHANGED <<sent, resolver, pinLock>> /\ post[t].pc = "idle"
  BY <1>1 DEF N!Test
<1> HIDE DEF s
<1>4. After(t) /\ post'[t].pc = "check"
  BY <1>2, <1>3, PostMoves DEF PinInv, After
<1> QED BY <1>2, <1>3, <1>4 DEF PinInv, Pinned, Pinning, After, N!PostTyped

\* A new process has the resolver of the system and a free lock.
LEMMA CrashPins == ASSUME NotifyConstants, PinInv, N!Crash PROVE PinInv'
<1>1. /\ post' \in [N!Posters -> N!PostState]
      /\ \A p \in N!Posters : post'[p].pc \in {"idle", "done"}
  BY IdleType DEF N!Crash, N!Idle
<1>2. resolver' = <<>> /\ pinLock' = None /\ UNCHANGED sent
  BY DEF N!Crash
<1>3. N!PostTyped'
  BY <1>1, <1>2 DEF PinInv, N!PostTyped, N!PinList
<1>4. Pinned'
  BY <1>1, <1>2 DEF Pinned, Pinning, NotifyConstants
<1> QED BY <1>3, <1>4 DEF PinInv

\* Publishing has nothing to do with the name resolution.
LEMMA ReportPins == ASSUME PinInv, UNCHANGED N!postVars PROVE PinInv'
  BY DEF PinInv, N!postVars, N!PostTyped, Pinned, Pinning

\* What a request that connects finds, under the name its pin is kept under, is what it
\* validated.
LEMMA ConnectsAsPinned == PinInv => N!ConnectsToValidated
<1> SUFFICES ASSUME PinInv, NEW p \in N!Posters, post[p].pc = "connect"
             PROVE  N!Answers(post[p].host) = {post[p].addr}
  BY DEF N!ConnectsToValidated, N!ConnectAnswers
<1>1. /\ post[p].host \in N!Channels /\ post[p].addr \in Addresses /\ post[p].orig \in N!PinList
      /\ resolver = <<[host |-> post[p].host, addr |-> post[p].addr]>> \o post[p].orig
  BY DEF PinInv, Pinned, Pinning, N!PostTyped, N!PostState
<1> QED BY <1>1, PinAnswers

-----------------------------------------------------------------------------
(* The count of the messages *)

\* The record of a reporter after its step.
RepAfter(r) ==
    /\ rep' \in [Reporters -> N!RepState]
    /\ \A q \in Reporters \ {r} : rep'[q] = rep[q]
    /\ \A q \in Reporters : rep'[q].pc \in {"count", "put", "drop"} => rep'[q].left # <<>>

\* The frame of a reporter's step.
LEMMA RepMoves ==
    ASSUME N!RepTyped, NEW r \in Reporters, NEW s, s \in N!RepState, rep' = [rep EXCEPT ![r] = s],
           s.pc \in {"count", "put", "drop"} => s.left # <<>>
    PROVE  RepAfter(r) /\ rep'[r] = s
  BY DEF N!RepTyped, RepAfter

\* After the push comes the webhook, after the webhook nothing.
LEMMA NextChannelMoves ==
    ASSUME N!RepTyped, NEW r \in Reporters, N!NextChannel(r)
    PROVE  /\ RepAfter(r) /\ rep'[r].chan = "hook"
           /\ rep'[r].pc = IF rep[r].chan = "push" THEN "load" ELSE "done"
<1> DEFINE s == IF rep[r].chan = "push" THEN [pc |-> "load", chan |-> "hook", left |-> <<>>]
                ELSE [pc |-> "done", chan |-> "hook", left |-> <<>>]
<1>1. s \in N!RepState /\ s.chan = "hook" /\ s.pc = IF rep[r].chan = "push" THEN "load" ELSE "done"
  BY DEF N!RepState, N!Channels
<1>2. rep' = [rep EXCEPT ![r] = s]
  BY DEF N!NextChannel
<1> HIDE DEF s
<1> QED BY <1>1, <1>2, RepMoves

\* More than one message: one is left after the first.
LEMMA TailNotEmpty ==
    ASSUME NEW S, NEW s \in Seq(S), Len(s) > 1
    PROVE  Tail(s) \in Seq(S) /\ Tail(s) # <<>>
<1>1. Tail(s) \in Seq(S) /\ Len(Tail(s)) = Len(s) - 1
  OBVIOUS
<1>2. Len(Tail(s)) # 0 /\ Len(<<>>) = 0
  BY <1>1
<1>3. Tail(s) # <<>>
  BY <1>2, Zenon
<1> QED BY <1>1, <1>3

\* A message that is dealt with is followed by the next or by the next channel.
LEMMA NextMessageMoves ==
    ASSUME N!RepTyped, NEW r \in Reporters, rep[r].pc \in {"put", "drop"}, N!NextMessage(r)
    PROVE  /\ RepAfter(r)
           /\ \/ /\ rep'[r].pc = "count" /\ rep'[r].chan = rep[r].chan
                 /\ rep'[r].left = Tail(rep[r].left)
              \/ /\ rep'[r].chan = "hook"
                 /\ rep'[r].pc = IF rep[r].chan = "push" THEN "load" ELSE "done"
<1>1. rep[r] \in N!RepState /\ rep[r].left # <<>> /\ rep[r].left \in Seq(N!Message)
  BY DEF N!RepTyped, N!RepState
<1>2. CASE Len(rep[r].left) > 1
  <2> DEFINE s == [rep[r] EXCEPT !.pc = "count", !.left = Tail(rep[r].left)]
  <2>1. rep' = [rep EXCEPT ![r] = s]
    BY <1>1, <1>2 DEF N!NextMessage, N!RepTyped, N!RepState
  <2>2. Tail(rep[r].left) \in Seq(N!Message) /\ Tail(rep[r].left) # <<>>
    BY <1>1, <1>2, TailNotEmpty
  <2>3. s \in N!RepState /\ s.left # <<>> /\ s.pc = "count" /\ s.chan = rep[r].chan /\ s.left = Tail(rep[r].left)
    BY <1>1, <2>2 DEF N!RepState
  <2> HIDE DEF s
  <2> QED BY <2>1, <2>3, RepMoves
<1>3. CASE ~(Len(rep[r].left) > 1)
  BY <1>3, NextChannelMoves DEF N!NextMessage
<1> QED BY <1>2, <1>3

\* Finitely many reporters publish at a time.
LEMMA PublishingFinite ==
    ASSUME NotifyConstants, NEW c
    PROVE  IsFiniteSet(N!Publishing(c)) /\ Cardinality(N!Publishing(c)) \in Nat
  BY FS_Subset, FS_CardinalityType DEF NotifyConstants, N!Publishing

\* A reporter that neither begins nor ends to publish leaves the count of those that do,
LEMMA PublishingSame ==
    ASSUME NEW r \in Reporters, RepAfter(r), NEW c,
           \/ rep[r].pc \notin {"put", "drop"} /\ rep'[r].pc \notin {"put", "drop"}
           \/ rep[r].pc \in {"put", "drop"} /\ rep'[r].pc \in {"put", "drop"} /\ rep'[r].chan = rep[r].chan
    PROVE  N!Publishing(c)' = N!Publishing(c)
  BY DEF N!Publishing, RepAfter

\* one that begins adds itself,
LEMMA PublishingMore ==
    ASSUME NotifyConstants, NEW r \in Reporters, RepAfter(r), rep[r].pc \notin {"put", "drop"},
           rep'[r].pc \in {"put", "drop"},
           NEW c
    PROVE  Cardinality(N!Publishing(c)') =
              IF c = rep'[r].chan THEN Cardinality(N!Publishing(c)) + 1 ELSE Cardinality(N!Publishing(c))
<1>1. CASE c = rep'[r].chan
  <2>1. N!Publishing(c)' = N!Publishing(c) \union {r} /\ r \notin N!Publishing(c)
    BY <1>1 DEF N!Publishing, RepAfter
  <2> QED BY <1>1, <2>1, PublishingFinite, FS_AddElement
<1>2. CASE c # rep'[r].chan
  <2>1. N!Publishing(c)' = N!Publishing(c)
    BY <1>2 DEF N!Publishing, RepAfter
  <2> QED BY <1>2, <2>1
<1> QED BY <1>1, <1>2

\* and one that ends takes itself away.
LEMMA PublishingFewer ==
    ASSUME NotifyConstants, NEW r \in Reporters, RepAfter(r), rep[r].pc \in {"put", "drop"},
           rep'[r].pc \notin {"put", "drop"},
           NEW c
    PROVE  /\ Cardinality(N!Publishing(c)') =
                 IF c = rep[r].chan THEN Cardinality(N!Publishing(c)) - 1 ELSE Cardinality(N!Publishing(c))
           /\ Cardinality(N!Publishing(c)') \in Nat
<1>1. CASE c = rep[r].chan
  <2>1. N!Publishing(c)' = N!Publishing(c) \ {r} /\ r \in N!Publishing(c)
    BY <1>1 DEF N!Publishing, RepAfter
  <2> QED BY <1>1, <2>1, PublishingFinite, FS_RemoveElement, FS_CardinalityType
<1>2. CASE c # rep[r].chan
  <2>1. N!Publishing(c)' = N!Publishing(c)
    BY <1>2 DEF N!Publishing, RepAfter
  <2> QED BY <1>2, <2>1, PublishingFinite
<1> QED BY <1>1, <1>2

\* The count of a channel, in terms of the library's Cardinality.
InflightCount ==
    \A c \in N!Channels : inflight[c] = Len(queue[c]) + Cardinality(N!Publishing(c)) + N!Posting(c)
LEMMA SameCount == InflightCount <=> N!InflightExact
<1>1. \A S : N!Cardinality(S) = Cardinality(S)
  BY DEF N!Cardinality, Cardinality
<1> QED BY <1>1 DEF InflightCount, N!InflightExact

\* The invariant of the count.
CountInv == N!RepTyped /\ N!QueueTyped /\ InflightCount

\* A reporter that neither queues nor leaves the queue.
LEMMA QuietReport ==
    ASSUME CountInv, NEW r \in Reporters, RepAfter(r), recorded' \subseteq Reporters,
           \/ rep[r].pc \notin {"put", "drop"} /\ rep'[r].pc \notin {"put", "drop"}
           \/ rep[r].pc \in {"put", "drop"} /\ rep'[r].pc \in {"put", "drop"} /\ rep'[r].chan = rep[r].chan,
           UNCHANGED <<N!queueVars, post>>
    PROVE  CountInv'
<1>1. \A c \in N!Channels : N!Publishing(c)' = N!Publishing(c)
  BY PublishingSame
<1>2. N!QueueTyped' /\ N!RepTyped'
  BY DEF CountInv, N!QueueTyped, N!queueVars, N!RepTyped, RepAfter
<1>3. InflightCount'
  BY <1>1 DEF CountInv, InflightCount, N!Posting, N!queueVars
<1> QED BY <1>2, <1>3 DEF CountInv

\* The record is written before anything is counted.
LEMMA RecordCounts ==
    ASSUME NotifyConstants, CountInv, NEW r \in Reporters, N!Record(r) \/ N!RecordFails(r)
    PROVE  CountInv'
<1> DEFINE s == [pc |-> "load", chan |-> "push", left |-> <<>>]
           t == [rep[r] EXCEPT !.pc = "done"]
<1>1. s \in N!RepState /\ s.pc = "load" /\ t \in N!RepState /\ t.pc = "done"
  BY DEF CountInv, N!RepTyped, N!RepState, N!Channels
<1>2. /\ rep' = [rep EXCEPT ![r] = s] \/ rep' = [rep EXCEPT ![r] = t]
      /\ rep[r].pc = "new" /\ recorded' \subseteq Reporters /\ UNCHANGED <<N!queueVars, post>>
  BY DEF N!Record, N!RecordFails, CountInv, N!RepTyped, N!postVars
<1> HIDE DEF s, t
<1>3. RepAfter(r) /\ rep'[r].pc \in {"load", "done"}
  BY <1>1, <1>2, RepMoves DEF CountInv
<1> QED BY <1>2, <1>3, QuietReport

\* The configuration is read: messages to publish, or the next channel.
LEMMA LoadMoves ==
    ASSUME NotifyConstants, N!RepTyped, NEW r \in Reporters, N!Load(r)
    PROVE  /\ RepAfter(r)
           /\ \/ /\ rep'[r].pc = "count" /\ rep'[r].chan = rep[r].chan
                 /\ rep'[r].left = N!Messages(r, rep[r].chan)
              \/ /\ rep'[r].chan = "hook"
                 /\ rep'[r].pc = IF rep[r].chan = "push" THEN "load" ELSE "done"
<1>1. CASE N!NextChannel(r)
  BY <1>1, NextChannelMoves
<1>2. CASE rep' = [rep EXCEPT ![r].pc = "count", ![r].left = N!Messages(r, rep[r].chan)]
  <2> DEFINE s == [rep[r] EXCEPT !.pc = "count", !.left = N!Messages(r, rep[r].chan)]
  <2>1. rep[r].chan \in N!Channels /\ rep[r] \in N!RepState
    BY DEF N!RepTyped, N!RepState
  <2>2. N!Messages(r, rep[r].chan) \in Seq(N!Message) /\ N!Messages(r, rep[r].chan) # <<>>
    BY <2>1, MessagesType
  <2>3. /\ s \in N!RepState /\ s.pc = "count" /\ s.chan = rep[r].chan
        /\ s.left = N!Messages(r, rep[r].chan) /\ s.left # <<>>
    BY <2>1, <2>2 DEF N!RepState
  <2>4. rep' = [rep EXCEPT ![r] = s]
    BY <1>2, <2>1 DEF N!RepTyped, N!RepState
  <2> HIDE DEF s
  <2> QED BY <2>3, <2>4, RepMoves
<1> QED BY <1>1, <1>2 DEF N!Load

\* A step of the publishing changes only the pc.
LEMMA PcMoves ==
    ASSUME N!RepTyped, NEW r \in Reporters, NEW s \in {"put", "drop"}, rep[r].pc \in {"count", "put"},
           rep' = [rep EXCEPT ![r].pc = s]
    PROVE  RepAfter(r) /\ rep'[r].pc = s /\ rep'[r].chan = rep[r].chan /\ rep'[r].left = rep[r].left
<1> DEFINE t == [rep[r] EXCEPT !.pc = s]
<1>1. t \in N!RepState /\ t.left # <<>> /\ t.pc = s /\ t.chan = rep[r].chan /\ t.left = rep[r].left
  BY DEF N!RepTyped, N!RepState
<1>2. rep' = [rep EXCEPT ![r] = t]
  BY DEF N!RepTyped
<1> HIDE DEF t
<1> QED BY <1>1, <1>2, RepMoves

\* Every step of publishing keeps the count: counting precedes the queue, and the queue
\* or the drop follows it.
LEMMA ReportCounts ==
    ASSUME NotifyConstants, CountInv, NEW r \in Reporters, N!Report(r)
    PROVE  CountInv'
<1>0. /\ N!RepTyped /\ rep[r] \in N!RepState /\ rep[r].chan \in N!Channels /\ rep[r].left \in Seq(N!Message)
      /\ \A c \in N!Channels : queue[c] \in Seq(N!Message) /\ Len(queue[c]) \in Nat /\ inflight[c] \in Nat
      /\ \A c \in N!Channels : Cardinality(N!Publishing(c)) \in Nat /\ N!Posting(c) \in 0..1
  BY PublishingFinite DEF CountInv, N!RepTyped, N!RepState, N!QueueTyped, N!Posting
<1>1. CASE N!Load(r)
  BY <1>0, <1>1, LoadMoves, QuietReport DEF N!Load, CountInv, N!RepTyped, N!postVars
<1>2. CASE N!Count(r)
  <2>1. /\ RepAfter(r) /\ rep'[r].pc = "put" /\ rep'[r].chan = rep[r].chan /\ rep[r].pc = "count"
    BY <1>0, <1>2, PcMoves DEF N!Count, N!RepState
  <2>2. \A c \in N!Channels : Cardinality(N!Publishing(c)')
            = IF c = rep[r].chan THEN Cardinality(N!Publishing(c)) + 1 ELSE Cardinality(N!Publishing(c))
    BY <2>1, PublishingMore
  <2>3. /\ UNCHANGED <<recorded, queue, post>> /\ started' \in [N!Channels -> BOOLEAN]
        /\ inflight' = [inflight EXCEPT ![rep[r].chan] = @ + 1]
    BY <1>0, <1>2 DEF N!Count, N!postVars, CountInv, N!QueueTyped
  <2>4. N!RepTyped' /\ N!QueueTyped'
    BY <1>0, <2>1, <2>3 DEF CountInv, N!RepTyped, RepAfter, N!QueueTyped
  <2>5. InflightCount'
    BY <1>0, <2>2, <2>3 DEF CountInv, InflightCount, N!Posting, N!QueueTyped
  <2> QED BY <2>4, <2>5 DEF CountInv
<1>3. CASE N!Put(r)
  <2>1. /\ RepAfter(r) /\ rep[r].pc = "put" /\ rep'[r].pc \notin {"put", "drop"}
    BY <1>0, <1>3, NextMessageMoves DEF N!Put
  <2>2. \A c \in N!Channels : Cardinality(N!Publishing(c)')
            = IF c = rep[r].chan THEN Cardinality(N!Publishing(c)) - 1 ELSE Cardinality(N!Publishing(c))
    BY <2>1, PublishingFewer
  <2>3. Head(rep[r].left) \in N!Message
    BY <1>0, <2>1 DEF N!RepTyped
  <2>4. /\ UNCHANGED <<recorded, inflight, started, post>> /\ Len(queue[rep[r].chan]) < QueueMax
        /\ queue' = [queue EXCEPT ![rep[r].chan] = Append(@, Head(rep[r].left))]
    BY <1>3 DEF N!Put, N!postVars
  <2>5. /\ queue' \in [N!Channels -> Seq(N!Message)]
        /\ \A c \in N!Channels : Len(queue'[c]) = IF c = rep[r].chan THEN Len(queue[c]) + 1 ELSE Len(queue[c])
    BY <1>0, <2>3, <2>4, AppendProperties DEF CountInv, N!QueueTyped
  <2>6. N!RepTyped' /\ N!QueueTyped'
    BY <1>0, <2>1, <2>4, <2>5 DEF CountInv, N!RepTyped, RepAfter, N!QueueTyped, NotifyConstants
  <2>7. InflightCount'
    <3> SUFFICES ASSUME NEW c \in N!Channels
                 PROVE  inflight'[c] = Len(queue'[c]) + Cardinality(N!Publishing(c)') + N!Posting(c)'
      BY DEF InflightCount
    <3>1. inflight'[c] = Len(queue[c]) + Cardinality(N!Publishing(c)) + N!Posting(c)' /\ N!Posting(c)' \in Nat
      BY <2>4 DEF CountInv, InflightCount, N!Posting
    <3>2. Len(queue'[c]) + Cardinality(N!Publishing(c)') = Len(queue[c]) + Cardinality(N!Publishing(c))
      <4>0. Len(queue[c]) \in Nat /\ Cardinality(N!Publishing(c)) \in Nat
        BY <1>0
      <4>1. CASE c = rep[r].chan
        <5>1. Len(queue'[c]) = Len(queue[c]) + 1
          BY <2>5, <4>1
        <5>2. Cardinality(N!Publishing(c)') = Cardinality(N!Publishing(c)) - 1
          BY <2>2, <4>1
        <5> QED BY <4>0, <5>1, <5>2
      <4>2. CASE c # rep[r].chan
        BY <2>2, <2>5, <4>2
      <4> QED BY <4>1, <4>2
    <3> QED BY <1>0, <2>2, <2>5, <3>1, <3>2
  <2> QED BY <2>6, <2>7 DEF CountInv
<1>4. CASE N!PutFull(r)
  <2>1. /\ RepAfter(r) /\ rep'[r].pc = "drop" /\ rep'[r].chan = rep[r].chan /\ rep[r].pc = "put"
    BY <1>0, <1>4, PcMoves DEF N!PutFull, N!RepState
  <2> QED BY <1>4, <2>1, QuietReport DEF N!PutFull, CountInv, N!RepTyped, N!postVars
<1>5. CASE N!Drop(r)
  <2>1. /\ RepAfter(r) /\ rep[r].pc = "drop" /\ rep'[r].pc \notin {"put", "drop"}
    BY <1>0, <1>5, NextMessageMoves DEF N!Drop
  <2>2. \A c \in N!Channels :
            /\ Cardinality(N!Publishing(c)')
                 = IF c = rep[r].chan THEN Cardinality(N!Publishing(c)) - 1 ELSE Cardinality(N!Publishing(c))
            /\ Cardinality(N!Publishing(c)') \in Nat
    BY <2>1, PublishingFewer
  <2>3. /\ UNCHANGED <<recorded, queue, started, post>>
        /\ inflight' = [inflight EXCEPT ![rep[r].chan] = @ - 1]
    BY <1>5 DEF N!Drop, N!postVars
  <2>4. InflightCount'
    <3> SUFFICES ASSUME NEW c \in N!Channels
                 PROVE  inflight'[c] = Len(queue'[c]) + Cardinality(N!Publishing(c)') + N!Posting(c)'
      BY DEF InflightCount
    <3>1. /\ inflight[c] = Len(queue'[c]) + Cardinality(N!Publishing(c)) + N!Posting(c)'
          /\ N!Posting(c)' \in Nat /\ Len(queue'[c]) \in Nat
      BY <1>0, <2>3 DEF CountInv, InflightCount, N!Posting
    <3>2. inflight'[c] = IF c = rep[r].chan THEN inflight[c] - 1 ELSE inflight[c]
      BY <1>0, <2>3 DEF CountInv, N!QueueTyped
    <3> QED BY <1>0, <2>2, <3>1, <3>2
  <2>5. \A c \in N!Channels : inflight'[c] \in Nat
    BY <1>0, <2>2, <2>3, <2>4, SMTT(20) DEF InflightCount, N!Posting
  <2>6. N!RepTyped' /\ N!QueueTyped'
    BY <1>0, <2>1, <2>3, <2>5 DEF CountInv, N!RepTyped, RepAfter, N!QueueTyped
  <2> QED BY <2>4, <2>6 DEF CountInv
<1> QED BY <1>1, <1>2, <1>3, <1>4, <1>5 DEF N!Report

\* Only whether the channels post is counted.
LEMMA QuietPost ==
    ASSUME CountInv, UNCHANGED <<recorded, rep, N!queueVars>>, \A c \in N!Channels : N!Posting(c)' = N!Posting(c)
    PROVE  CountInv'
<1>1. N!RepTyped' /\ N!QueueTyped'
  BY DEF CountInv, N!RepTyped, N!QueueTyped, N!queueVars
<1>2. InflightCount'
  BY DEF CountInv, InflightCount, N!Publishing, N!queueVars
<1> QED BY <1>1, <1>2 DEF CountInv

\* The steps between the queue and the finally block.
MidPost(p) == N!Validate(p) \/ N!RefuseUrl(p) \/ N!ReadResolver(p) \/ N!Pin(p) \/ N!Connect(p) \/ N!Unpin(p)

\* In the middle of a request its message stays the same.
LEMMA MidPostMoves ==
    ASSUME N!PostTyped, NEW p \in N!Posters, MidPost(p)
    PROVE  /\ \A q \in N!Posters \ {p} : post'[q] = post[q]
           /\ post'[p].msg = post[p].msg
           /\ post[p].pc \in {"check", "read", "pin", "connect", "unpin"}
           /\ post'[p].pc \in {"read", "pin", "connect", "unpin", "end"}
  BY DEF MidPost, N!PostTyped, N!PostState, N!Validate, N!RefuseUrl, N!ReadResolver, N!Pin, N!Connect, N!Unpin, N!Step

\* They leave a message that is being posted one that is being posted.
LEMMA MidPostCounts ==
    ASSUME N!PostTyped, CountInv, NEW p \in N!Posters, MidPost(p)
    PROVE  CountInv'
<1>1. \A c \in N!Channels : N!Posting(c)' = N!Posting(c)
  BY MidPostMoves DEF N!Posting, N!Posters
<1>2. UNCHANGED <<recorded, rep, N!queueVars>>
  BY DEF MidPost, N!Validate, N!RefuseUrl, N!ReadResolver, N!Pin, N!Connect, N!Unpin, N!queueVars
<1> QED BY <1>1, <1>2, QuietPost

\* A test is no message of the queue.
LEMMA TestCounts ==
    ASSUME NotifyConstants, N!PostTyped, CountInv, NEW t \in Tests, N!Test(t)
    PROVE  CountInv'
<1>1. \A c \in N!Channels : N!Posting(c)' = N!Posting(c)
  BY DEF N!Test, N!Posting, N!Posters, N!PostTyped, NotifyConstants
<1> QED BY <1>1, QuietPost DEF N!Test

\* From the queue to the worker: counted before and after.
LEMMA GetCounts ==
    ASSUME NotifyConstants, N!PostTyped, CountInv, NEW c \in N!Channels, N!Get(c)
    PROVE  CountInv'
<1>1. /\ queue[c] \in Seq(N!Message) /\ queue[c] # <<>>
      /\ Tail(queue[c]) \in Seq(N!Message) /\ Len(Tail(queue[c])) = Len(queue[c]) - 1
      /\ Len(queue[c]) \in Nat /\ Len(queue[c]) <= QueueMax
  BY HeadTailProperties DEF N!Get, CountInv, N!QueueTyped
<1>2. /\ queue' = [queue EXCEPT ![c] = Tail(queue[c])]
      /\ UNCHANGED <<recorded, rep, inflight, started>>
      /\ post[c].pc = "idle" /\ post'[c].pc = "check"
      /\ \A d \in N!Channels \ {c} : post'[d] = post[d]
  BY DEF N!Get, N!PostTyped, N!Posters, N!Idle
<1>3. N!RepTyped' /\ N!QueueTyped'
  BY <1>1, <1>2 DEF CountInv, N!RepTyped, N!QueueTyped, NotifyConstants
<1>4. InflightCount'
  <2> SUFFICES ASSUME NEW d \in N!Channels
               PROVE  inflight'[d] = Len(queue'[d]) + Cardinality(N!Publishing(d)') + N!Posting(d)'
    BY DEF InflightCount
  <2>1. /\ N!Publishing(d)' = N!Publishing(d) /\ Cardinality(N!Publishing(d)) \in Nat
        /\ inflight'[d] = Len(queue[d]) + Cardinality(N!Publishing(d)) + N!Posting(d)
    BY <1>2, PublishingFinite DEF N!Publishing, CountInv, InflightCount
  <2>2. CASE d = c
    <3>1. N!Posting(c) = 0 /\ N!Posting(c)' = 1 /\ Len(queue'[c]) = Len(queue[c]) - 1
      BY <1>1, <1>2 DEF N!Posting, CountInv, N!QueueTyped
    <3> QED BY <1>1, <2>1, <2>2, <3>1
  <2>3. CASE d # c
    BY <1>2, <2>1, <2>3 DEF N!Posting, CountInv, N!QueueTyped
  <2> QED BY <2>2, <2>3
<1> QED BY <1>3, <1>4 DEF CountInv

\* The finally block takes a message out of the count when the worker is done with it.
LEMMA EndCounts ==
    ASSUME NotifyConstants, N!PostTyped, CountInv, NEW p \in N!Posters, N!EndPost(p)
    PROVE  CountInv'
<1>1. CASE p \in N!Channels
  <2>1. /\ inflight' = [inflight EXCEPT ![p] = inflight[p] - 1]
        /\ UNCHANGED <<recorded, rep, queue, started>>
        /\ post[p].pc = "end" /\ post'[p].pc = "idle"
        /\ \A d \in N!Channels \ {p} : post'[d] = post[d]
    BY <1>1 DEF N!EndPost, N!PostTyped, N!Posters, N!Idle
  <2>2. /\ \A d \in N!Channels : Len(queue[d]) \in Nat /\ inflight[d] \in Nat
        /\ \A d \in N!Channels : N!Publishing(d)' = N!Publishing(d) /\ Cardinality(N!Publishing(d)) \in Nat
        /\ \A d \in N!Channels : inflight[d] = Len(queue[d]) + Cardinality(N!Publishing(d)) + N!Posting(d)
    <3>1. \A d \in N!Channels : Len(queue[d]) \in Nat /\ inflight[d] \in Nat
      BY DEF CountInv, N!QueueTyped
    <3>2. \A d \in N!Channels : N!Publishing(d)' = N!Publishing(d)
      BY <2>1 DEF N!Publishing
    <3> QED BY <3>1, <3>2, PublishingFinite DEF CountInv, InflightCount
  <2>3. N!Posting(p) = 1 /\ N!Posting(p)' = 0 /\ \A d \in N!Channels \ {p} : N!Posting(d)' = N!Posting(d)
    BY <2>1 DEF N!Posting
  <2>4. /\ inflight' \in [N!Channels -> Nat]
        /\ \A d \in N!Channels : inflight'[d] = IF d = p THEN inflight[d] - 1 ELSE inflight[d]
    <3>1. inflight[p] - 1 \in Nat
      BY <1>1, <2>2, <2>3
    <3> QED BY <2>1, <3>1 DEF CountInv, N!QueueTyped
  <2>5. N!RepTyped' /\ N!QueueTyped'
    BY <2>1, <2>4 DEF CountInv, N!RepTyped, N!QueueTyped
  <2>6. InflightCount'
    <3> SUFFICES ASSUME NEW d \in N!Channels
                 PROVE  inflight'[d] = Len(queue'[d]) + Cardinality(N!Publishing(d)') + N!Posting(d)'
      BY DEF InflightCount
    <3>1. CASE d = p
      BY <2>1, <2>2, <2>3, <2>4, <3>1
    <3>2. CASE d # p
      BY <2>1, <2>2, <2>3, <2>4, <3>2
    <3> QED BY <3>1, <3>2
  <2> QED BY <2>5, <2>6 DEF CountInv
<1>2. CASE p \notin N!Channels
  <2>1. UNCHANGED <<recorded, rep, N!queueVars>> /\ \A c \in N!Channels : N!Posting(c)' = N!Posting(c)
    BY <1>2 DEF N!EndPost, N!PostTyped, N!Posters, N!Posting, N!queueVars
  <2> QED BY <2>1, QuietPost
<1> QED BY <1>1, <1>2

\* A new process begins with nothing to do.
LEMMA CrashCounts ==
    ASSUME NotifyConstants, N!PostTyped, CountInv, N!Crash
    PROVE  CountInv'
<1>1. /\ rep' \in [Reporters -> N!RepState]
      /\ \A r \in Reporters : rep'[r].pc \in {"new", "done"}
  BY DEF N!Crash, CountInv, N!RepTyped, N!RepState
<1>2. \A c \in N!Channels : N!Publishing(c)' = {}
  BY <1>1 DEF N!Publishing
<1>3. /\ queue' = [c \in N!Channels |-> <<>>] /\ inflight' = [c \in N!Channels |-> 0]
      /\ started' = [c \in N!Channels |-> FALSE] /\ UNCHANGED recorded
      /\ \A c \in N!Channels : post'[c].pc = "idle"
  BY DEF N!Crash, N!Posters, N!Idle
<1>4. N!RepTyped'
  BY <1>1, <1>3 DEF CountInv, N!RepTyped
<1>5. N!QueueTyped'
  <2>1. \A c \in N!Channels : queue'[c] = <<>> /\ Len(queue'[c]) = 0
    BY <1>3
  <2>2. queue' \in [N!Channels -> Seq(N!Message)] /\ inflight' \in [N!Channels -> Nat] /\ started' \in [N!Channels -> BOOLEAN]
    BY <1>3
  <2> QED BY <2>1, <2>2 DEF N!QueueTyped, NotifyConstants
<1>6. InflightCount'
  <2> SUFFICES ASSUME NEW c \in N!Channels
               PROVE  inflight'[c] = Len(queue'[c]) + Cardinality(N!Publishing(c)') + N!Posting(c)'
    BY DEF InflightCount
  <2>1. inflight'[c] = 0 /\ Len(queue'[c]) = 0 /\ N!Posting(c)' = 0
    BY <1>3 DEF N!Posting
  <2>2. Cardinality(N!Publishing(c)') = 0
    BY <1>2, FS_EmptySet
  <2> QED BY <2>1, <2>2
<1> QED BY <1>4, <1>5, <1>6 DEF CountInv

-----------------------------------------------------------------------------
(* The order of the messages *)

Elems(s)     == {s[i] : i \in 1 .. Len(s)}
\* Of two messages of one call, the first is the earlier.
Before(m, n) == m[1] = n[1] => m[2] < n[2]

\* What is sent, the message in hand and the queue are in the order of each call.
Ordered(s, w, q) ==
    /\ \A i, j \in 1 .. Len(s) : i < j => Before(s[i], s[j])
    /\ \A i, j \in 1 .. Len(q) : i < j => Before(q[i], q[j])
    /\ \A m \in Elems(s), n \in w \union Elems(q) : Before(m, n)
    /\ \A m \in w, n \in Elems(q) : Before(m, n)

\* The first of a queue and the rest of it.
LEMMA ElemsTail ==
    ASSUME NEW q \in Seq(N!Message), q # <<>>
    PROVE  Head(q) \in Elems(q) /\ Elems(q) = {Head(q)} \union Elems(Tail(q))
<1>1. /\ Len(q) \in Nat /\ Len(q) > 0 /\ Head(q) = q[1] /\ Len(Tail(q)) = Len(q) - 1
      /\ \A i \in 1 .. Len(q) - 1 : Tail(q)[i] = q[i + 1]
  OBVIOUS
<1>2. Head(q) \in Elems(q)
  BY <1>1 DEF Elems
<1>3. Elems(Tail(q)) \subseteq Elems(q)
  <2> SUFFICES ASSUME NEW i \in 1 .. Len(q) - 1 PROVE q[i + 1] \in Elems(q)
    BY <1>1 DEF Elems
  <2>1. i + 1 \in 1 .. Len(q)
    BY <1>1
  <2> QED BY <2>1 DEF Elems
<1>4. Elems(q) \subseteq {Head(q)} \union Elems(Tail(q))
  <2> SUFFICES ASSUME NEW i \in 1 .. Len(q), i # 1 PROVE q[i] \in Elems(Tail(q))
    BY <1>1 DEF Elems
  <2>1. i - 1 \in 1 .. Len(Tail(q)) /\ Tail(q)[i - 1] = q[(i - 1) + 1] /\ (i - 1) + 1 = i
    BY <1>1
  <2> QED BY <2>1 DEF Elems
<1> QED BY <1>2, <1>3, <1>4

\* A queue and its new last.
LEMMA ElemsAppend ==
    ASSUME NEW q \in Seq(N!Message), NEW m \in N!Message
    PROVE  Elems(Append(q, m)) = Elems(q) \union {m}
<1> DEFINE a == Append(q, m)
<1>1. /\ Len(q) \in Nat /\ Len(a) = Len(q) + 1 /\ a[Len(q) + 1] = m
      /\ \A i \in 1 .. Len(q) : a[i] = q[i]
  BY AppendProperties
<1> HIDE DEF a
<1>2. \A i \in 1 .. Len(q) + 1 : i \in 1 .. Len(q) \/ i = Len(q) + 1
  BY <1>1
<1>3. Elems(a) \subseteq Elems(q) \union {m}
  BY <1>1, <1>2 DEF Elems
<1>4. Elems(q) \subseteq Elems(a) /\ m \in Elems(a)
  BY <1>1 DEF Elems
<1> QED BY <1>3, <1>4 DEF a

\* The worker takes the head of the queue in hand.
LEMMA OrderedGet ==
    ASSUME NEW s \in Seq(N!Message), NEW q \in Seq(N!Message), q # <<>>, Ordered(s, {}, q)
    PROVE  Ordered(s, {Head(q)}, Tail(q))
<1>1. /\ Len(q) \in Nat /\ Head(q) = q[1] /\ Len(Tail(q)) = Len(q) - 1
      /\ \A i \in 1 .. Len(q) - 1 : Tail(q)[i] = q[i + 1] /\ i + 1 \in 1 .. Len(q) /\ 1 \in 1 .. Len(q)
  BY HeadTailProperties
<1>2. \A i, j \in 1 .. Len(Tail(q)) : i < j => Before(Tail(q)[i], Tail(q)[j])
  <2> TAKE i, j \in 1 .. Len(Tail(q))
  <2> HAVE i < j
  <2>1. i + 1 \in 1 .. Len(q) /\ j + 1 \in 1 .. Len(q) /\ i + 1 < j + 1
    BY <1>1
  <2>2. Before(q[i + 1], q[j + 1])
    BY <2>1 DEF Ordered
  <2> QED BY <1>1, <2>2
<1>3. \A n \in Elems(Tail(q)) : Before(Head(q), n)
  <2> SUFFICES ASSUME NEW i \in 1 .. Len(q) - 1 PROVE Before(q[1], q[i + 1])
    BY <1>1 DEF Elems
  <2>1. 1 \in 1 .. Len(q) /\ i + 1 \in 1 .. Len(q) /\ 1 < i + 1
    BY <1>1
  <2> QED BY <2>1 DEF Ordered
<1>4. \A m \in Elems(s), n \in {Head(q)} \union Elems(Tail(q)) : Before(m, n)
  BY ElemsTail DEF Ordered
<1> QED BY <1>2, <1>3, <1>4 DEF Ordered

\* An element of a sequence that gets one more is an old one or the new one.
LEMMA PairsOfAppend ==
    ASSUME NEW q \in Seq(N!Message), NEW m \in N!Message,
           \A i, j \in 1 .. Len(q) : i < j => Before(q[i], q[j]),
           \A n \in Elems(q) : Before(n, m)
    PROVE  \A i, j \in 1 .. Len(Append(q, m)) : i < j => Before(Append(q, m)[i], Append(q, m)[j])
<1> DEFINE a == Append(q, m)
<1>1. /\ Len(q) \in Nat /\ Len(a) = Len(q) + 1 /\ a[Len(q) + 1] = m
      /\ \A i \in 1 .. Len(q) : a[i] = q[i]
  BY AppendProperties
<1> HIDE DEF a
<1> SUFFICES ASSUME NEW i \in 1 .. Len(a), NEW j \in 1 .. Len(a), i < j PROVE Before(a[i], a[j])
  BY DEF a
<1>2. i \in 1 .. Len(q)
  BY <1>1
<1>3. CASE j \in 1 .. Len(q)
  BY <1>1, <1>2, <1>3
<1>4. CASE j = Len(q) + 1
  BY <1>1, <1>2, <1>4 DEF Elems
<1> QED BY <1>1, <1>3, <1>4

\* The message in hand is sent.
LEMMA OrderedSend ==
    ASSUME NEW s \in Seq(N!Message), NEW q \in Seq(N!Message), NEW m \in N!Message, Ordered(s, {m}, q)
    PROVE  Ordered(Append(s, m), {}, q)
<1>1. \A n \in Elems(s) : Before(n, m)
  BY DEF Ordered
<1>2. \A i, j \in 1 .. Len(Append(s, m)) : i < j => Before(Append(s, m)[i], Append(s, m)[j])
  BY <1>1, PairsOfAppend DEF Ordered
<1>3. \A x \in Elems(Append(s, m)), n \in Elems(q) : Before(x, n)
  BY ElemsAppend DEF Ordered
<1> QED BY <1>2, <1>3 DEF Ordered

\* A message is queued behind all that came before it.
LEMMA OrderedPut ==
    ASSUME NEW s \in Seq(N!Message), NEW w, NEW q \in Seq(N!Message), NEW m \in N!Message, Ordered(s, w, q),
           \A x \in Elems(s) \union w \union Elems(q) : Before(x, m)
    PROVE  Ordered(s, w, Append(q, m))
<1>1. \A i, j \in 1 .. Len(Append(q, m)) : i < j => Before(Append(q, m)[i], Append(q, m)[j])
  BY PairsOfAppend DEF Ordered
<1>2. Elems(Append(q, m)) = Elems(q) \union {m}
  BY ElemsAppend
<1> QED BY <1>1, <1>2 DEF Ordered

\* The message of channel c that is in hand and not yet sent.
Waiting(c) == IF post[c].pc \in {"check", "read", "pin", "connect"} THEN {post[c].msg} ELSE {}
OnLine(c)  == Elems(sent[c]) \union Waiting(c) \union Elems(queue[c])

\* Reporter r has not come to channel c.
Untouched(r, c) ==
    \/ rep[r].chan = c /\ rep[r].pc \in {"new", "load"}
    \/ rep[r].chan = "push" /\ c = "hook"

\* What a reporter has still to publish comes after message m of it.
Precedes(m, c) ==
    LET r == m[1] IN
    /\ ~Untouched(r, c)
    /\ rep[r].chan = c /\ rep[r].pc \in {"count", "put", "drop"}
          => \A i \in 1 .. Len(rep[r].left) : m[2] < rep[r].left[i][2]

\* What a reporter has left are messages of its own, in order.
Rising(r) ==
    /\ \A i \in 1 .. Len(rep[r].left) : rep[r].left[i][1] = r
    /\ \A i, j \in 1 .. Len(rep[r].left) : i < j => rep[r].left[i][2] < rep[r].left[j][2]

\* What was posted, is being posted and is queued on a channel is in order, and recorded.
LineInv ==
    /\ sent \in [N!Channels -> Seq(N!Message)]
    /\ \A c \in N!Channels : post[c].pc # "idle" => post[c].msg \in N!Message
    /\ \A c \in N!Channels : Ordered(sent[c], Waiting(c), queue[c])
    /\ \A c \in N!Channels : \A m \in OnLine(c) : m[1] \in recorded
\* The invariant of the order: what a reporter has left comes after what it published.
OrderInv ==
    /\ LineInv
    /\ \A c \in N!Channels : \A m \in OnLine(c) : Precedes(m, c)
    /\ \A r \in Reporters :
          /\ rep[r].pc = "new" => rep[r].chan = "push"
          /\ rep[r].pc \in {"load", "count", "put", "drop"} => r \in recorded
          /\ rep[r].pc \in {"count", "put", "drop"} => Rising(r)

\* A reporter goes on, and nothing is sent or queued.
LEMMA ReportOrders ==
    ASSUME N!RepTyped, OrderInv, NEW r \in Reporters, RepAfter(r), UNCHANGED <<queue, N!postVars>>,
           recorded \subseteq recorded',
           rep'[r].pc = "new" => rep'[r].chan = "push",
           rep'[r].pc \in {"load", "count", "put", "drop"} => r \in recorded',
           rep'[r].pc \in {"count", "put", "drop"} => Rising(r)',
           \A c \in N!Channels : \A m \in OnLine(c) : m[1] = r => Precedes(m, c)'
    PROVE  OrderInv'
<1>1. \A c \in N!Channels : OnLine(c)' = OnLine(c) /\ Waiting(c)' = Waiting(c)
  BY DEF OnLine, Waiting, N!postVars
<1>2. LineInv'
  BY <1>1 DEF OrderInv, LineInv, N!postVars
<1>3. \A c \in N!Channels : \A m \in OnLine(c) : Precedes(m, c)'
  <2> TAKE c \in N!Channels
  <2> TAKE m \in OnLine(c)
  <2>1. CASE m[1] = r
    BY <2>1
  <2>2. CASE m[1] # r
    <3>1. m[1] \in Reporters
      BY DEF OrderInv, LineInv, N!RepTyped
    <3>2. rep'[m[1]] = rep[m[1]]
      BY <2>2, <3>1 DEF RepAfter
    <3> QED BY <3>2 DEF Precedes, Untouched, OrderInv
  <2> QED BY <2>1, <2>2
<1>4. \A q \in Reporters :
          /\ rep'[q].pc = "new" => rep'[q].chan = "push"
          /\ rep'[q].pc \in {"load", "count", "put", "drop"} => q \in recorded'
          /\ rep'[q].pc \in {"count", "put", "drop"} => Rising(q)'
  <2> TAKE q \in Reporters
  <2>1. CASE q = r
    BY <2>1
  <2>2. CASE q # r
    BY <2>2 DEF OrderInv, RepAfter, Rising
  <2> QED BY <2>1, <2>2
<1> QED BY <1>1, <1>2, <1>3, <1>4 DEF OrderInv

\* The record is written before its messages exist.
LEMMA RecordOrders ==
    ASSUME CountInv, OrderInv, NEW r \in Reporters, N!Record(r) \/ N!RecordFails(r)
    PROVE  OrderInv'
<1> DEFINE s == [pc |-> "load", chan |-> "push", left |-> <<>>]
           t == [rep[r] EXCEPT !.pc = "done"]
<1>0. rep[r].pc = "new" /\ rep[r].chan = "push" /\ recorded \subseteq recorded' /\ UNCHANGED <<queue, N!postVars>>
  BY DEF N!Record, N!RecordFails, OrderInv, N!queueVars
<1>1. s \in N!RepState /\ s.pc = "load" /\ t \in N!RepState /\ t.pc = "done" /\ s.chan = "push" /\ t.chan = "push"
  BY <1>0 DEF CountInv, N!RepTyped, N!RepState, N!Channels
<1>2. (rep' = [rep EXCEPT ![r] = s] /\ r \in recorded') \/ rep' = [rep EXCEPT ![r] = t]
  BY DEF N!Record, N!RecordFails, CountInv, N!RepTyped
<1> HIDE DEF s, t
<1>3. RepAfter(r) /\ rep'[r].pc \in {"load", "done"} /\ (rep'[r].pc = "load" => r \in recorded')
  BY <1>1, <1>2, RepMoves DEF CountInv
<1>4. \A c \in N!Channels : \A m \in OnLine(c) : m[1] # r
  BY <1>0 DEF OrderInv, Precedes, Untouched, N!Channels
<1> QED BY <1>0, <1>3, <1>4, ReportOrders DEF CountInv

\* The messages of a call are new to the channel they are loaded for.
LEMMA LoadOrders ==
    ASSUME NotifyConstants, CountInv, OrderInv, NEW r \in Reporters, N!Load(r)
    PROVE  OrderInv'
<1>1. /\ rep[r].pc = "load" /\ UNCHANGED <<recorded, queue, N!postVars>> /\ r \in recorded
      /\ rep[r].chan \in N!Channels
  BY DEF N!Load, N!queueVars, OrderInv, CountInv, N!RepTyped, N!RepState
<1>2. /\ RepAfter(r)
      /\ \/ /\ rep'[r].pc = "count" /\ rep'[r].chan = rep[r].chan
            /\ rep'[r].left = N!Messages(r, rep[r].chan)
         \/ /\ rep'[r].chan = "hook"
            /\ rep'[r].pc = IF rep[r].chan = "push" THEN "load" ELSE "done"
  BY LoadMoves DEF CountInv
<1>3. \A c \in N!Channels : \A m \in OnLine(c) : m[1] = r => Precedes(m, c)'
  <2> SUFFICES ASSUME NEW c \in N!Channels, NEW m \in OnLine(c), m[1] = r PROVE Precedes(m, c)'
    OBVIOUS
  <2>1. c # rep[r].chan /\ ~(rep[r].chan = "push" /\ c = "hook")
    BY <1>1 DEF OrderInv, Precedes, Untouched
  <2>2. rep[r].chan = "hook" /\ c = "push"
    BY <1>1, <2>1 DEF N!Channels
  <2> QED BY <1>2, <2>2 DEF Precedes, Untouched
<1>4. rep'[r].pc = "count" => Rising(r)'
  <2> SUFFICES ASSUME rep'[r].pc = "count" PROVE Rising(r)'
    OBVIOUS
  <2>1. rep'[r].left = N!Messages(r, rep[r].chan)
    BY <1>2
  <2>2. \A i \in 1 .. Len(rep'[r].left) : rep'[r].left[i] = <<r, i>>
    BY <1>1, <2>1, MessagesType
  <2> QED BY <2>2 DEF Rising
<1> QED BY <1>1, <1>2, <1>3, <1>4, ReportOrders DEF CountInv

\* Its pc goes from count to put, or from put to drop.
LEMMA PcOrders ==
    ASSUME CountInv, OrderInv, NEW r \in Reporters, N!Count(r) \/ N!PutFull(r)
    PROVE  OrderInv'
<1>1. /\ RepAfter(r) /\ rep[r].pc \in {"count", "put"} /\ rep'[r].pc \in {"put", "drop"}
      /\ rep'[r].chan = rep[r].chan /\ rep'[r].left = rep[r].left
      /\ UNCHANGED <<recorded, queue, N!postVars>>
  BY PcMoves DEF N!Count, N!PutFull, CountInv, N!queueVars
<1>2. \A c \in N!Channels : \A m \in OnLine(c) : m[1] = r => Precedes(m, c)'
  BY <1>1 DEF OrderInv, Precedes, Untouched
<1>3. Rising(r)' /\ r \in recorded'
  BY <1>1 DEF OrderInv, Rising
<1> QED BY <1>1, <1>2, <1>3, ReportOrders DEF CountInv

\* What is left after a message is rising, and comes after it.
LEMMA TailRises ==
    ASSUME NEW r \in Reporters, N!RepTyped, Rising(r), rep[r].left # <<>>
    PROVE  LET l == rep[r].left IN
           /\ Head(l) \in N!Message /\ Head(l)[1] = r
           /\ \A i \in 1 .. Len(Tail(l)) : i + 1 \in 1 .. Len(l) /\ Tail(l)[i] = l[i + 1]
           /\ \A i \in 1 .. Len(Tail(l)) : Tail(l)[i][1] = r /\ Head(l)[2] < Tail(l)[i][2]
           /\ \A i, j \in 1 .. Len(Tail(l)) : i < j => Tail(l)[i][2] < Tail(l)[j][2]
<1> DEFINE l == rep[r].left
<1>1. l \in Seq(N!Message) /\ l # <<>>
  BY DEF N!RepTyped, N!RepState
<1>2. /\ \A i \in 1 .. Len(l) : l[i][1] = r
      /\ \A i, j \in 1 .. Len(l) : i < j => l[i][2] < l[j][2]
  BY DEF Rising
<1> HIDE DEF l
<1>3. /\ Len(l) \in Nat /\ Len(l) > 0 /\ Head(l) = l[1] /\ Head(l) \in N!Message /\ Len(Tail(l)) = Len(l) - 1
      /\ \A i \in 1 .. Len(l) - 1 : Tail(l)[i] = l[i + 1] /\ i + 1 \in 1 .. Len(l)
  BY <1>1, HeadTailProperties
<1>4. \A i \in 1 .. Len(Tail(l)) : 1 \in 1 .. Len(l) /\ i + 1 \in 1 .. Len(l) /\ 1 < i + 1
  BY <1>3
<1>5. \A i \in 1 .. Len(Tail(l)) : Tail(l)[i][1] = r /\ Head(l)[2] < Tail(l)[i][2]
  BY <1>2, <1>3, <1>4
<1>6. \A i, j \in 1 .. Len(Tail(l)) : i < j => Tail(l)[i][2] < Tail(l)[j][2]
  <2> TAKE i, j \in 1 .. Len(Tail(l))
  <2> HAVE i < j
  <2>1. i + 1 \in 1 .. Len(l) /\ j + 1 \in 1 .. Len(l) /\ i + 1 < j + 1
    BY <1>3
  <2> QED BY <1>2, <1>3, <2>1
<1>7. 1 \in 1 .. Len(l)
  BY <1>3
<1> QED BY <1>2, <1>3, <1>5, <1>6, <1>7 DEF l

\* A reporter is done with a message, queued or not: what was published keeps preceding
\* what is left.
LEMMA NextPrecedes ==
    ASSUME N!RepTyped, OrderInv, NEW r \in Reporters, rep[r].pc \in {"put", "drop"}, N!NextMessage(r),
           NEW CONSTANT h, h = Head(rep[r].left), NEW CONSTANT k, k = rep[r].chan
    PROVE  /\ \A c \in N!Channels : \A m \in OnLine(c) : m[1] = r => Precedes(m, c)'
           /\ Precedes(h, k)'
           /\ rep'[r].pc \in {"count", "put", "drop"} => Rising(r)'
           /\ rep'[r].pc # "new"
<1>1. /\ RepAfter(r)
      /\ \/ /\ rep'[r].pc = "count" /\ rep'[r].chan = rep[r].chan
            /\ rep'[r].left = Tail(rep[r].left)
         \/ /\ rep'[r].chan = "hook"
            /\ rep'[r].pc = IF rep[r].chan = "push" THEN "load" ELSE "done"
  BY NextMessageMoves
<1>2. rep[r].left # <<>> /\ Rising(r) /\ rep[r].chan \in N!Channels
  BY DEF N!RepTyped, N!RepState, OrderInv
<1>3. CASE /\ rep'[r].pc = "count" /\ rep'[r].chan = rep[r].chan /\ rep'[r].left = Tail(rep[r].left)
  <2>1. Rising(r)' /\ Precedes(h, k)'
    <3>1. Rising(r)'
      BY <1>2, <1>3, TailRises DEF Rising
    <3>2. h[1] = r /\ \A i \in 1 .. Len(rep'[r].left) : h[2] < rep'[r].left[i][2]
      BY <1>2, <1>3, TailRises
    <3>3. ~Untouched(r, k)'
      BY <1>2, <1>3 DEF Untouched, N!Channels
    <3> QED BY <3>1, <3>2, <3>3 DEF Precedes
  <2>2. \A c \in N!Channels : \A m \in OnLine(c) : m[1] = r => Precedes(m, c)'
    <3> SUFFICES ASSUME NEW c \in N!Channels, NEW m \in OnLine(c), m[1] = r PROVE Precedes(m, c)'
      OBVIOUS
    <3>1. Precedes(m, c)
      BY DEF OrderInv
    <3>2. \A i \in 1 .. Len(rep'[r].left) : i + 1 \in 1 .. Len(rep[r].left) /\ rep'[r].left[i] = rep[r].left[i + 1]
      BY <1>2, <1>3, TailRises
    <3> QED BY <1>3, <3>1, <3>2 DEF Precedes, Untouched
  <2> QED BY <1>3, <2>1, <2>2
<1>4. CASE /\ rep'[r].chan = "hook" /\ rep'[r].pc = IF rep[r].chan = "push" THEN "load" ELSE "done"
  <2>1. \A c \in N!Channels : \A m \in OnLine(c) : m[1] = r => Precedes(m, c)'
    <3> SUFFICES ASSUME NEW c \in N!Channels, NEW m \in OnLine(c), m[1] = r PROVE Precedes(m, c)'
      OBVIOUS
    <3>1. ~Untouched(r, c)
      BY DEF OrderInv, Precedes
    <3>2. ~Untouched(r, c)' /\ rep'[r].pc \notin {"count", "put", "drop"}
      BY <1>2, <1>4, <3>1 DEF Untouched, N!Channels
    <3> QED BY <3>2 DEF Precedes
  <2>2. Precedes(h, k)'
    <3>1. h[1] = r
      BY <1>2, TailRises
    <3>2. ~Untouched(r, k)' /\ rep'[r].pc \notin {"count", "put", "drop"}
      BY <1>2, <1>4 DEF Untouched, N!Channels
    <3> QED BY <3>1, <3>2 DEF Precedes
  <2> QED BY <1>4, <2>1, <2>2
<1> QED BY <1>1, <1>3, <1>4

\* A dropped message leaves a gap, never a disorder.
LEMMA DropOrders ==
    ASSUME CountInv, OrderInv, NEW r \in Reporters, N!Drop(r)
    PROVE  OrderInv'
<1>1. /\ rep[r].pc = "drop" /\ N!NextMessage(r) /\ UNCHANGED <<recorded, queue, N!postVars>> /\ r \in recorded
  BY DEF N!Drop, N!queueVars, OrderInv
<1>2. RepAfter(r)
  BY <1>1, NextMessageMoves DEF CountInv
<1> QED BY <1>1, <1>2, NextPrecedes, ReportOrders DEF CountInv

\* A message joins the line behind all that came before it.
LEMMA PutOrders ==
    ASSUME CountInv, OrderInv, NEW r \in Reporters, N!Put(r)
    PROVE  OrderInv'
<1>0. PICK h, k : h = Head(rep[r].left) /\ k = rep[r].chan
  OBVIOUS
<1>1. /\ rep[r].pc = "put" /\ N!NextMessage(r) /\ UNCHANGED <<recorded, N!postVars>> /\ r \in recorded
      /\ rep[r].left # <<>> /\ Rising(r) /\ k \in N!Channels
      /\ queue' = [queue EXCEPT ![k] = Append(queue[k], h)]
  BY <1>0 DEF N!Put, OrderInv, CountInv, N!RepTyped, N!RepState
<1>2. /\ RepAfter(r) /\ rep'[r].pc # "new"
      /\ \A c \in N!Channels : \A m \in OnLine(c) : m[1] = r => Precedes(m, c)'
      /\ Precedes(h, k)'
      /\ rep'[r].pc \in {"count", "put", "drop"} => Rising(r)'
  BY <1>0, <1>1, NextMessageMoves, NextPrecedes DEF CountInv
<1>3. /\ h \in N!Message /\ h[1] = r
      /\ \A i \in 1 .. Len(rep[r].left) : i = 1 => rep[r].left[i] = h
      /\ 1 \in 1 .. Len(rep[r].left)
  <2>1. rep[r].left \in Seq(N!Message)
    BY DEF CountInv, N!RepTyped, N!RepState
  <2> QED BY <1>0, <1>1, <2>1, TailRises, HeadTailProperties DEF CountInv
<1>4. \A m \in OnLine(k) : Before(m, h)
  <2> SUFFICES ASSUME NEW m \in OnLine(k), m[1] = r PROVE m[2] < h[2]
    BY <1>3 DEF Before
  <2>1. Precedes(m, k)
    BY <1>1 DEF OrderInv
  <2> QED BY <1>0, <1>1, <1>3, <2>1 DEF Precedes
<1>5. /\ \A c \in N!Channels : sent'[c] = sent[c] /\ Waiting(c)' = Waiting(c)
      /\ \A c \in N!Channels \ {k} : queue'[c] = queue[c]
      /\ queue'[k] = Append(queue[k], h) /\ queue[k] \in Seq(N!Message) /\ sent[k] \in Seq(N!Message)
  BY <1>1 DEF N!postVars, Waiting, CountInv, N!QueueTyped, OrderInv, LineInv
<1>6. /\ \A c \in N!Channels \ {k} : OnLine(c)' = OnLine(c)
      /\ OnLine(k)' = OnLine(k) \union {h}
  BY <1>1, <1>3, <1>5, ElemsAppend DEF OnLine
<1>7. Ordered(sent[k], Waiting(k), queue'[k])
  BY <1>1, <1>3, <1>4, <1>5, OrderedPut DEF OnLine, OrderInv, LineInv
<1>8. LineInv'
  <2>1. \A c \in N!Channels : Ordered(sent[c], Waiting(c), queue'[c])
    BY <1>5, <1>7 DEF OrderInv, LineInv
  <2>2. \A c \in N!Channels : Ordered(sent[c], Waiting(c), queue[c])'
    BY <1>5, <2>1
  <2>3. \A c \in N!Channels : \A m \in OnLine(c)' : m[1] \in recorded
    BY <1>1, <1>3, <1>6 DEF OrderInv, LineInv
  <2> QED BY <1>1, <2>2, <2>3 DEF OrderInv, LineInv, N!postVars
<1>9. \A c \in N!Channels : \A m \in OnLine(c)' : Precedes(m, c)'
  <2> SUFFICES ASSUME NEW c \in N!Channels, NEW m \in OnLine(c) PROVE Precedes(m, c)'
    BY <1>2, <1>6
  <2>1. CASE m[1] # r
    <3>1. m[1] \in Reporters
      BY DEF OrderInv, LineInv, CountInv, N!RepTyped
    <3>2. rep'[m[1]] = rep[m[1]]
      BY <1>2, <2>1, <3>1 DEF RepAfter
    <3> QED BY <3>2 DEF Precedes, Untouched, OrderInv
  <2> QED BY <1>2, <2>1
<1>10. \A q \in Reporters :
          /\ rep'[q].pc = "new" => rep'[q].chan = "push"
          /\ rep'[q].pc \in {"load", "count", "put", "drop"} => q \in recorded'
          /\ rep'[q].pc \in {"count", "put", "drop"} => Rising(q)'
  <2> TAKE q \in Reporters
  <2>1. CASE q = r
    BY <1>1, <1>2, <2>1
  <2>2. CASE q # r
    BY <1>1, <1>2, <2>2 DEF OrderInv, RepAfter, Rising
  <2> QED BY <2>1, <2>2
<1> QED BY <1>8, <1>9, <1>10 DEF OrderInv

\* The reporters rest, and the messages on each line are at most those that were.
LEMMA PostOrders ==
    ASSUME OrderInv, UNCHANGED rep, UNCHANGED recorded,
           sent' \in [N!Channels -> Seq(N!Message)],
           \A c \in N!Channels : post'[c].pc # "idle" => post'[c].msg \in N!Message,
           \A c \in N!Channels : Ordered(sent'[c], Waiting(c)', queue'[c]),
           \A c \in N!Channels : OnLine(c)' \subseteq OnLine(c)
    PROVE  OrderInv'
<1>1. LineInv'
  BY DEF OrderInv, LineInv
<1>2. \A c \in N!Channels : \A m \in OnLine(c)' : Precedes(m, c)'
  BY DEF OrderInv, Precedes, Untouched
<1> QED BY <1>1, <1>2 DEF OrderInv, Rising

\* The requests that send nothing: a message in hand is kept, dropped or done with.
LEMMA QuietOrders ==
    ASSUME OrderInv, UNCHANGED <<recorded, rep, sent, queue>>,
           \A c \in N!Channels : Waiting(c)' \subseteq Waiting(c),
           \A c \in N!Channels : post'[c].pc # "idle" => post[c].pc # "idle" /\ post'[c].msg = post[c].msg
    PROVE  OrderInv'
<1>1. \A c \in N!Channels : Ordered(sent'[c], Waiting(c)', queue'[c])
  BY DEF OrderInv, LineInv, Ordered
<1>2. \A c \in N!Channels : OnLine(c)' \subseteq OnLine(c)
  BY DEF OnLine
<1> QED BY <1>1, <1>2, PostOrders DEF OrderInv, LineInv

\* A message is at the head of the line until it is posted, and then behind the posted.
LEMMA MidPostOrders ==
    ASSUME N!PostTyped, CountInv, OrderInv, NEW p \in N!Posters, MidPost(p)
    PROVE  OrderInv'
<1>1. /\ \A q \in N!Posters \ {p} : post'[q] = post[q]
      /\ post'[p].msg = post[p].msg
      /\ post[p].pc \in {"check", "read", "pin", "connect", "unpin"}
      /\ post'[p].pc \in {"read", "pin", "connect", "unpin", "end"}
      /\ UNCHANGED <<recorded, rep, queue>> /\ N!Channels \subseteq N!Posters
  BY MidPostMoves DEF MidPost, N!Validate, N!RefuseUrl, N!ReadResolver, N!Pin, N!Connect, N!Unpin, N!queueVars, N!Posters
<1>2. CASE N!Connect(p) /\ p \in N!Channels
  <2>1. /\ sent' = [sent EXCEPT ![p] = Append(sent[p], post[p].msg)]
        /\ post[p].msg \in N!Message /\ sent[p] \in Seq(N!Message) /\ queue[p] \in Seq(N!Message)
        /\ Waiting(p) = {post[p].msg} /\ Waiting(p)' = {}
    BY <1>1, <1>2 DEF N!Connect, N!Step, N!PostTyped, N!PostState, OrderInv, LineInv, Waiting, CountInv, N!QueueTyped
  <2>2. sent' \in [N!Channels -> Seq(N!Message)] /\ sent'[p] = Append(sent[p], post[p].msg)
    BY <1>2, <2>1 DEF OrderInv, LineInv
  <2>3. \A c \in N!Channels \ {p} : sent'[c] = sent[c] /\ Waiting(c)' = Waiting(c)
    BY <1>1, <1>2, <2>1 DEF OrderInv, LineInv, Waiting
  <2>4. Ordered(sent'[p], Waiting(p)', queue'[p])
    <3>1. Ordered(sent[p], {post[p].msg}, queue[p])
      BY <1>2, <2>1 DEF OrderInv, LineInv
    <3>2. Ordered(Append(sent[p], post[p].msg), {}, queue[p])
      BY <2>1, <3>1, OrderedSend
    <3> QED BY <1>1, <2>1, <2>2, <3>2
  <2>5. \A c \in N!Channels : Ordered(sent'[c], Waiting(c)', queue'[c])
    BY <1>1, <2>3, <2>4 DEF OrderInv, LineInv
  <2>6. \A c \in N!Channels : OnLine(c)' \subseteq OnLine(c)
    BY <1>1, <2>1, <2>2, <2>3, ElemsAppend DEF OnLine
  <2>7. \A c \in N!Channels : post'[c].pc # "idle" => post'[c].msg \in N!Message
    BY <1>1, <2>1 DEF OrderInv, LineInv
  <2> QED BY <1>1, <2>2, <2>5, <2>6, <2>7, PostOrders
<1>3. CASE ~(N!Connect(p) /\ p \in N!Channels)
  <2>1. UNCHANGED sent
    BY <1>3 DEF MidPost, N!Validate, N!RefuseUrl, N!ReadResolver, N!Pin, N!Connect, N!Unpin
  <2>2. p \in N!Channels => Waiting(p)' \subseteq Waiting(p)
    BY <1>1, <1>3 DEF MidPost, N!Validate, N!RefuseUrl, N!ReadResolver, N!Pin, N!Unpin, N!Step, Waiting, N!PostTyped, N!PostState
  <2>3. \A c \in N!Channels : Waiting(c)' \subseteq Waiting(c)
    BY <1>1, <2>2 DEF Waiting
  <2> QED BY <1>1, <2>1, <2>3, QuietOrders
<1> QED BY <1>2, <1>3

\* What the worker is done with is no longer waiting.
LEMMA EndOrders ==
    ASSUME N!PostTyped, OrderInv, NEW p \in N!Posters, N!EndPost(p)
    PROVE  OrderInv'
<1>1. /\ post[p].pc = "end" /\ UNCHANGED <<recorded, rep, sent, queue>>
      /\ \A q \in N!Posters \ {p} : post'[q] = post[q]
      /\ p \in N!Channels => post'[p].pc = "idle"
      /\ N!Channels \subseteq N!Posters
  BY DEF N!EndPost, N!PostTyped, N!Idle, N!Posters
<1>2. \A c \in N!Channels : Waiting(c)' \subseteq Waiting(c)
  BY <1>1 DEF Waiting
<1> QED BY <1>1, <1>2, QuietOrders

\* A test is on no line.
LEMMA TestOrders ==
    ASSUME NotifyConstants, N!PostTyped, OrderInv, NEW t \in Tests, N!Test(t)
    PROVE  OrderInv'
<1>1. /\ UNCHANGED <<recorded, rep, sent, queue>>
      /\ \A c \in N!Channels : post'[c] = post[c]
  BY DEF N!Test, N!PostTyped, NotifyConstants, N!queueVars, N!Posters
<1> QED BY <1>1, QuietOrders DEF Waiting

\* The worker takes the first of the queue when it has none.
LEMMA GetOrders ==
    ASSUME N!PostTyped, CountInv, OrderInv, NEW c \in N!Channels, N!Get(c)
    PROVE  OrderInv'
<1>1. /\ queue' = [queue EXCEPT ![c] = Tail(queue[c])]
      /\ UNCHANGED <<recorded, rep, sent>>
      /\ post[c].pc = "idle" /\ post'[c].pc = "check" /\ post'[c].msg = Head(queue[c])
      /\ \A d \in N!Channels \ {c} : post'[d] = post[d]
  BY DEF N!Get, N!PostTyped, N!Posters, N!Idle
<1>2. /\ queue[c] \in Seq(N!Message) /\ queue[c] # <<>> /\ sent[c] \in Seq(N!Message)
      /\ queue'[c] = Tail(queue[c]) /\ Head(queue[c]) \in N!Message
      /\ \A d \in N!Channels \ {c} : queue'[d] = queue[d]
  BY <1>1 DEF N!Get, CountInv, N!QueueTyped, OrderInv, LineInv
<1>3. /\ Waiting(c) = {} /\ Waiting(c)' = {Head(queue[c])}
      /\ \A d \in N!Channels \ {c} : Waiting(d)' = Waiting(d)
  BY <1>1 DEF Waiting
<1>4. Ordered(sent'[c], Waiting(c)', queue'[c])
  <2>1. Ordered(sent[c], {}, queue[c])
    BY <1>3 DEF OrderInv, LineInv
  <2>2. Ordered(sent[c], {Head(queue[c])}, Tail(queue[c]))
    BY <1>2, <2>1, OrderedGet
  <2> QED BY <1>1, <1>2, <1>3, <2>2
<1>5. \A d \in N!Channels : Ordered(sent'[d], Waiting(d)', queue'[d])
  BY <1>1, <1>2, <1>3, <1>4 DEF OrderInv, LineInv
<1>6. \A d \in N!Channels : OnLine(d)' \subseteq OnLine(d)
  BY <1>1, <1>2, <1>3, ElemsTail DEF OnLine
<1>7. \A d \in N!Channels : post'[d].pc # "idle" => post'[d].msg \in N!Message
  BY <1>1, <1>2 DEF OrderInv, LineInv
<1> QED BY <1>1, <1>5, <1>6, <1>7, PostOrders DEF OrderInv, LineInv

\* A new process forgets what was queued, and no call is resumed.
LEMMA CrashOrders ==
    ASSUME NotifyConstants, CountInv, OrderInv, N!Crash
    PROVE  OrderInv'
<1>1. /\ UNCHANGED <<recorded, sent>>
      /\ \A c \in N!Channels : queue'[c] = <<>> /\ post'[c].pc = "idle"
      /\ \A r \in Reporters : rep'[r].chan = rep[r].chan
      /\ \A r \in Reporters : (rep'[r].pc = "new" /\ rep[r].pc = "new") \/ rep'[r].pc = "done"
  BY DEF N!Crash, N!Posters, N!Idle, CountInv, N!RepTyped, N!RepState
<1>2. \A c \in N!Channels : Waiting(c)' = {} /\ Elems(queue'[c]) = {}
  BY <1>1 DEF Waiting, Elems
<1>3. \A c \in N!Channels : OnLine(c)' \subseteq OnLine(c)
  BY <1>1, <1>2 DEF OnLine
<1>4. \A c \in N!Channels : Ordered(sent'[c], Waiting(c)', queue'[c])
  <2> SUFFICES ASSUME NEW c \in N!Channels PROVE Ordered(sent[c], {}, <<>>)
    BY <1>1, <1>2
  <2>1. Elems(<<>>) = {}
    BY DEF Elems
  <2> QED BY <2>1 DEF OrderInv, LineInv, Ordered
<1>5. LineInv'
  BY <1>1, <1>3, <1>4 DEF OrderInv, LineInv
<1>6. \A c \in N!Channels : \A m \in OnLine(c)' : Precedes(m, c)'
  <2> SUFFICES ASSUME NEW c \in N!Channels, NEW m \in OnLine(c) PROVE Precedes(m, c)'
    BY <1>3
  <2>1. m[1] \in Reporters /\ Precedes(m, c)
    BY DEF OrderInv, LineInv, CountInv, N!RepTyped
  <2> QED BY <1>1, <2>1 DEF Precedes, Untouched
<1> QED BY <1>1, <1>5, <1>6 DEF OrderInv

-----------------------------------------------------------------------------
(* The theorems *)

\* The inductive invariant of Notify.
NotifyInv == PinInv /\ CountInv /\ OrderInv

\* It holds when the process starts for the first time,
LEMMA NotifyStarts == NotifyConstants /\ N!Init => NotifyInv
<1> SUFFICES ASSUME NotifyConstants, N!Init PROVE NotifyInv
  OBVIOUS
<1>1. PinInv
  <2>1. post \in [N!Posters -> N!PostState] /\ \A p \in N!Posters : post[p].pc = "idle"
    BY IdleType DEF N!Init, N!Idle
  <2>2. sent \in [N!Channels -> Seq(N!Message \union {None})] /\ resolver \in N!PinList /\ pinLock = None
    BY DEF N!Init, N!PinList
  <2> QED BY <2>1, <2>2 DEF PinInv, N!PostTyped, Pinned, Pinning, NotifyConstants
<1>2. CountInv
  <2>1. N!RepTyped
    BY DEF N!Init, N!RepTyped, N!RepState, N!Channels
  <2>2. N!QueueTyped
    <3>1. \A c \in N!Channels : queue[c] = <<>> /\ Len(queue[c]) = 0
      BY DEF N!Init
    <3> QED BY <3>1 DEF N!Init, N!QueueTyped, NotifyConstants
  <2>3. \A c \in N!Channels : N!Publishing(c) = {} /\ N!Posting(c) = 0 /\ inflight[c] = 0 /\ Len(queue[c]) = 0
    BY DEF N!Init, N!Publishing, N!Posting, N!Posters, N!Idle
  <2>4. InflightCount
    <3> SUFFICES ASSUME NEW c \in N!Channels
                 PROVE  inflight[c] = Len(queue[c]) + Cardinality(N!Publishing(c)) + N!Posting(c)
      BY DEF InflightCount
    <3>1. Cardinality(N!Publishing(c)) = 0
      BY <2>3, FS_EmptySet
    <3> QED BY <2>3, <3>1
  <2> QED BY <2>1, <2>2, <2>4 DEF CountInv
<1>3. OrderInv
  <2>1. \A c \in N!Channels : sent[c] = <<>> /\ queue[c] = <<>> /\ post[c].pc = "idle"
    BY DEF N!Init, N!Posters, N!Idle
  <2>2. Elems(<<>>) = {} /\ Ordered(<<>>, {}, <<>>)
    BY DEF Elems, Ordered
  <2>3. \A c \in N!Channels : Waiting(c) = {} /\ OnLine(c) = {}
    BY <2>1, <2>2 DEF Waiting, OnLine
  <2>4. LineInv
    <3>1. sent \in [N!Channels -> Seq(N!Message)]
      BY DEF N!Init
    <3>2. \A c \in N!Channels : Ordered(sent[c], Waiting(c), queue[c])
      BY <2>1, <2>2, <2>3
    <3> QED BY <2>1, <2>3, <3>1, <3>2 DEF LineInv
  <2>5. \A r \in Reporters : rep[r].pc = "new" /\ rep[r].chan = "push"
    BY DEF N!Init
  <2> QED BY <2>3, <2>4, <2>5 DEF OrderInv
<1> QED BY <1>1, <1>2, <1>3 DEF NotifyInv

\* and every step preserves it.
LEMMA NotifySteps == NotifyConstants /\ NotifyInv /\ [N!Next]_(N!vars) => NotifyInv'
<1> SUFFICES ASSUME NotifyConstants, NotifyInv, [N!Next]_(N!vars) PROVE NotifyInv'
  OBVIOUS
<1> USE DEF NotifyInv
<1>0. N!PostTyped /\ N!QueueTyped /\ N!RepTyped
  BY DEF PinInv, CountInv
<1>1. ASSUME NEW r \in Reporters, N!Record(r) \/ N!RecordFails(r) PROVE NotifyInv'
  <2>1. UNCHANGED N!postVars
    BY <1>1 DEF N!Record, N!RecordFails
  <2> QED BY <1>1, <2>1, ReportPins, RecordCounts, RecordOrders
<1>2. ASSUME NEW r \in Reporters, N!Report(r) PROVE NotifyInv'
  <2>1. UNCHANGED N!postVars
    BY <1>2 DEF N!Report, N!Load, N!Count, N!Put, N!PutFull, N!Drop
  <2>2. OrderInv'
    BY <1>2, LoadOrders, PcOrders, PutOrders, DropOrders DEF N!Report
  <2> QED BY <1>2, <2>1, <2>2, ReportPins, ReportCounts
<1>3. ASSUME NEW c \in N!Channels, N!Get(c) PROVE NotifyInv'
  BY <1>0, <1>3, GetPins, GetCounts, GetOrders
<1>4. ASSUME NEW t \in Tests, N!Test(t) PROVE NotifyInv'
  BY <1>0, <1>4, TestPins, TestCounts, TestOrders
<1>5. ASSUME NEW p \in N!Posters, N!PostStep(p) PROVE NotifyInv'
  <2>1. CASE MidPost(p)
    <3>1. PinInv'
      BY <2>1, ValidatePins, RefusePins, ReadPins, PinPins, ConnectPins, UnpinPins DEF MidPost
    <3> QED BY <1>0, <2>1, <3>1, MidPostCounts, MidPostOrders
  <2>2. CASE N!EndPost(p)
    BY <1>0, <2>2, EndPins, EndCounts, EndOrders
  <2> QED BY <1>5, <2>1, <2>2 DEF N!PostStep, MidPost
<1>6. CASE N!Crash
  BY <1>0, <1>6, CrashPins, CrashCounts, CrashOrders
<1>7. CASE UNCHANGED N!vars
  <2>1. PinInv'
    BY <1>7, ReportPins DEF N!vars
  <2>2. CountInv'
    BY <1>7, QuietPost DEF N!vars, N!Posting, N!postVars, N!queueVars
  <2>3. OrderInv'
    BY <1>7, QuietOrders DEF N!vars, N!postVars, N!queueVars, Waiting
  <2> QED BY <2>1, <2>2, <2>3
<1> QED BY <1>1, <1>2, <1>3, <1>4, <1>5, <1>6, <1>7 DEF N!Next

\* Type correctness and the three invariants of the notifiers, for every number of calls,
\* messages, tests and restarts, every queue and batch limit and whatever DNS answers.
THEOREM NotifyIsInductive == NotifyConstants => (N!Spec => [](NotifyInv /\ crashes \in Nat))
<1> SUFFICES ASSUME NotifyConstants PROVE N!Spec => [](NotifyInv /\ crashes \in Nat)
  OBVIOUS
<1>1. N!Init => NotifyInv /\ crashes \in Nat
  BY NotifyStarts DEF N!Init
<1>2. crashes \in Nat /\ [N!Next]_(N!vars) => crashes' \in Nat
  <2>1. \A r \in Reporters : N!Record(r) \/ N!RecordFails(r) \/ N!Report(r) => UNCHANGED crashes
    BY DEF N!Record, N!RecordFails, N!Report, N!Load, N!Count, N!Put, N!PutFull, N!Drop
  <2>2. \A p \in N!Posters : N!PostStep(p) => UNCHANGED crashes
    BY DEF N!PostStep, N!Validate, N!RefuseUrl, N!ReadResolver, N!Pin, N!Connect, N!Unpin, N!EndPost
  <2>3. \A c : N!Get(c) \/ N!Test(c) => UNCHANGED crashes
    BY DEF N!Get, N!Test
  <2>4. crashes \in Nat /\ N!Crash => crashes' \in Nat
    BY DEF N!Crash
  <2> QED BY <2>1, <2>2, <2>3, <2>4 DEF N!Next, N!vars
<1>3. (NotifyInv /\ crashes \in Nat) /\ [N!Next]_(N!vars) => (NotifyInv /\ crashes \in Nat)'
  BY <1>2, NotifySteps
<1> QED BY <1>1, <1>3, PTL DEF N!Spec

\* A behaviour of MCBackground is one of the stream and one of the notifiers, as what runs
\* leaves the other alone.
THEOREM BothRun == BothSpec => Spec /\ N!Spec
<1>1. BothInit => Init /\ N!Init
  BY DEF BothInit
<1>2. UNCHANGED notifyVars => UNCHANGED N!vars
  BY DEF notifyVars, N!vars, N!queueVars, N!postVars
<1>3. [BothNext]_allVars => [Next]_vars /\ [N!Next]_(N!vars)
  BY <1>2 DEF BothNext, Hls, Send, allVars
<1> QED BY <1>1, <1>3, PTL DEF BothSpec, Spec, N!Spec

\* pin_resolution (push_notify.py): whatever DNS answers between the validation and the
\* connection, and whoever else posts at the same time, a request connects to the address
\* that was validated for it, unless its URL spells the host with a trailing dot.  The
\* reason is that the resolver is only ever replaced by the holder of the lock, whose pin
\* is the outermost while it holds it; but it is kept under the name without the dot.
THEOREM ConnectionsAreValidated == NotifyConstants => (BothSpec => []ConnectsToValidated)
<1> SUFFICES ASSUME NotifyConstants PROVE BothSpec => []ConnectsToValidated
  OBVIOUS
<1>1. NotifyInv => ConnectsToValidated
  BY ConnectsAsPinned DEF NotifyInv, ConnectsToValidated
<1> QED BY <1>1, NotifyIsInductive, BothRun, PTL

\* flush() answers from a count that is exact: what is about to be queued, queued or being
\* posted, whoever publishes, drops or posts meanwhile.  And a message is posted at most once
\* on a channel, after the record it is about, and in the order of its call, over full queues,
\* failed requests and restarts.
THEOREM MessagesAreAccounted == NotifyConstants => (BothSpec => []Accounted)
<1> SUFFICES ASSUME NotifyConstants PROVE BothSpec => []Accounted
  OBVIOUS
<1>1. NotifyInv /\ crashes \in Nat => N!TypeOK /\ N!InflightExact
  BY SameCount DEF NotifyInv, PinInv, CountInv, N!TypeOK
<1>2. NotifyInv => N!PostedOnce
  <2> SUFFICES ASSUME NotifyInv, NEW c \in N!Channels, NEW i \in DOMAIN sent[c]
               PROVE  /\ sent[c][i][1] \in recorded
                      /\ \A j \in 1 .. i - 1 : sent[c][j][1] = sent[c][i][1] => sent[c][j][2] < sent[c][i][2]
    BY DEF N!PostedOnce
  <2>1. sent[c] \in Seq(N!Message) /\ Ordered(sent[c], Waiting(c), queue[c])
    BY DEF NotifyInv, OrderInv, LineInv
  <2>2. i \in 1 .. Len(sent[c]) /\ sent[c][i] \in OnLine(c)
    BY <2>1, LenProperties DEF OnLine, Elems
  <2>3. sent[c][i][1] \in recorded
    BY <2>2 DEF NotifyInv, OrderInv, LineInv
  <2>4. \A j \in 1 .. i - 1 : j \in 1 .. Len(sent[c]) /\ j < i
    BY <2>1, <2>2
  <2>5. \A j \in 1 .. i - 1 : Before(sent[c][j], sent[c][i])
    BY <2>1, <2>2, <2>4 DEF Ordered
  <2> QED BY <2>3, <2>5 DEF Before
<1>3. NotifyInv /\ crashes \in Nat => Accounted
  BY <1>1, <1>2 DEF Accounted, N!Accounted
<1> QED BY <1>3, NotifyIsInductive, BothRun, PTL
=============================================================================
