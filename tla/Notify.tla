------------------------------- MODULE Notify -------------------------------
(***************************************************************************)
(* Notifications: the job history and the event log hand every new entry   *)
(* to the push topic (utils/push_notify.py) and then to the webhook        *)
(* (utils/event_webhook.py).  Each channel has a bounded queue and one     *)
(* daemon worker; the two share the process's name resolution, which a     *)
(* request replaces while it is made.                                      *)
(*                                                                         *)
(* A message is <<reporter, number>>.  Of the configuration only whether   *)
(* it makes publish a no-op is kept; StateFiles models how it is stored.   *)
(***************************************************************************)
EXTENDS Naturals, Sequences, FiniteSets

CONSTANTS
    Reporters,  \* calls of record_job and append_events
    Batch,      \* per reporter, the number of messages of its call
    Tests,      \* calls of send_test
    QueueMax,   \* _MAX_QUEUE
    BatchMax,   \* _MAX_PER_BATCH
    Addresses,  \* what the resolver may answer for a host
    Dotted,     \* the channels whose URL spells the host with a trailing dot
    MaxCrashes, \* bound on the ends of the process
    None        \* no message, no thread, no address

Channels == {"push", "hook"}
Posters  == Channels \union Tests

VARIABLES
    recorded,   \* reporters whose entry is in the history or the log
    rep,        \* reporters: step, channel and messages still to publish
    queue, inflight, started,           \* _queue, _inflight, _worker_started
    post,       \* posters: step, message, host, validated address, saved resolver
    sent,       \* per channel, the messages a request was made for, in order
    resolver,   \* socket.getaddrinfo: the pins a lookup passes, the system's is <<>>
    pinLock,    \* the holder of _dns_pin_lock
    crashes

queueVars == <<queue, inflight, started>>
postVars  == <<post, sent, resolver, pinLock>>
vars      == <<recorded, rep, queueVars, postVars, crashes>>

-----------------------------------------------------------------------------
(* Publishing, in the thread that reports *)

\* The messages of one call on channel c: the push adds a summary of the rest.
Messages(r, c) ==
    LET first == [n \in 1..(IF Batch[r] < BatchMax THEN Batch[r] ELSE BatchMax) |-> <<r, n>>]
    IN  IF c = "push" /\ Batch[r] > BatchMax
        THEN Append(first, <<r, BatchMax + 1>>) ELSE first

RecordAfter(r) ==
    /\ rep[r].pc = "new"
    /\ rep' = [rep EXCEPT ![r] = [pc |-> "load", chan |-> "push", left |-> <<>>]]
    /\ UNCHANGED <<recorded, queueVars, postVars, crashes>>

\* The entry is written; only then are the notifiers called.
Record(r) ==
    /\ rep[r].pc = "new"
    /\ recorded' = recorded \union {r}
    /\ rep' = [rep EXCEPT ![r] = [pc |-> "load", chan |-> "push", left |-> <<>>]]
    /\ UNCHANGED <<queueVars, postVars, crashes>>

\* The write fails: the call returns without a notification.
RecordFails(r) ==
    /\ rep[r].pc = "new"
    /\ rep' = [rep EXCEPT ![r].pc = "done"]
    /\ UNCHANGED <<recorded, queueVars, postVars, crashes>>

\* The channel is done: the push is followed by the webhook.
NextChannel(r) ==
    rep' = [rep EXCEPT ![r] =
              IF rep[r].chan = "push" THEN [pc |-> "load", chan |-> "hook", left |-> <<>>]
              ELSE [pc |-> "done", chan |-> "hook", left |-> <<>>]]

\* load_config: the channel is on for this kind of entry, or it is off or the
\* file unreadable (StateFiles models what is stored).
Load(r) ==
    /\ rep[r].pc = "load"
    /\ \/ rep' = [rep EXCEPT ![r].pc = "count", ![r].left = Messages(r, rep[r].chan)]
       \/ NextChannel(r)
    /\ UNCHANGED <<recorded, queueVars, postVars, crashes>>

\* publish: start the worker when there is none, and count the message.
Count(r) ==
    /\ rep[r].pc = "count"
    /\ rep'      = [rep EXCEPT ![r].pc = "put"]
    /\ started'  = [started EXCEPT ![rep[r].chan] = TRUE]
    /\ inflight' = [inflight EXCEPT ![rep[r].chan] = @ + 1]
    /\ UNCHANGED <<recorded, queue, postVars, crashes>>

\* One message is dealt with.
NextMessage(r) ==
    IF Len(rep[r].left) > 1
    THEN rep' = [rep EXCEPT ![r].pc = "count", ![r].left = Tail(@)]
    ELSE NextChannel(r)

Put(r) ==
    /\ rep[r].pc = "put" /\ Len(queue[rep[r].chan]) < QueueMax
    /\ queue' = [queue EXCEPT ![rep[r].chan] = Append(@, Head(rep[r].left))]
    /\ NextMessage(r)
    /\ UNCHANGED <<recorded, inflight, started, postVars, crashes>>

\* queue.Full: the message is dropped, in two steps.
PutFull(r) ==
    /\ rep[r].pc = "put" /\ Len(queue[rep[r].chan]) = QueueMax
    /\ rep' = [rep EXCEPT ![r].pc = "drop"]
    /\ UNCHANGED <<recorded, queueVars, postVars, crashes>>
DropUncounted(r) ==
    /\ rep[r].pc = "drop"
    /\ NextMessage(r)
    /\ UNCHANGED <<recorded, queueVars, postVars, crashes>>
Drop(r) ==
    /\ rep[r].pc = "drop"
    /\ inflight' = [inflight EXCEPT ![rep[r].chan] = @ - 1]
    /\ NextMessage(r)
    /\ UNCHANGED <<recorded, queue, started, postVars, crashes>>

-----------------------------------------------------------------------------
(* One request: _post, in a worker or in a test *)

Idle == [pc |-> "idle", msg |-> None, host |-> "push", addr |-> None, orig |-> <<>>]

Step(p, pc) == post' = [post EXCEPT ![p].pc = pc]

\* The worker takes the next message.
Get(c) ==
    /\ started[c] /\ post[c].pc = "idle" /\ queue[c] # <<>>
    /\ queue' = [queue EXCEPT ![c] = Tail(@)]
    /\ post'  = [post EXCEPT ![c] = [Idle EXCEPT !.pc = "check", !.msg = Head(queue[c]), !.host = c]]
    /\ UNCHANGED <<recorded, rep, inflight, started, sent, resolver, pinLock, crashes>>

\* A test posts to either host in the thread of its request.
Test(t) ==
    /\ post[t].pc = "idle"
    /\ \E h \in Channels : post' = [post EXCEPT ![t] = [Idle EXCEPT !.pc = "check", !.host = h]]
    /\ UNCHANGED <<recorded, rep, queueVars, sent, resolver, pinLock, crashes>>

\* The answers to a lookup of host h, spelled without a trailing dot: it passes the
\* pins from the outermost in, and what no pin answers, the system answers as it likes.
Answers(h) ==
    LET hits == {i \in DOMAIN resolver : resolver[i].host = h}
    IN  IF hits = {} THEN Addresses
        ELSE {resolver[i].addr : i \in {i \in hits : \A j \in hits : i <= j}}

\* The answers a request gets when it connects, under the name its URL spells: a pin is
\* kept under the name without the dot, so no pin answers for the name with it.
ConnectAnswers(h) == IF h \in Dotted THEN Addresses ELSE Answers(h)

\* validate_push_url resolves the host, without its trailing dot, and accepts the address,
\* or refuses.
Validate(p) ==
    /\ post[p].pc = "check"
    /\ \E addr \in Answers(post[p].host) :
          post' = [post EXCEPT ![p].pc = "read", ![p].addr = addr]
    /\ UNCHANGED <<recorded, rep, queueVars, sent, resolver, pinLock, crashes>>
RefuseUrl(p) ==
    /\ post[p].pc = "check" /\ Step(p, "end")
    /\ UNCHANGED <<recorded, rep, queueVars, sent, resolver, pinLock, crashes>>

\* pin_resolution keeps the resolver it finds, and only then waits for the lock.
ReadResolver(p) ==
    /\ post[p].pc = "read"
    /\ post' = [post EXCEPT ![p].pc = "pin", ![p].orig = resolver]
    /\ UNCHANGED <<recorded, rep, queueVars, sent, resolver, pinLock, crashes>>

PinUnserialized(p) ==
    /\ post[p].pc = "pin"
    /\ pinLock'  = p
    /\ resolver' = <<[host |-> post[p].host, addr |-> post[p].addr]>> \o post[p].orig
    /\ Step(p, "connect")
    /\ UNCHANGED <<recorded, rep, queueVars, sent, crashes>>
Pin(p) ==
    /\ post[p].pc = "pin" /\ pinLock = None
    /\ pinLock'  = p
    /\ resolver' = <<[host |-> post[p].host, addr |-> post[p].addr]>> \o post[p].orig
    /\ Step(p, "connect")
    /\ UNCHANGED <<recorded, rep, queueVars, sent, crashes>>

\* The request is made, with any answer or none.
Connect(p) ==
    /\ post[p].pc = "connect" /\ Step(p, "unpin")
    /\ sent' = IF p \in Channels THEN [sent EXCEPT ![p] = Append(@, post[p].msg)] ELSE sent
    /\ UNCHANGED <<recorded, rep, queueVars, resolver, pinLock, crashes>>

Unpin(p) ==
    /\ post[p].pc = "unpin" /\ Step(p, "end")
    /\ resolver' = post[p].orig /\ pinLock' = None
    /\ UNCHANGED <<recorded, rep, queueVars, sent, crashes>>

\* A failed request is put back for another try.
EndPostRetry(p) ==
    /\ post[p].pc = "end"
    /\ post' = [post EXCEPT ![p] = IF p \in Channels THEN Idle ELSE [Idle EXCEPT !.pc = "done"]]
    /\ queue' = IF p \in Channels THEN [queue EXCEPT ![p] = Append(@, post[p].msg)] ELSE queue
    /\ UNCHANGED <<recorded, rep, inflight, started, sent, resolver, pinLock, crashes>>

\* The worker thread ends when the request raises.
EndPostRaise(p) ==
    /\ post[p].pc = "end"
    /\ p \notin Channels
    /\ post' = [post EXCEPT ![p] = [Idle EXCEPT !.pc = "done"]]
    /\ UNCHANGED <<recorded, rep, queueVars, sent, resolver, pinLock, crashes>>

\* The worker's finally block, or the reply to the test.
EndPost(p) ==
    /\ post[p].pc = "end"
    /\ post' = [post EXCEPT ![p] = IF p \in Channels THEN Idle ELSE [Idle EXCEPT !.pc = "done"]]
    /\ inflight' = IF p \in Channels THEN [inflight EXCEPT ![p] = @ - 1] ELSE inflight
    /\ UNCHANGED <<recorded, rep, queue, started, sent, resolver, pinLock, crashes>>

-----------------------------------------------------------------------------
(* The process ends and starts again: files stay, everything else is new. *)

Crash ==
    /\ crashes < MaxCrashes /\ crashes' = crashes + 1
    /\ rep'      = [r \in Reporters |-> IF rep[r].pc = "new" THEN rep[r] ELSE [rep[r] EXCEPT !.pc = "done"]]
    /\ queue'    = [c \in Channels |-> <<>>]
    /\ inflight' = [c \in Channels |-> 0]
    /\ started'  = [c \in Channels |-> FALSE]
    /\ post'     = [p \in Posters |-> IF p \in Channels \/ post[p].pc = "idle"
                                      THEN Idle ELSE [Idle EXCEPT !.pc = "done"]]
    /\ resolver' = <<>> /\ pinLock' = None
    /\ UNCHANGED <<recorded, sent>>

-----------------------------------------------------------------------------
(* Specification *)

Init ==
    /\ recorded = {}
    /\ rep = [r \in Reporters |-> [pc |-> "new", chan |-> "push", left |-> <<>>]]
    /\ queue = [c \in Channels |-> <<>>] /\ inflight = [c \in Channels |-> 0]
    /\ started = [c \in Channels |-> FALSE]
    /\ post = [p \in Posters |-> Idle]
    /\ sent = [c \in Channels |-> <<>>]
    /\ resolver = <<>> /\ pinLock = None
    /\ crashes = 0

Report(r)  == Load(r) \/ Count(r) \/ Put(r) \/ PutFull(r) \/ Drop(r)
PostStep(p) == Validate(p) \/ RefuseUrl(p) \/ ReadResolver(p) \/ Pin(p) \/ Connect(p)
                \/ Unpin(p) \/ EndPost(p)

Next ==
    \/ \E r \in Reporters : Record(r) \/ RecordFails(r) \/ Report(r)
    \/ \E c \in Channels : Get(c)
    \/ \E t \in Tests : Test(t)
    \/ \E p \in Posters : PostStep(p)
    \/ Crash

\* Threads that run go on; a request has a timeout, and the requests that can be
\* in a worker's way to the lock are bounded.
Fairness ==
    /\ \A r \in Reporters : WF_vars(Report(r))
    /\ \A c \in Channels : WF_vars(Get(c))
    /\ \A p \in Posters : WF_vars(PostStep(p))

Spec     == Init /\ [][Next]_vars
FairSpec == Spec /\ Fairness

-----------------------------------------------------------------------------
(* Properties *)

Message == Reporters \X Nat
PinList == Seq([host : Channels, addr : Addresses])

\* Every variable holds a value of its kind.
RepState == [pc : {"new", "load", "count", "put", "drop", "done"}, chan : Channels, left : Seq(Message)]
RepTyped ==
    /\ recorded \subseteq Reporters
    /\ rep \in [Reporters -> RepState]
    /\ \A r \in Reporters : rep[r].pc \in {"count", "put", "drop"} => rep[r].left # <<>>
QueueTyped ==
    /\ queue \in [Channels -> Seq(Message)] /\ \A c \in Channels : Len(queue[c]) <= QueueMax
    /\ inflight \in [Channels -> Nat] /\ started \in [Channels -> BOOLEAN]
PostState ==
    [pc : {"idle", "check", "read", "pin", "connect", "unpin", "end", "done"}, msg : Message \union {None},
     host : Channels, addr : Addresses \union {None}, orig : PinList]
PostTyped ==
    /\ post \in [Posters -> PostState]
    /\ sent \in [Channels -> Seq(Message \union {None})]
    /\ resolver \in PinList /\ pinLock \in Posters \union {None}
TypeOK == RepTyped /\ QueueTyped /\ PostTyped /\ crashes \in Nat

\* flush() answers from _inflight: the count is exactly the messages that are
\* about to be queued, queued, or being posted, whoever publishes, drops or posts
\* meanwhile, so "drained" is never said too early and never withheld for good.
Publishing(c) == {r \in Reporters : rep[r].chan = c /\ rep[r].pc \in {"put", "drop"}}
Posting(c)    == IF post[c].pc = "idle" THEN 0 ELSE 1
InflightExact ==
    \A c \in Channels : inflight[c] = Len(queue[c]) + Cardinality(Publishing(c)) + Posting(c)

\* A notification never runs ahead of what it is about ("Deliberately after the
\* history write", job_history.py), a message is posted at most once on a channel
\* over drops, failures and restarts, and the messages of one call arrive in order.
PostedOnce ==
    \A c \in Channels :
        LET posted == sent[c] IN
        \A i \in DOMAIN posted :
            /\ posted[i][1] \in recorded
            /\ \A j \in 1..(i - 1) : posted[j][1] = posted[i][1] => posted[j][2] < posted[i][2]

\* The notifiers' account of their messages, in one formula.
Accounted == TypeOK /\ InflightExact /\ PostedOnce

\* pin_resolution: whatever DNS answers meanwhile and whoever else is posting, a
\* request connects to the address that was validated for it, when its URL spells the
\* host without a trailing dot; with one, the pin is not asked.
ConnectsToValidated ==
    \A p \in Posters : post[p].pc = "connect" /\ post[p].host \notin Dotted =>
        ConnectAnswers(post[p].host) = {post[p].addr}

\* A worker is never lost or blocked for good: every queue is worked off.
Drained == \A c \in Channels : inflight[c] > 0 ~> inflight[c] = 0
=============================================================================
