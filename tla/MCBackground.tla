---------------------------- MODULE MCBackground ----------------------------
(***************************************************************************)
(* The server's background threads: overlapping starts and stops of the    *)
(* live stream, and the workers that send notifications.  The two share no *)
(* state: each behaviour runs one of them.                                 *)
(*   hls:      two sessions and a stop                                     *)
(*   batch:    a call with two messages, which may overflow the queue, and *)
(*             one end of the process                                      *)
(*   test:     such a call while the user tests a channel                  *)
(***************************************************************************)
EXTENDS HlsStream, Naturals, TLC

CONSTANTS
    h1, h2, k1,
    Reporters, Batch, Tests, QueueMax, BatchMax, Addresses, Dotted, MaxCrashes      \* of Notify

VARIABLES
    which,
    recorded, rep, queue, inflight, started, post, sent, resolver, pinLock, crashes

N == INSTANCE Notify

TwoMessages == "r1" :> 2

notifyVars == <<recorded, rep, queue, inflight, started, post, sent, resolver, pinLock, crashes>>
allVars    == <<which, vars, notifyVars>>

BothInit == which \in {"hls", "batch", "test"} /\ Init /\ N!Init
Hls      == which = "hls" /\ Next /\ UNCHANGED notifyVars
Send ==
    /\ which # "hls" /\ N!Next /\ UNCHANGED vars
    /\ which = "batch" => \A t \in Tests : UNCHANGED post[t]
    /\ which = "test"  => UNCHANGED crashes
BothNext == UNCHANGED which /\ (Hls \/ Send)

BothFair ==
    /\ \A s \in Sessions :
          /\ WF_vars(which = "hls" /\ RequestStep(s)) /\ WF_vars(which = "hls" /\ ThreadStep(s))
          /\ WF_vars(which = "hls" /\ Watch(s))
    /\ \A y \in Stops : WF_vars(which = "hls" /\ StopStep(y))
    /\ \A r \in Reporters : WF_notifyVars(which # "hls" /\ N!Report(r))
    /\ \A c \in N!Channels : WF_notifyVars(which # "hls" /\ N!Get(c))
    /\ \A p \in N!Posters : WF_notifyVars(which # "hls" /\ N!PostStep(p))

BothSpec == BothInit /\ [][BothNext]_allVars /\ BothFair

-----------------------------------------------------------------------------
\* Every published message is counted from its publication to its post or its drop, and
\* is posted at most once, after the record that it is about and in order.
Accounted == which # "hls" => N!Accounted

\* A request to a host without a trailing dot connects to the address that was validated.
ConnectsToValidated == which # "hls" => N!ConnectsToValidated

\* A worker is never lost or blocked for good: every queue is worked off.
Drained == N!Drained
=============================================================================
