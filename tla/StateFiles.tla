----------------------------- MODULE StateFiles -----------------------------
(***************************************************************************)
(* The JSON state files that are changed by reading, merging and writing   *)
(* the whole file: the device tokens (gui/device_tokens.py), the webhook's *)
(* and the push topic's configuration (utils/event_webhook.py,             *)
(* utils/push_notify.py), the cameras' zones (utils/zones_config.py) and   *)
(* the quality search's cache (compression/vmaf_target.py).  They differ   *)
(* in what they do about concurrent saves, unreadable files and a write    *)
(* that is cut short, so one behaviour is about one store, chosen in Init. *)
(*                                                                         *)
(* A key is a device, a camera, a field of a configuration; its value is   *)
(* the save that wrote it, or the state of a device's token.               *)
(***************************************************************************)
EXTENDS Naturals, FiniteSets

CONSTANTS
    Keys, Saves, Loads,
    Stores,     \* the stores to check, of those below
    MaxFaults,  \* bound on failed reads, failed writes and ends of the process
    None        \* no value, no holder of the lock

VARIABLES
    store,      \* the store this behaviour is about
    file,       \* the file: "absent", "torn" or "whole", and its values
    pc, op,     \* saves: step and operation
    cfg,        \* saves: the values to write
    lock,       \* holder of the store's lock
    acked,      \* per key, the value of the last save that reported success
    got,        \* per load, what it returned
    faults

vars == <<store, file, pc, op, cfg, lock, acked, got, faults>>

Locked   == {"tokens", "hook", "zones", "cache"}  \* a save holds a lock
HookInPlace == {"tokens"}
Replaced == {"tokens", "hook"}                    \* written to a temp file, then renamed
Strict   == {"tokens"}                            \* never overwrites what it cannot read
LockedLoad == {"tokens", "cache"}                 \* a load takes the lock as well

Live     == {"live", "endpoint"}                  \* DeviceToken.is_usable
TokenValues == Live \union {"revoked", "junk"}    \* "junk": from_record gives None
Values   == IF store = "tokens" THEN TokenValues ELSE Saves \union {"old"}
Empty    == [k \in Keys |-> None]
Merged(at, ks, v) == [k \in Keys |-> IF k \in ks THEN v ELSE at[k]]

-----------------------------------------------------------------------------
(* What a save does to the values it has read *)

\* A token has a random id, which no earlier one had.
Unused(k) == file.at[k] = None /\ acked[k] = None /\ \A s \in Saves : k \notin op[s].keys

Operations ==
    IF store = "tokens"
    THEN {[kind |-> "mint", keys |-> {k}] : k \in {k \in Keys : Unused(k)}}
         \union {[kind |-> x, keys |-> {k}] : x \in {"revoke", "touch", "endpoint"}, k \in Keys}
         \union {[kind |-> "revoke", keys |-> Keys]}
    ELSE {[kind |-> "set", keys |-> ks] : ks \in SUBSET Keys \ {{}}}

\* mint_token, revoke_token and revoke_all, set_push_endpoint, and the fields
\* that a configuration's request names, or the camera's entry.
Mint(o, at)     == Merged(at, o.keys, "live")
Revoke(o, at)   == Merged(at, {k \in o.keys : at[k] \in Live}, "revoked")
Endpoint(o, at) == Merged(at, {k \in o.keys : at[k] \in Live}, "endpoint")
Set(s, at)      == Merged(at, op[s].keys, s)

New(s, at) ==
    CASE op[s].kind = "mint"     -> Mint(op[s], at)
      [] op[s].kind = "revoke"   -> Revoke(op[s], at)
      [] op[s].kind = "endpoint" -> Endpoint(op[s], at)
      [] op[s].kind = "touch"    -> at
      [] OTHER                   -> Set(s, at)

\* An operation that found no usable token leaves the file alone.
Hits(s, at) ==
    \/ op[s].kind \in {"mint", "set"}
    \/ \E k \in op[s].keys : at[k] \in Live

-----------------------------------------------------------------------------
(* Saving *)

Begin(s) ==
    /\ pc[s] = "new"
    /\ \E o \in Operations : op' = [op EXCEPT ![s] = o]
    /\ pc' = [pc EXCEPT ![s] = "lock"]
    /\ UNCHANGED <<store, file, cfg, lock, acked, got, faults>>

LockNothing(s) ==
    /\ pc[s] = "lock"
    /\ pc' = [pc EXCEPT ![s] = "read"]
    /\ UNCHANGED <<store, file, op, cfg, lock, acked, got, faults>>

\* The push configuration is saved without a lock.
Lock(s) ==
    /\ pc[s] = "lock"
    /\ IF store \in Locked THEN lock = None /\ lock' = s ELSE UNCHANGED lock
    /\ pc' = [pc EXCEPT ![s] = "read"]
    /\ UNCHANGED <<store, file, op, cfg, acked, got, faults>>

Release(s) == lock' = IF lock = s THEN None ELSE lock
Done(s)    == pc' = [pc EXCEPT ![s] = "done"] /\ Release(s)

\* The file is read, and what the save will write is computed from it.
Read(s) ==
    /\ pc[s] = "read" /\ file.state # "torn"
    /\ ~(store \in Strict /\ \E k \in Keys : file.at[k] = "junk")
    /\ IF Hits(s, file.at)
       THEN /\ pc'  = [pc EXCEPT ![s] = "write"]
            /\ cfg' = [cfg EXCEPT ![s] = New(s, file.at)]
            /\ UNCHANGED lock
       ELSE Done(s) /\ UNCHANGED cfg
    /\ UNCHANGED <<store, file, op, acked, got, faults>>

\* The file is torn, or another program has it open.  A strict store refuses to
\* go on; the others take it for empty, and write only what this save names.
Unreadable(s) ==
    /\ pc[s] = "read" /\ \/ file.state = "torn" /\ UNCHANGED faults
                         \/ faults < MaxFaults /\ faults' = faults + 1
LenientRead(s) ==
    /\ Unreadable(s)
    /\ pc'  = [pc EXCEPT ![s] = "write"]
    /\ cfg' = [cfg EXCEPT ![s] = New(s, Empty)]
    /\ UNCHANGED <<store, file, op, lock, acked, got>>
ReadFails(s) ==
    IF store \in Strict
    THEN Unreadable(s) /\ Done(s) /\ UNCHANGED <<store, file, op, cfg, acked, got>>
    ELSE LenientRead(s)

RewriteJunk(s) ==
    /\ pc[s] = "read" /\ store \in Strict /\ \E k \in Keys : file.at[k] = "junk"
    /\ pc'  = [pc EXCEPT ![s] = "write"]
    /\ cfg' = [cfg EXCEPT ![s] =
                 New(s, [k \in Keys |-> IF file.at[k] = "junk" THEN None ELSE file.at[k]])]
    /\ UNCHANGED <<store, file, op, lock, acked, got, faults>>

\* A record that cannot be parsed would be lost by a rewrite: the save refuses,
\* and a verification does not stamp the token it found.
RefuseJunk(s) ==
    /\ pc[s] = "read" /\ store \in Strict /\ \E k \in Keys : file.at[k] = "junk"
    /\ Done(s)
    /\ UNCHANGED <<store, file, op, cfg, acked, got, faults>>

\* The temp file is renamed over the store.
Acknowledge(s) ==
    acked' = [k \in Keys |-> IF k \in op[s].keys THEN cfg[s][k] ELSE acked[k]]
Replace(s) ==
    /\ pc[s] = "write" /\ store \in Replaced
    /\ file' = [state |-> "whole", at |-> cfg[s]]
    /\ Acknowledge(s) /\ Done(s)
    /\ UNCHANGED <<store, op, cfg, got, faults>>

\* write_text empties the file, then fills it.
Truncate(s) ==
    /\ pc[s] = "write" /\ store \notin Replaced
    /\ file' = [state |-> "torn", at |-> Empty]
    /\ pc' = [pc EXCEPT ![s] = "fill"]
    /\ UNCHANGED <<store, op, cfg, lock, acked, got, faults>>
Fill(s) ==
    /\ pc[s] = "fill"
    /\ file' = [state |-> "whole", at |-> cfg[s]]
    /\ Acknowledge(s) /\ Done(s)
    /\ UNCHANGED <<store, op, cfg, got, faults>>

FailHoldingLock(s) ==
    /\ pc[s] \in {"write", "fill"} /\ faults < MaxFaults
    /\ faults' = faults + 1
    /\ pc' = [pc EXCEPT ![s] = "done"]
    /\ UNCHANGED <<store, file, op, cfg, lock, acked, got>>

\* The disk is full: the caller is told, and a file written in place stays torn.
WriteFails(s) ==
    /\ pc[s] \in {"write", "fill"} /\ faults < MaxFaults
    /\ faults' = faults + 1 /\ Done(s)
    /\ UNCHANGED <<store, file, op, cfg, acked, got>>

-----------------------------------------------------------------------------
(* Loading, and the end of the process *)

Load(l) ==
    /\ got[l] = "nothing" /\ (store \in LockedLoad => lock = None)
    /\ got' = [got EXCEPT ![l] = IF file.state = "torn" THEN "defaults" ELSE "stored"]
    /\ UNCHANGED <<store, file, pc, op, cfg, lock, acked, faults>>

\* The saves under way end with the process; what they wrote stays.
Crash ==
    /\ faults < MaxFaults /\ faults' = faults + 1
    /\ pc' = [s \in Saves |-> IF pc[s] = "new" THEN "new" ELSE "done"]
    /\ lock' = None
    /\ UNCHANGED <<store, file, op, cfg, acked, got>>

-----------------------------------------------------------------------------
Init ==
    /\ store \in Stores
    /\ file \in {[state |-> "absent", at |-> Empty]} \union
         {[state |-> "whole", at |-> at] :
            at \in [Keys -> IF store = "tokens" THEN {None, "live", "junk"} ELSE {None, "old"}]}
    /\ pc  = [s \in Saves |-> "new"]
    /\ op  = [s \in Saves |-> [kind |-> "none", keys |-> {}]]
    /\ cfg = [s \in Saves |-> Empty]
    /\ lock = None
    /\ acked = file.at
    /\ got = [l \in Loads |-> "nothing"]
    /\ faults = 0

Save(s) ==
    \/ Begin(s) \/ Lock(s) \/ Read(s) \/ ReadFails(s) \/ RefuseJunk(s)
    \/ Replace(s) \/ Truncate(s) \/ Fill(s) \/ WriteFails(s)

Next ==
    \/ \E s \in Saves : Save(s)
    \/ \E l \in Loads : Load(l)
    \/ Crash

Spec == Init /\ [][Next]_vars
-----------------------------------------------------------------------------
(* Properties *)

TypeOK ==
    /\ store \in Stores
    /\ file \in [state : {"absent", "torn", "whole"}, at : [Keys -> Values \union {None}]]
    /\ pc \in [Saves -> {"new", "lock", "read", "write", "fill", "done"}]
    /\ op \in [Saves -> [kind : {"none", "mint", "revoke", "touch", "endpoint", "set"},
                         keys : SUBSET Keys]]
    /\ cfg \in [Saves -> [Keys -> Values \union {None}]]
    /\ lock \in Saves \union {None}
    /\ acked \in [Keys -> Values \union {None}]
    /\ got \in [Loads -> {"nothing", "stored", "defaults"}]
    /\ faults \in 0..MaxFaults

\* A write in place is under way.
Filling == \E s \in Saves : pc[s] = "fill"

\* A save that was reported successful is not undone by another one: with the
\* lock, each merges what the one before it wrote (event_webhook, zones_config,
\* vmaf_target), as long as no read or write fails.
SavesKept ==
    (store \in Locked /\ faults = 0 /\ ~Filling) => file.at = acked

\* No paired device is lost and no revoked one comes back, whatever reads and
\* writes fail and whenever the process ends; a record the program cannot parse
\* is kept as well (_read_all_strict, _write_all).
DevicesKept ==
    store = "tokens" => file.at = acked /\ file.state # "torn"

\* The webhook's publisher and the token check never see a half-written file
\* (os.replace in _save_config_locked and _write_all).
LoadsWhole ==
    store \in {"tokens", "hook"} => \A l \in Loads : got[l] # "defaults"

\* The lock is given back on every way out of a save, so the next one gets it.
LockGivenBack == lock # None => pc[lock] \in {"read", "write", "fill"}
=============================================================================
