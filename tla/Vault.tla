-------------------------------- MODULE Vault --------------------------------
(***************************************************************************)
(* The footage once it is encoded: a run encrypts its finished segments    *)
(* (ROIEncoder._finish_segment_inner, utils/encryption.py), the dashboard  *)
(* makes locked copies and opens them again (gui/routes/encryption_bp.py), *)
(* the index of segments is shown, hidden and cleaned up                   *)
(* (gui/routes/files_bp.py), and retention deletes.                        *)
(*                                                                         *)
(* A segment has a recording, the .enc a run leaves beside it, the copy in *)
(* Encrypted/, and a Decrypted/ copy of either.  Of a file only this is    *)
(* kept: whether it is there, whole or cut short, and under which key.     *)
(***************************************************************************)
EXTENDS Naturals, Sequences, FiniteSets

CONSTANTS
    Segs,       \* segments a run encrypts
    Requests,   \* requests to encrypt or decrypt
    MaxKeys,    \* bound on the keys generated
    MaxRows,    \* bound on the rows of the index
    MaxFaults   \* bound on failed calls and ends of the process

VARIABLES
    plain,      \* the recordings: "encoding", "whole" or "absent"
    enc,        \* .enc files by place and segment
    copy,       \* decrypted copies by the place and segment of their .enc
    keyFile,    \* camera.key: 0 while it is missing or half written
    keys,       \* keys generated so far
    rows,       \* the index: file, and whether the row is shown or who hid it
    job,        \* per segment and request, the call under way
    failures,   \* segments counted in encryption_failures
    purged,     \* segments of which retention has deleted a file
    stale,      \* rows that cleanup_missing found without a file
    faults

files == <<plain, enc, copy>>
vars  == <<files, keyFile, keys, rows, job, failures, purged, stale, faults>>

Places == {"beside", "locked"}          \* next to the recording, Encrypted/
Actors == Segs \union Requests
NoKey    == 0
Password == MaxKeys + 1                 \* the configured one
Typo     == MaxKeys + 2                 \* one that nobody will think of again
Absent == [state |-> "absent", key |-> NoKey]
Whole(k) == [state |-> "whole", key |-> k]
Torn   == [state |-> "torn", key |-> NoKey]
Idle   == [pc |-> "idle", seg |-> "none", place |-> "none", key |-> NoKey, got |-> "none"]

Exists(f) == IF f[1] = "plain" THEN plain[f[2]] = "whole" ELSE enc[f[1]][f[2]].state # "absent"
Visible   == {i \in DOMAIN rows : rows[i].is = "shown"}
Row(place, s) == [file |-> <<place, s>>, is |-> "shown"]
Ended(pc)     == [Idle EXCEPT !.pc = pc]
Step(a, pc)   == job' = [job EXCEPT ![a] = IF pc \in {"done", "unlisted"} THEN Ended(pc) ELSE [@ EXCEPT !.pc = pc]]
Fault         == faults < MaxFaults /\ faults' = faults + 1

-----------------------------------------------------------------------------
(* Encrypting *)

\* A run has encoded the segment and muxed its audio; the path is guarded
\* against retention until the segment is done.
Encoded(s) ==
    /\ plain[s] = "encoding"
    /\ plain' = [plain EXCEPT ![s] = "whole"]
    /\ job' = [job EXCEPT ![s] = [Idle EXCEPT !.pc = "key", !.seg = s, !.place = "beside"]]
    /\ UNCHANGED <<enc, copy, keyFile, keys, rows, failures, purged, stale, faults>>

\* A request to lock a recording that is there, with a password or the key file.
AskEncrypt(q) ==
    /\ job[q].pc = "idle"
    /\ \E s \in Segs :
          /\ plain[s] = "whole"
          /\ job' = [job EXCEPT ![q] = [Idle EXCEPT !.pc = "key", !.seg = s, !.place = "locked"]]
    /\ UNCHANGED <<files, keyFile, keys, rows, failures, purged, stale, faults>>

\* The key: a run's password is the configured one, a person may mistype theirs.
Passwords(a) == IF a \in Segs THEN {Password} ELSE {Password, Typo}
ReadKey(a) ==
    /\ job[a].pc = "key"
    /\ \E k \in Passwords(a) \union {keyFile} :
          /\ k # NoKey
          /\ job' = [job EXCEPT ![a].pc = "cipher", ![a].key = k]
    /\ UNCHANGED <<files, keyFile, keys, rows, failures, purged, stale, faults>>

\* A failure of a run that only keeps the recording.
EncryptFailsQuietly(a) ==
    IF a \in Segs
    THEN UNCHANGED failures /\ job' = [job EXCEPT ![a].pc = "row", ![a].place = "plain"]
    ELSE Step(a, "done") /\ UNCHANGED failures

\* The way out when something raises: the run keeps the recording and counts
\* the failure, the request answers with an error.
EncryptFails(a) ==
    IF a \in Segs
    THEN /\ failures' = failures \union {a}
         /\ job' = [job EXCEPT ![a].pc = "row", ![a].place = "plain"]
    ELSE Step(a, "done") /\ UNCHANGED failures

\* The key file is missing, or not of 32 bytes while it is being written.
NoKeyFile(a) ==
    /\ job[a].pc = "key" /\ keyFile = NoKey
    /\ EncryptFails(a)
    /\ UNCHANGED <<files, keyFile, keys, rows, purged, stale, faults>>

\* The recording is enciphered into a side file of this call.
Encipher(a) ==
    /\ job[a].pc = "cipher" /\ plain[job[a].seg] = "whole"
    /\ Step(a, "publish")
    /\ UNCHANGED <<files, keyFile, keys, rows, failures, purged, stale, faults>>

\* The recording has gone since it was asked for, or a read or write fails;
\* the side file is removed.
EncipherFails(a) ==
    /\ job[a].pc = "cipher"
    /\ IF plain[job[a].seg] = "whole" THEN Fault ELSE UNCHANGED faults
    /\ EncryptFails(a)
    /\ UNCHANGED <<files, keyFile, keys, rows, purged, stale>>

Put(a, c) == enc' = [enc EXCEPT ![job[a].place][job[a].seg] = c]

\* A request that replaces the recording by its locked copy.
PublishInPlace(a) ==
    /\ job[a].pc = "publish"
    /\ Put(a, Whole(job[a].key))
    /\ plain' = [plain EXCEPT ![job[a].seg] = IF a \in Requests THEN "absent" ELSE @]
    /\ Step(a, IF a \in Segs THEN "unlink" ELSE "row")
    /\ UNCHANGED <<copy, keyFile, keys, rows, failures, purged, stale, faults>>

\* The side file is renamed into place.
Publish(a) ==
    /\ job[a].pc = "publish"
    /\ Put(a, Whole(job[a].key))
    /\ Step(a, IF a \in Segs THEN "unlink" ELSE "row")
    /\ UNCHANGED <<plain, copy, keyFile, keys, rows, failures, purged, stale, faults>>

\* The target is open elsewhere (Windows): it is overwritten in place.
PublishHeld(a) ==
    /\ job[a].pc = "publish" /\ enc[job[a].place][job[a].seg].state # "absent"
    /\ Fault
    /\ Put(a, Torn) /\ Step(a, "copy")
    /\ UNCHANGED <<plain, copy, keyFile, keys, rows, failures, purged, stale>>
CopyOver(a) ==
    /\ job[a].pc = "copy"
    /\ Put(a, Whole(job[a].key))
    /\ Step(a, IF a \in Segs THEN "unlink" ELSE "row")
    /\ UNCHANGED <<plain, copy, keyFile, keys, rows, failures, purged, stale, faults>>
PublishFails(a) ==
    /\ job[a].pc \in {"publish", "copy"}
    /\ Fault
    /\ EncryptFails(a)
    /\ UNCHANGED <<files, keyFile, keys, rows, purged, stale>>

\* A run deletes the recording, and keeps it when that fails.
Unlink(s) ==
    /\ job[s].pc = "unlink"
    /\ plain' = [plain EXCEPT ![s] = "absent"]
    /\ Step(s, "row")
    /\ UNCHANGED <<enc, copy, keyFile, keys, rows, failures, purged, stale, faults>>
UnlinkFails(s) ==
    /\ job[s].pc = "unlink" /\ Fault
    /\ EncryptFails(s)
    /\ UNCHANGED <<files, keyFile, keys, rows, purged, stale>>

\* insert_segment names the file that was kept; a request adds a row of its own.
InsertRow(a) ==
    /\ job[a].pc = "row" /\ Len(rows) < MaxRows
    /\ rows' = Append(rows, Row(job[a].place, job[a].seg))
    /\ Step(a, "done")
    /\ UNCHANGED <<files, keyFile, keys, failures, purged, stale, faults>>
InsertFails(a) ==
    /\ job[a].pc = "row" /\ Fault
    /\ Step(a, "unlisted")
    /\ UNCHANGED <<files, keyFile, keys, rows, failures, purged, stale>>

-----------------------------------------------------------------------------
(* Decrypting *)

AskDecrypt(q) ==
    /\ job[q].pc = "idle"
    /\ \E p \in Places, s \in Segs, k \in {Password, Typo, keyFile} :
          /\ enc[p][s].state # "absent" /\ k # NoKey
          /\ job' = [job EXCEPT ![q] = [Idle EXCEPT !.pc = "drop", !.seg = s, !.place = p, !.key = k]]
    /\ UNCHANGED <<files, keyFile, keys, rows, failures, purged, stale, faults>>

PutCopy(q, c) == copy' = [copy EXCEPT ![job[q].place][job[q].seg] = c]

\* The copy of an earlier call is removed, or stays because it is open elsewhere.
DropCopy(q) ==
    /\ job[q].pc = "drop"
    /\ \/ PutCopy(q, "absent")
       \/ UNCHANGED copy
    /\ Step(q, "decipher")
    /\ UNCHANGED <<plain, enc, keyFile, keys, rows, failures, purged, stale, faults>>

\* The .enc is deciphered straight into the copy, the tag checked at the end.
DecipherUnchecked(q) ==
    /\ job[q].pc = "decipher"
    /\ LET c == enc[job[q].place][job[q].seg]
       IN  IF c.state = "whole" /\ c.key = job[q].key THEN Step(q, "reveal") /\ UNCHANGED copy
           ELSE Step(q, "done") /\ PutCopy(q, "forged")
    /\ UNCHANGED <<plain, enc, keyFile, keys, rows, failures, purged, stale, faults>>

\* The .enc is deciphered into a side file; its last step checks the tag.
Decipher(q) ==
    /\ job[q].pc = "decipher"
    /\ LET c == enc[job[q].place][job[q].seg]
       IN  Step(q, IF c.state = "whole" /\ c.key = job[q].key THEN "reveal" ELSE "done")
    /\ UNCHANGED <<files, keyFile, keys, rows, failures, purged, stale, faults>>

\* The side file becomes the copy, which is then read for the response.  It is
\* renamed, or poured over a copy that is open elsewhere (Windows).
Reveal(q) ==
    /\ job[q].pc \in {"reveal", "pour"}
    /\ PutCopy(q, "whole") /\ Step(q, "serve")
    /\ UNCHANGED <<plain, enc, keyFile, keys, rows, failures, purged, stale, faults>>
RevealHeld(q) ==
    /\ job[q].pc = "reveal" /\ copy[job[q].place][job[q].seg] # "absent"
    /\ PutCopy(q, "torn") /\ Step(q, "pour")
    /\ UNCHANGED <<plain, enc, keyFile, keys, rows, failures, purged, stale, faults>>
RevealFails(q) ==
    /\ job[q].pc \in {"reveal", "pour"} /\ Fault
    /\ Step(q, "done")
    /\ UNCHANGED <<files, keyFile, keys, rows, failures, purged, stale>>
Serve(q) ==
    /\ job[q].pc = "serve"
    /\ job' = [job EXCEPT ![q] = [Ended("done") EXCEPT !.got = copy[job[q].place][job[q].seg]]]
    /\ UNCHANGED <<files, keyFile, keys, rows, failures, purged, stale, faults>>

-----------------------------------------------------------------------------
(* Key generation, the index, retention, the end of the process *)

\* camera.key is overwritten in place, whatever it held.
Keygen ==
    /\ keys < MaxKeys /\ keys' = keys + 1 /\ keyFile' = NoKey
    /\ UNCHANGED <<files, rows, job, failures, purged, stale, faults>>
KeyWritten ==
    /\ keyFile = NoKey /\ keys > 0 /\ keyFile' = keys
    /\ UNCHANGED <<files, keys, rows, job, failures, purged, stale, faults>>

Hide(which, by) ==
    rows' = [i \in DOMAIN rows |-> IF i \in which THEN [rows[i] EXCEPT !.is = by] ELSE rows[i]]

\* A person hides one file's rows, or all of them.
Dismiss ==
    /\ Visible # {}
    /\ \/ Hide(Visible, "dismissed")
       \/ \E i \in Visible : Hide({j \in Visible : rows[j].file = rows[i].file}, "dismissed")
    /\ UNCHANGED <<files, keyFile, keys, job, failures, purged, stale, faults>>

\* cleanup_missing finds the visible rows whose file is not there ...
FindStale ==
    /\ stale = {}
    /\ stale' = {i \in Visible : ~Exists(rows[i].file)} /\ stale' # {}
    /\ UNCHANGED <<files, keyFile, keys, rows, job, failures, purged, faults>>

\* ... and hides them, by their ids.
HideStale ==
    /\ stale # {} /\ stale' = {}
    /\ Hide(stale, "stale")
    /\ UNCHANGED <<files, keyFile, keys, job, failures, purged, faults>>

\* Retention deletes a recording, a .enc or a decrypted copy: not the recording
\* of a run that has not finished it, nor what a call under way has just written.
Guarded(s) == job[s].pc \notin {"idle", "done", "unlisted", "gone"}
Fresh(p, s, pcs) == \E a \in Actors : job[a].place = p /\ job[a].seg = s /\ job[a].pc \in pcs
Purge(s) ==
    /\ plain[s] # "encoding"
    /\ \/ /\ ~Guarded(s)
          /\ plain' = [plain EXCEPT ![s] = "absent"] /\ UNCHANGED <<enc, copy>>
       \/ \E p \in Places :
             /\ ~Fresh(p, s, {"copy", "unlink", "row"})
             /\ enc' = [enc EXCEPT ![p][s] = Absent] /\ UNCHANGED <<plain, copy>>
       \/ \E p \in Places :
             /\ ~Fresh(p, s, {"pour", "serve"})
             /\ copy' = [copy EXCEPT ![p][s] = "absent"] /\ UNCHANGED <<plain, enc>>
    /\ purged' = IF copy' = copy THEN purged \union {s} ELSE purged
    /\ UNCHANGED <<keyFile, keys, rows, job, failures, stale, faults>>

\* What a call was doing ends with the process; files and rows stay.
Crash ==
    /\ Fault
    /\ job' = [a \in Actors |-> IF job[a].pc = "idle" THEN Idle ELSE Ended("gone")]
    /\ stale' = {}
    /\ UNCHANGED <<files, keyFile, keys, rows, failures, purged>>

-----------------------------------------------------------------------------
Init ==
    /\ plain = [s \in Segs |-> "encoding"]
    /\ enc  = [p \in Places |-> [s \in Segs |-> Absent]]
    /\ copy = [p \in Places |-> [s \in Segs |-> "absent"]]
    /\ keyFile = NoKey /\ keys = 0
    /\ rows = <<>> /\ job = [a \in Actors |-> Idle]
    /\ failures = {} /\ purged = {} /\ stale = {} /\ faults = 0

EncryptStep(a) ==
    \/ ReadKey(a) \/ NoKeyFile(a) \/ Encipher(a) \/ EncipherFails(a) \/ Publish(a)
    \/ PublishHeld(a) \/ CopyOver(a) \/ PublishFails(a) \/ InsertRow(a) \/ InsertFails(a)
DecryptStep(q) == DropCopy(q) \/ Decipher(q) \/ Reveal(q) \/ RevealHeld(q) \/ RevealFails(q) \/ Serve(q)

Next ==
    \/ \E s \in Segs : Encoded(s) \/ Unlink(s) \/ UnlinkFails(s) \/ Purge(s)
    \/ \E a \in Actors : EncryptStep(a)
    \/ \E q \in Requests : AskEncrypt(q) \/ AskDecrypt(q) \/ DecryptStep(q)
    \/ Keygen \/ KeyWritten \/ Dismiss \/ FindStale \/ HideStale \/ Crash
Spec == Init /\ [][Next]_vars
-----------------------------------------------------------------------------
(* Properties *)

FileState == [state : {"absent", "torn", "whole"}, key : 0..Typo]
Call ==
    [pc : {"idle", "key", "cipher", "publish", "copy", "unlink", "row", "drop", "decipher", "reveal", "pour", "serve",
           "done", "unlisted", "gone"},
     seg : Segs \union {"none"}, place : Places \union {"plain", "none"}, key : 0..Typo,
     got : {"none", "absent", "whole", "torn"}]
Listed == [file : (Places \union {"plain"}) \X Segs, is : {"shown", "dismissed", "stale"}]

TypeOK ==
    /\ plain \in [Segs -> {"encoding", "whole", "absent"}]
    /\ enc \in [Places -> [Segs -> FileState]] /\ copy \in [Places -> [Segs -> {"absent", "whole", "torn"}]]
    /\ keys \in 0..MaxKeys /\ keyFile \in 0..MaxKeys
    /\ rows \in Seq(Listed) /\ stale \subseteq DOMAIN rows
    /\ job \in [Actors -> Call]
    /\ failures \subseteq Segs /\ purged \subseteq Segs
    /\ faults \in 0..MaxFaults

\* A segment's footage is never lost but by retention: either the recording is
\* whole, or a whole .enc is, under a password or key nobody mistyped; whatever
\* call fails, whoever encrypts the same recording and whenever the process ends
\* (encrypt_file; "encrypting in place meant a mistyped password permanently lost
\* the recording", api_encrypt).
FootageKept ==
    \A s \in Segs : s \notin purged /\ plain[s] = "absent" =>
        \E p \in Places : enc[p][s].state = "whole" /\ enc[p][s].key # Typo

\* A recording that a run was to encrypt and that stays in the clear is counted,
\* and only such a one (_encrypt_output, encryption_failures).
ClearIsCounted ==
    \A s \in Segs : job[s].pc \in {"done", "unlisted"} /\ s \notin purged =>
        (plain[s] = "whole" <=> s \in failures)

\* What the index shows and what is on disk agree: a locked copy is listed or was
\* dismissed by a person, however calls that make it, retention and a clean-up
\* of stale rows interleave; only a failed insert or an end of the process in
\* between leaves one out (api_encrypt, api_segments_cleanup_missing).
LockedShown ==
    \A s \in Segs :
        (/\ enc["locked"][s].state = "whole"
         /\ \A q \in Requests : job[q].pc \in {"idle", "done"})
        => \E i \in DOMAIN rows : rows[i].file = <<"locked", s>> /\ rows[i].is # "stale"

VaultTruthful == ClearIsCounted /\ LockedShown

\* Nothing is shown as a decrypted clip, in the response or in Decrypted/, but
\* what passed the tag's check under the key given ("unauthenticated bytes never
\* land at out_path", decrypt_file); and all of it, but while the clip is copied
\* over one that is open elsewhere, or after a call failed or the process ended
\* in the middle of that (_publish).
Pouring(p, s) == \E q \in Requests : job[q].pc = "pour" /\ job[q].place = p /\ job[q].seg = s
DecryptedAuthentic ==
    /\ \A p \in Places, s \in Segs :
          /\ copy[p][s] \in {"absent", "whole", "torn"}
          /\ copy[p][s] = "torn" => Pouring(p, s) \/ faults > 0
    /\ \A q \in Requests : job[q].got \in {"none", "absent", "whole", "torn"}
=============================================================================
