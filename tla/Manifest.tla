------------------------------ MODULE Manifest ------------------------------
(***************************************************************************)
(* The manifest of a folder of compressed outputs (utils/integrity.py):    *)
(* one line per output with the hash of the file, chained to the line      *)
(* before it, so that a later edit of either shows.  The passes of the     *)
(* auto-compress service (autocompress_runner.py) append to it one at a    *)
(* time; the command line reads it and checks every line and every file.   *)
(*                                                                         *)
(* A hash is the hashed value itself: no two values have the same one.     *)
(***************************************************************************)
EXTENDS Naturals, Sequences, FiniteSets, SequencesExt

CONSTANTS
    Files,          \* the outputs of the folder, each appended by a pass of its own
    MaxFaults,      \* bound: writes of a line that fail or that a crash cuts
    MaxTampers      \* bound: changes to the folder from outside

VARIABLES
    disk,           \* the contents of each file: Absent, or a version
    lines,          \* the manifest
    ended,          \* whether its last line ends
    at, digest, prev,   \* of each pass: its step, the hash of its output, the last chain value
    lock,           \* _append_lock: the pass that holds it
    verifier,       \* the lines the command line has read, after which tampers, and its report
    faults, tampers

vars == <<disk, lines, ended, at, digest, prev, lock, verifier, faults, tampers>>

Absent == 0
Genesis == <<>>
Chain(before, hash, name) == <<before, hash, name>>
Malformed == [file |-> "", sha256 |-> Absent, chain |-> Genesis, whole |-> FALSE]
Nothing == [broken |-> {}, missing |-> {}, bad |-> {}]
Goto(f, from, to) == at[f] = from /\ at' = [at EXCEPT ![f] = to]

-----------------------------------------------------------------------------
(* The outputs: written by an encode, purged by retention.                    *)
Encode(f) ==
    /\ Goto(f, "none", "encoded") /\ disk' = [disk EXCEPT ![f] = 1]
    /\ UNCHANGED <<lines, ended, digest, prev, lock, verifier, faults, tampers>>

(* append_manifest: the file is hashed before the lock is taken.              *)
Hash(f) ==
    /\ Goto(f, "encoded", IF disk[f] = Absent THEN "over" ELSE "hashed")
    /\ digest' = [digest EXCEPT ![f] = disk[f]]
    /\ UNCHANGED <<disk, lines, ended, prev, lock, verifier, faults, tampers>>
LockNothing(f) ==
    /\ Goto(f, "hashed", "locked") /\ lock' = lock
    /\ UNCHANGED <<disk, lines, ended, digest, prev, verifier, faults, tampers>>
Lock(f) ==
    /\ lock = {} /\ Goto(f, "hashed", "locked") /\ lock' = {f}
    /\ UNCHANGED <<disk, lines, ended, digest, prev, verifier, faults, tampers>>
LastChain(f) ==
    /\ Goto(f, "locked", "chained")
    /\ prev' = [prev EXCEPT ![f] = IF lines = <<>> \/ ~Last(lines).whole THEN Genesis ELSE Last(lines).chain]
    /\ UNCHANGED <<disk, lines, ended, digest, lock, verifier, faults, tampers>>

\* A line that follows an unfinished one becomes part of it, and neither can be read.
Entry(f) == [file |-> f, sha256 |-> digest[f], chain |-> Chain(prev[f], digest[f], f), whole |-> TRUE]
Append1(f) ==
    /\ Goto(f, "chained", "over") /\ lock' = lock \ {f}
    /\ lines' = IF ended THEN Append(lines, Entry(f)) ELSE [lines EXCEPT ![Len(lines)] = Malformed]
    /\ ended' = TRUE
    /\ UNCHANGED <<disk, digest, prev, verifier, faults, tampers>>
AppendFails(f) ==
    /\ faults < MaxFaults /\ faults' = faults + 1
    /\ Goto(f, "chained", "over") /\ lock' = lock \ {f}
    /\ \/ UNCHANGED <<lines, ended>>
       \/ /\ ended' = FALSE
          /\ \E cut \in {Malformed, Entry(f)} :
                lines' = IF ended THEN Append(lines, cut) ELSE [lines EXCEPT ![Len(lines)] = Malformed]
    /\ UNCHANGED <<disk, digest, prev, verifier, tampers>>

-----------------------------------------------------------------------------
(* What may happen to the folder from outside: a line edited, taken out or    *)
(* moved, a file changed or deleted, by hand or by the retention policy.      *)
Tampered(what) == Cardinality(tampers) < MaxTampers /\ tampers' = tampers \union {what}

EditLine ==
    /\ \E i \in DOMAIN lines, v \in {2} : \E f \in Files :
          /\ lines[i].whole /\ <<f, v>> # <<lines[i].file, lines[i].sha256>>
          /\ lines' = [lines EXCEPT ![i].file = f, ![i].sha256 = v]
    /\ Tampered("line")
    /\ UNCHANGED <<disk, ended, at, digest, prev, lock, verifier, faults>>
RemoveLine ==
    /\ \E i \in DOMAIN lines :
          /\ lines' = RemoveAt(lines, i)
          /\ Tampered(IF i = Len(lines) THEN "tail" ELSE "line")
    /\ ended' = TRUE
    /\ UNCHANGED <<disk, at, digest, prev, lock, verifier, faults>>
SwapLines ==
    /\ \E i, j \in DOMAIN lines : i < j /\ lines' = [lines EXCEPT ![i] = lines[j], ![j] = lines[i]]
    /\ Tampered("line")
    /\ UNCHANGED <<disk, ended, at, digest, prev, lock, verifier, faults>>
ChangeFile ==
    /\ \E f \in Files : at[f] = "over" /\ disk[f] = 1 /\ disk' = [disk EXCEPT ![f] = 3]
    /\ Tampered("file")
    /\ UNCHANGED <<lines, ended, at, digest, prev, lock, verifier, faults>>
RemoveFile ==
    /\ \E f \in Files : disk[f] # Absent /\ disk' = [disk EXCEPT ![f] = Absent]
    /\ Tampered("file")
    /\ UNCHANGED <<lines, ended, at, digest, prev, lock, verifier, faults>>

-----------------------------------------------------------------------------
(* verify_manifest: the manifest is read at once, the files after it.  A line *)
(* that does not verify is reported, and the next one is checked against what *)
(* that line claims.                                                          *)
Before(ls) ==
    LET b[i \in 1 .. Len(ls) + 1] ==
            IF i = 1 THEN Genesis
            ELSE IF ls[i - 1].whole THEN ls[i - 1].chain ELSE Chain(b[i - 1], Absent, "")
    IN  b
BrokenUnchained(ls) == {i \in DOMAIN ls : ~ls[i].whole}
Broken(ls) ==
    {i \in DOMAIN ls : ~ls[i].whole \/ ls[i].chain # Chain(Before(ls)[i], ls[i].sha256, ls[i].file)}
Read ==
    /\ verifier.at = "idle" /\ verifier' = [verifier EXCEPT !.at = "read", !.lines = lines, !.after = tampers]
    /\ UNCHANGED <<disk, lines, ended, at, digest, prev, lock, faults, tampers>>
Gone(l) == ~l.whole \/ disk[l.file] = Absent
Judge ==
    /\ verifier.at = "read"
    /\ LET ls == verifier.lines
           present == {i \in DOMAIN ls : ~Gone(ls[i])}
       IN  verifier' = [verifier EXCEPT
                           !.at = "done",
                           !.report = [broken  |-> Broken(ls),
                                       missing |-> DOMAIN ls \ present,
                                       bad     |-> {i \in present : disk[ls[i].file] # ls[i].sha256}]]
    /\ UNCHANGED <<disk, lines, ended, at, digest, prev, lock, faults, tampers>>

Init ==
    /\ disk = [f \in Files |-> Absent] /\ lines = <<>> /\ ended = TRUE
    /\ at = [f \in Files |-> "none"] /\ digest = [f \in Files |-> Absent] /\ prev = [f \in Files |-> Genesis]
    /\ lock = {} /\ faults = 0 /\ tampers = {}
    /\ verifier = [at |-> "idle", lines |-> <<>>, after |-> {}, report |-> Nothing]

Next ==
    \/ \E f \in Files : Encode(f) \/ Hash(f) \/ Lock(f) \/ LastChain(f) \/ Append1(f) \/ AppendFails(f)
    \/ EditLine \/ RemoveLine \/ SwapLines \/ ChangeFile \/ RemoveFile
    \/ Read \/ Judge
Spec == Init /\ [][Next]_vars

-----------------------------------------------------------------------------
\* In an untouched folder every file verifies, however the passes that appended to the
\* manifest interleaved, and the chain breaks nowhere before a line whose write failed.  An
\* edited, removed or moved line that others follow shows as a break of the chain
\* (integrity.py:8-11).  Lines taken off the end do not show, nor does a torn line taken out.
TamperShown ==
    verifier.at = "done" =>
        /\ tampers = {} =>
              /\ verifier.report.bad = {}
              /\ \A i \in verifier.report.broken : \E j \in 1 .. i : ~verifier.lines[j].whole
        /\ faults = 0 /\ "line" \in verifier.after => verifier.report.broken # {}
=============================================================================
