----------------------------- MODULE PartProofs -----------------------------
(***************************************************************************)
(* Proofs about the parts of MCKept, for every value of their constants:   *)
(* the vault of encrypted segments, the files that keep the program's      *)
(* state, the user's choices, the settings of a run, the statistics, the   *)
(* RTSP server, the CPU sampler and the enhancer.                          *)
(***************************************************************************)
EXTENDS MCKept, SequenceTheorems, WellFoundedInduction, TLAPS

-----------------------------------------------------------------------------
(* Vault *)

\* A run's segment is nobody's request; the bounds are numbers.
VaultConstants ==
    /\ Segs \cap Requests = {}
    /\ MaxKeys \in Nat /\ MaxRows \in Nat /\ MaxFaults \in Nat

\* Between the key and the row, the run is at one of these with its segment.
Coding == {"cipher", "publish", "copy", "unlink"}

\* The .enc beside the recording can be opened by who made it.
Safe(s) == enc["beside"][s].state = "whole" /\ enc["beside"][s].key # V!Typo

\* What the run is at with its segment, the recording and the counter of failures agree.
SegInv(s) ==
    LET c == job[s] IN
    /\ c.pc = "idle" <=> plain[s] = "encoding"
    /\ c.pc \in Coding \union {"key", "row"} => c.seg = s
    /\ c.pc \in Coding \union {"key"} => c.place = "beside" /\ plain[s] = "whole"
    /\ c.pc \in Coding \union {"key", "idle"} => s \notin failures
    /\ c.pc \in Coding => c.key # V!Typo
    /\ c.pc = "unlink" => Safe(s)
    /\ c.pc = "row" =>
          /\ c.place \in {"beside", "plain"}
          /\ s \in failures <=> c.place = "plain"
          /\ plain[s] = "whole" <=> c.place = "plain"
    /\ c.pc \in {"done", "unlisted"} /\ s \notin purged => (plain[s] = "whole" <=> s \in failures)
    /\ plain[s] = "absent" /\ s \notin purged => Safe(s)

\* A request that encrypts works on the locked copy.
ReqInv(q) ==
    /\ job[q].pc # "unlink"
    /\ job[q].pc \in {"key", "cipher", "publish", "copy", "row"} => job[q].place = "locked" /\ job[q].seg \in Segs
    /\ job[q].pc \in {"drop", "decipher", "reveal", "pour", "serve"} => job[q].place \in V!Places /\ job[q].seg \in Segs

\* A row that no clean-up hides or is about to.
LastingRow(s) == \E i \in DOMAIN rows : rows[i].file = <<"locked", s>> /\ rows[i].is # "stale" /\ i \notin stale

\* A request that will add the row, or was kept from it.
RowDue(s) ==
    \E q \in Requests :
        \/ job[q].pc = "row" /\ job[q].seg = s
        \/ job[q].pc \in {"unlisted", "gone"}

\* A locked copy is in the index, or about to be.
ListInv(s) == enc["locked"][s].state # "absent" => LastingRow(s) \/ RowDue(s)

\* The inductive invariant.
VaultInv ==
    /\ V!TypeOK
    /\ \A s \in Segs : SegInv(s)
    /\ \A q \in Requests : ReqInv(q)
    /\ \A s \in Segs : ListInv(s)

\* A call goes on: its record is the only one that changes.
Moved(a, c) ==
    /\ job' \in [V!Actors -> V!Call]
    /\ job'[a] = c /\ \A b \in V!Actors \ {a} : job'[b] = job[b]

\* A call whose record is replaced by another one has moved.
LEMMA Moves ==
    ASSUME V!TypeOK, NEW a \in V!Actors, NEW c \in V!Call, job' = [job EXCEPT ![a] = c]
    PROVE  Moved(a, c)
  BY DEF V!TypeOK, Moved

\* Nothing is called yet: the record is one all the same.
LEMMA IdleType == VaultConstants => V!Idle \in V!Call
<1> SUFFICES ASSUME VaultConstants PROVE V!Idle \in V!Call
  OBVIOUS
<1>1. V!NoKey \in 0..V!Typo
  BY DEF VaultConstants, V!NoKey, V!Typo
<1> QED BY <1>1 DEF V!Idle, V!Call

\* What a step leaves in the record of its call.
Onward(a, to) == IF to \in {"done", "unlisted"} THEN V!Ended(to) ELSE [job[a] EXCEPT !.pc = to]

\* So does a call that goes on to its next place.
LEMMA StepMoves ==
    ASSUME V!TypeOK, VaultConstants, NEW a \in V!Actors, NEW to, V!Step(a, to),
           to \in {"publish", "copy", "unlink", "row", "decipher", "reveal", "pour", "serve", "done", "unlisted"}
    PROVE  Moved(a, Onward(a, to)) /\ Onward(a, to).pc = to
<1>1. job[a] \in V!Call
  BY DEF V!TypeOK
<1>2. V!Ended(to) \in V!Call /\ V!Ended(to).pc = to
  BY IdleType DEF V!Ended, V!Call
<1>3. [job[a] EXCEPT !.pc = to] \in V!Call /\ [job[a] EXCEPT !.pc = to].pc = to
  BY <1>1 DEF V!Call
<1>4. Onward(a, to) \in V!Call /\ Onward(a, to).pc = to
  BY <1>2, <1>3 DEF Onward
<1>5. job' = [job EXCEPT ![a] = Onward(a, to)]
  BY DEF V!Step, Onward
<1> QED BY <1>4, <1>5, Moves

\* A step that changes one call, and neither files nor index.
LEMMA QuietCall ==
    ASSUME VaultConstants, VaultInv, NEW a \in V!Actors, NEW c, Moved(a, c),
           job[a].pc # "row" \/ c.pc = "unlisted", job[a].pc # "unlisted", job[a].pc # "gone",
           UNCHANGED <<plain, enc, rows, stale>>,
           copy' \in [V!Places -> [Segs -> {"absent", "whole", "torn"}]],
           failures' \subseteq Segs, \A s \in Segs : s # a => (s \in failures' <=> s \in failures),
           keys' \in 0..MaxKeys, keyFile' \in 0..MaxKeys, purged' = purged, faults' \in 0..MaxFaults,
           a \in Segs => SegInv(a)', a \in Requests => ReqInv(a)'
    PROVE  VaultInv'
<1>1. V!TypeOK'
  BY DEF VaultInv, V!TypeOK, Moved
<1>2. \A b \in V!Actors : b # a => job'[b] = job[b]
  BY DEF Moved
<1>3. \A s \in Segs : SegInv(s)'
  <2> SUFFICES ASSUME NEW s \in Segs, s # a PROVE SegInv(s)'
    OBVIOUS
  <2>1. job'[s] = job[s]
    BY <1>2 DEF V!Actors
  <2> QED BY <2>1 DEF VaultInv, SegInv, Safe, V!Typo
<1>4. \A q \in Requests : ReqInv(q)'
  <2> SUFFICES ASSUME NEW q \in Requests, q # a PROVE ReqInv(q)'
    OBVIOUS
  <2>1. job'[q] = job[q]
    BY <1>2 DEF V!Actors
  <2> QED BY <2>1 DEF VaultInv, ReqInv, V!Places
<1>5. \A s \in Segs : ListInv(s)'
  <2> SUFFICES ASSUME NEW s \in Segs, enc["locked"][s].state # "absent" PROVE LastingRow(s)' \/ RowDue(s)'
    BY DEF ListInv
  <2>1. CASE LastingRow(s)
    BY <2>1 DEF LastingRow
  <2>2. CASE RowDue(s)
    <3>1. PICK q \in Requests : (job[q].pc = "row" /\ job[q].seg = s) \/ job[q].pc \in {"unlisted", "gone"}
      BY <2>2 DEF RowDue
    <3>2. CASE q = a
      BY <3>1, <3>2 DEF RowDue, Moved
    <3>3. CASE q # a
      BY <1>2, <3>1, <3>3 DEF RowDue, V!Actors
    <3> QED BY <3>2, <3>3
  <2> QED BY <2>1, <2>2 DEF VaultInv, ListInv
<1> QED BY <1>1, <1>3, <1>4, <1>5 DEF VaultInv

\* What the type invariant says of one call.
LEMMA Types == ASSUME VaultConstants, VaultInv, NEW a \in V!Actors
               PROVE  job[a] \in V!Call /\ V!TypeOK
  BY DEF VaultInv, V!TypeOK

\* A segment is encoded and saved.
LEMMA EncodedKeeps == ASSUME VaultConstants, VaultInv, NEW s \in Segs, V!Encoded(s) PROVE VaultInv'
<1> DEFINE c == [V!Idle EXCEPT !.pc = "key", !.seg = s, !.place = "beside"]
<1>1. c \in V!Call /\ c.pc = "key" /\ c.seg = s /\ c.place = "beside" /\ s \in V!Actors
  BY IdleType DEF V!Call, V!Places, V!Actors
<1>2. job' = [job EXCEPT ![s] = c]
  BY DEF V!Encoded
<1> HIDE DEF c
<1>3. Moved(s, c) /\ V!TypeOK
  BY <1>1, <1>2, Types, Moves
<1>4. /\ plain[s] = "encoding" /\ plain' = [plain EXCEPT ![s] = "whole"] /\ job[s].pc = "idle"
      /\ UNCHANGED <<enc, copy, keyFile, keys, rows, failures, purged, stale, faults>>
  BY DEF V!Encoded, VaultInv, SegInv
<1>5. V!TypeOK'
  BY <1>3, <1>4 DEF V!TypeOK, Moved
<1>6. \A t \in Segs : SegInv(t)'
  <2>1. SegInv(s)'
    BY <1>1, <1>3, <1>4 DEF VaultInv, SegInv, Moved, V!TypeOK, Coding
  <2>2. ASSUME NEW t \in Segs, t # s PROVE SegInv(t)'
    <3>1. job'[t] = job[t] /\ plain'[t] = plain[t]
      BY <1>3, <1>4, <2>2 DEF Moved, V!Actors, V!TypeOK
    <3> QED BY <1>4, <3>1 DEF VaultInv, SegInv, Safe, V!Typo
  <2> QED BY <2>1, <2>2
<1>7. \A q \in Requests : job'[q] = job[q]
  BY <1>3 DEF Moved, V!Actors, VaultConstants
<1>8. \A q \in Requests : ReqInv(q)'
  BY <1>7 DEF VaultInv, ReqInv, V!Places
<1>9. \A t \in Segs : ListInv(t)'
  <2> SUFFICES ASSUME NEW t \in Segs, enc["locked"][t].state # "absent" PROVE LastingRow(t)' \/ RowDue(t)'
    BY <1>4 DEF ListInv
  <2>1. LastingRow(t) \/ RowDue(t)
    BY DEF VaultInv, ListInv
  <2>2. LastingRow(t) => LastingRow(t)'
    BY <1>4 DEF LastingRow
  <2>3. RowDue(t) => RowDue(t)'
    BY <1>7 DEF RowDue
  <2> QED BY <2>1, <2>2, <2>3
<1> QED BY <1>5, <1>6, <1>8, <1>9 DEF VaultInv

\* A request comes in.
LEMMA AskKeeps ==
    ASSUME VaultConstants, VaultInv, NEW q \in Requests, V!AskEncrypt(q) \/ V!AskDecrypt(q)
    PROVE  VaultInv'
<1>1. /\ UNCHANGED <<plain, enc, copy, keyFile, keys, rows, failures, purged, stale, faults>>
      /\ job[q].pc = "idle"
  BY DEF V!AskEncrypt, V!AskDecrypt, V!files
<1>2. \E c \in V!Call :
         /\ job' = [job EXCEPT ![q] = c]
         /\ \/ c.pc = "key" /\ c.place = "locked" /\ c.seg \in Segs
            \/ c.pc = "drop" /\ c.place \in V!Places /\ c.seg \in Segs
  <2>1. CASE V!AskEncrypt(q)
    <3>1. PICK s \in Segs : job' = [job EXCEPT ![q] = [V!Idle EXCEPT !.pc = "key", !.seg = s, !.place = "locked"]]
      BY <2>1 DEF V!AskEncrypt
    <3> DEFINE c == [V!Idle EXCEPT !.pc = "key", !.seg = s, !.place = "locked"]
    <3>2. c \in V!Call /\ c.pc = "key" /\ c.place = "locked" /\ c.seg \in Segs
      BY IdleType DEF V!Call, V!Places
    <3> QED BY <3>1, <3>2
  <2>2. CASE V!AskDecrypt(q)
    <3>1. PICK p \in V!Places, s \in Segs, k \in {V!Password, V!Typo, keyFile} :
             job' = [job EXCEPT ![q] = [V!Idle EXCEPT !.pc = "drop", !.seg = s, !.place = p, !.key = k]]
      BY <2>2 DEF V!AskDecrypt
    <3>2. k \in 0..V!Typo
      BY DEF VaultInv, V!TypeOK, V!Password, V!Typo, VaultConstants
    <3> DEFINE c == [V!Idle EXCEPT !.pc = "drop", !.seg = s, !.place = p, !.key = k]
    <3>3. c \in V!Call /\ c.pc = "drop" /\ c.place \in V!Places /\ c.seg \in Segs
      BY <3>2, IdleType DEF V!Call
    <3> QED BY <3>1, <3>3
  <2> QED BY <2>1, <2>2
<1>3. PICK c \in V!Call :
         /\ job' = [job EXCEPT ![q] = c]
         /\ \/ c.pc = "key" /\ c.place = "locked" /\ c.seg \in Segs
            \/ c.pc = "drop" /\ c.place \in V!Places /\ c.seg \in Segs
  BY <1>2
<1>4. q \in V!Actors /\ q \notin Segs /\ Moved(q, c) /\ V!TypeOK
  BY <1>3, Moves, Types DEF V!Actors, VaultConstants
<1>5. ReqInv(q)'
  BY <1>3, <1>4 DEF ReqInv, Moved, V!Places
<1> QED BY <1>1, <1>4, <1>5, QuietCall DEF V!TypeOK

\* The key is read, or cannot be.
LEMMA ReadKeyKeeps == ASSUME VaultConstants, VaultInv, NEW a \in V!Actors, V!ReadKey(a) PROVE VaultInv'
<1>1. PICK k \in V!Passwords(a) \union {keyFile} :
         k # V!NoKey /\ job' = [job EXCEPT ![a].pc = "cipher", ![a].key = k]
  BY DEF V!ReadKey
<1> DEFINE c == [job[a] EXCEPT !.pc = "cipher", !.key = k]
<1>2. k \in 0..V!Typo /\ (a \in Segs => k # V!Typo)
  BY DEF VaultInv, V!TypeOK, V!Passwords, V!Password, V!Typo, VaultConstants
<1>3. /\ c \in V!Call /\ c.pc = "cipher" /\ c.key = k /\ c.seg = job[a].seg /\ c.place = job[a].place
      /\ job' = [job EXCEPT ![a] = c]
  BY <1>1, <1>2, Types DEF V!Call, V!TypeOK
<1> HIDE DEF c
<1>4. Moved(a, c) /\ job[a].pc = "key"
      /\ UNCHANGED <<plain, enc, copy, keyFile, keys, rows, failures, purged, stale, faults>>
  BY <1>3, Moves, Types DEF V!ReadKey, V!files
<1>5. a \in Segs => SegInv(a)'
  BY <1>2, <1>3, <1>4 DEF VaultInv, SegInv, Moved, Coding, Safe, V!Typo
<1>6. a \in Requests => ReqInv(a)'
  BY <1>3, <1>4 DEF VaultInv, ReqInv, Moved, V!Places
<1> QED BY <1>3, <1>4, <1>5, <1>6, QuietCall, Types DEF V!TypeOK

\* A failed encryption: a run keeps the recording and counts it.
LEMMA FailureKeeps ==
    ASSUME VaultConstants, VaultInv, NEW a \in V!Actors, V!EncryptFails(a),
           job[a].pc \in Coding \union {"key"}, faults' \in 0..MaxFaults,
           UNCHANGED <<plain, enc, copy, keyFile, keys, rows, purged, stale>>
    PROVE  VaultInv'
<1>1. CASE a \in Segs
  <2> DEFINE c == [job[a] EXCEPT !.pc = "row", !.place = "plain"]
  <2>1. /\ c \in V!Call /\ c.pc = "row" /\ c.place = "plain" /\ c.seg = job[a].seg
        /\ job' = [job EXCEPT ![a] = c] /\ failures' = failures \union {a}
    BY <1>1, Types, ZenonT(30) DEF V!Call, V!TypeOK, V!EncryptFails
  <2> HIDE DEF c
  <2>2. Moved(a, c) /\ a \notin Requests
    BY <1>1, <2>1, Moves, Types DEF VaultConstants
  <2>3. SegInv(a)'
    BY <1>1, <2>1, <2>2 DEF VaultInv, SegInv, Moved, Coding, Safe, V!Typo
  <2>4. job[a].pc \notin {"row", "unlisted", "gone"}
    BY DEF Coding
  <2> QED BY <1>1, <2>1, <2>2, <2>3, <2>4, QuietCall, Types DEF V!TypeOK
<1>2. CASE a \notin Segs
  <2>1. V!Step(a, "done") /\ UNCHANGED failures /\ a \in Requests
    BY <1>2 DEF V!EncryptFails, V!Actors
  <2>2. Moved(a, Onward(a, "done")) /\ Onward(a, "done").pc = "done"
    BY <2>1, Types, StepMoves
  <2>3. ReqInv(a)'
    BY <2>1, <2>2 DEF ReqInv, Moved, V!Places
  <2>4. job[a].pc \notin {"row", "unlisted", "gone"}
    BY DEF Coding
  <2> QED BY <1>2, <2>1, <2>2, <2>3, <2>4, QuietCall, Types DEF V!TypeOK
<1> QED BY <1>1, <1>2

\* A failure is counted, or the key is missing.
LEMMA FailuresKeep ==
    ASSUME VaultConstants, VaultInv, NEW a \in V!Actors,
           V!NoKeyFile(a) \/ V!EncipherFails(a) \/ V!PublishFails(a)
    PROVE  VaultInv'
<1>1. V!EncryptFails(a) /\ job[a].pc \in Coding \union {"key"}
      /\ UNCHANGED <<plain, enc, copy, keyFile, keys, rows, purged, stale>>
  BY DEF V!NoKeyFile, V!EncipherFails, V!PublishFails, Coding, V!files
<1>2. faults' \in 0..MaxFaults
  BY DEF V!NoKeyFile, V!EncipherFails, V!PublishFails, V!Fault, VaultInv, V!TypeOK, VaultConstants
<1> QED BY <1>1, <1>2, FailureKeeps

\* The recording cannot be removed, and stays beside its copy.
LEMMA UnlinkFailsKeeps == ASSUME VaultConstants, VaultInv, NEW s \in Segs, V!UnlinkFails(s) PROVE VaultInv'
<1>1. V!EncryptFails(s) /\ job[s].pc \in Coding /\ s \in V!Actors
      /\ UNCHANGED <<plain, enc, copy, keyFile, keys, rows, purged, stale>>
  BY DEF V!UnlinkFails, Coding, V!files, V!Actors
<1>2. faults' \in 0..MaxFaults
  BY DEF V!UnlinkFails, V!Fault, VaultInv, V!TypeOK, VaultConstants
<1> QED BY <1>1, <1>2, FailureKeeps

\* The copy is written under a temporary name.
LEMMA EncipherKeeps == ASSUME VaultConstants, VaultInv, NEW a \in V!Actors, V!Encipher(a) PROVE VaultInv'
<1>1. /\ Moved(a, Onward(a, "publish")) /\ Onward(a, "publish").pc = "publish" /\ job[a].pc = "cipher"
      /\ UNCHANGED <<plain, enc, copy, keyFile, keys, rows, failures, purged, stale, faults>>
  BY StepMoves, Types DEF V!Encipher, V!files
<1>2. LET c == Onward(a, "publish") IN
      c.seg = job[a].seg /\ c.place = job[a].place /\ c.key = job[a].key
  BY Types DEF Onward, V!Call
<1>3. a \in Segs => SegInv(a)'
  BY <1>1, <1>2 DEF VaultInv, SegInv, Moved, Coding, Safe, V!Typo
<1>4. a \in Requests => ReqInv(a)'
  BY <1>1, <1>2 DEF VaultInv, ReqInv, Moved, V!Places
<1> QED BY <1>1, <1>3, <1>4, QuietCall, Types DEF V!TypeOK

\* A .enc is written by the run at its own place, by a request at the locked one.
LEMMA PutKeeps ==
    ASSUME VaultConstants, VaultInv, NEW a \in V!Actors, job[a].pc \in {"publish", "copy"},
           NEW f \in V!FileState, f.state # "absent", V!Put(a, f),
           NEW to \in {"unlink", "row", "copy"}, V!Step(a, to),
           to = "unlink" => a \in Segs /\ f = V!Whole(job[a].key),
           to = "row" => a \notin Segs,
           to = "copy" => enc[job[a].place][job[a].seg].state # "absent",
           UNCHANGED <<plain, copy, keyFile, keys, rows, failures, purged, stale>>, faults' \in 0..MaxFaults
    PROVE  VaultInv'
<1> DEFINE c == Onward(a, to)
           p == job[a].place
           t == job[a].seg
<1>1. Moved(a, c) /\ c.pc = to
  BY StepMoves, Types
<1>2. c.seg = t /\ c.place = p /\ c.key = job[a].key
  BY Types DEF Onward, V!Call
<1>3. p \in V!Places /\ t \in Segs /\ (a \in Segs => p = "beside" /\ t = a) /\ (a \notin Segs => p = "locked")
  BY DEF VaultInv, SegInv, ReqInv, Coding, V!Actors, V!Places
<1>4. enc' = [enc EXCEPT ![p][t] = f] /\ enc \in [V!Places -> [Segs -> V!FileState]]
  BY Types DEF V!Put, V!TypeOK
<1> HIDE DEF p, t, c
<1>5. /\ enc' \in [V!Places -> [Segs -> V!FileState]] /\ enc'[p][t] = f
      /\ \A r \in V!Places, s \in Segs : r # p \/ s # t => enc'[r][s] = enc[r][s]
  BY <1>3, <1>4
<1>6. V!TypeOK'
  BY <1>1, <1>5, Types DEF V!TypeOK, Moved
<1>7. \A b \in V!Actors \ {a} : job'[b] = job[b]
  BY <1>1 DEF Moved
<1>8. ASSUME NEW s \in Segs PROVE SegInv(s)'
  <2>1. CASE s = a
    <3>1. enc'["beside"][s] = f /\ p = "beside" /\ s \in V!Actors
      BY <1>3, <1>5, <2>1 DEF V!Actors
    <3>2. to = "unlink" => Safe(s)'
      BY <1>2, <2>1, <3>1 DEF VaultInv, SegInv, Coding, Safe, V!Whole, V!Typo
    <3>3. job'[s] = c /\ plain[s] = "whole" /\ s \notin failures
      BY <1>1, <2>1 DEF Moved, VaultInv, SegInv, Coding
    <3>4. to # "row" /\ c.seg = s /\ c.place = "beside" /\ c.key # V!Typo
      BY <1>2, <1>3, <2>1 DEF VaultInv, SegInv, Coding
    <3> QED BY <1>1, <3>2, <3>3, <3>4 DEF SegInv, Coding, V!Typo
  <2>2. CASE s # a
    <3>1. job'[s] = job[s] /\ s \in V!Actors
      BY <1>7, <2>2 DEF V!Actors
    <3>2. enc'["beside"][s] = enc["beside"][s]
      BY <1>3, <1>5, <2>2 DEF V!Places
    <3> QED BY <3>1, <3>2 DEF VaultInv, SegInv, Safe, V!Typo
  <2> QED BY <2>1, <2>2
<1>9. ASSUME NEW q \in Requests PROVE ReqInv(q)'
  <2>1. CASE q = a
    <3>1. to # "unlink" /\ job'[q] = c
      BY <1>1, <2>1 DEF Moved, VaultConstants
    <3> QED BY <1>1, <1>2, <1>3, <2>1, <3>1 DEF ReqInv, V!Places, VaultConstants
  <2>2. CASE q # a
    BY <1>7, <2>2 DEF VaultInv, ReqInv, V!Places, V!Actors
  <2> QED BY <2>1, <2>2
<1>10. ASSUME NEW s \in Segs, enc'["locked"][s].state # "absent" PROVE LastingRow(s)' \/ RowDue(s)'
  <2>1. CASE to = "row" /\ s = t
    <3>1. a \in Requests /\ job'[a] = c
      BY <1>1, <2>1 DEF V!Actors, Moved
    <3> QED BY <1>1, <1>2, <2>1, <3>1 DEF RowDue
  <2>2. CASE ~(to = "row" /\ s = t)
    <3>1. enc["locked"][s].state # "absent"
      <4>1. CASE p = "locked" /\ s = t
        BY <1>3, <2>2, <4>1 DEF p, t
      <4>2. CASE ~(p = "locked" /\ s = t)
        BY <1>5, <1>10, <4>2 DEF V!Places
      <4> QED BY <4>1, <4>2
    <3>2. CASE LastingRow(s)
      BY <3>2 DEF LastingRow
    <3>3. CASE RowDue(s)
      <4>1. PICK q \in Requests : (job[q].pc = "row" /\ job[q].seg = s) \/ job[q].pc \in {"unlisted", "gone"}
        BY <3>3 DEF RowDue
      <4>2. job'[q] = job[q]
        BY <1>7, <4>1 DEF V!Actors
      <4> QED BY <4>1, <4>2 DEF RowDue
    <3> QED BY <3>1, <3>2, <3>3 DEF VaultInv, ListInv
  <2> QED BY <2>1, <2>2
<1> QED BY <1>6, <1>8, <1>9, <1>10 DEF VaultInv, ListInv

\* The copy takes its name.
LEMMA PublishKeeps ==
    ASSUME VaultConstants, VaultInv, NEW a \in V!Actors, V!Publish(a) \/ V!CopyOver(a) \/ V!PublishHeld(a)
    PROVE  VaultInv'
<1>1. job[a] \in V!Call /\ V!TypeOK
  BY Types
<1>2. V!Whole(job[a].key) \in V!FileState /\ V!Whole(job[a].key).state # "absent"
  BY <1>1 DEF V!Whole, V!FileState, V!Call
<1>3. V!Torn \in V!FileState /\ V!Torn.state # "absent"
  BY DEF V!Torn, V!FileState, V!NoKey, V!Typo, VaultConstants
<1>4. CASE V!Publish(a) \/ V!CopyOver(a)
  <2>1. /\ job[a].pc \in {"publish", "copy"} /\ V!Put(a, V!Whole(job[a].key))
        /\ UNCHANGED <<plain, copy, keyFile, keys, rows, failures, purged, stale>>
        /\ faults' \in 0..MaxFaults
    BY <1>1, <1>4 DEF V!Publish, V!CopyOver, V!TypeOK
  <2>2. CASE a \in Segs
    <3>1. V!Step(a, "unlink")
      BY <1>4, <2>2 DEF V!Publish, V!CopyOver
    <3> QED BY <1>2, <2>1, <2>2, <3>1, PutKeeps
  <2>3. CASE a \notin Segs
    <3>1. V!Step(a, "row")
      BY <1>4, <2>3 DEF V!Publish, V!CopyOver
    <3> QED BY <1>2, <2>1, <2>3, <3>1, PutKeeps
  <2> QED BY <2>2, <2>3
<1>5. CASE V!PublishHeld(a)
  <2>1. /\ job[a].pc \in {"publish", "copy"} /\ V!Put(a, V!Torn) /\ V!Step(a, "copy")
        /\ enc[job[a].place][job[a].seg].state # "absent"
        /\ UNCHANGED <<plain, copy, keyFile, keys, rows, failures, purged, stale>>
    BY <1>5 DEF V!PublishHeld
  <2>2. faults' \in 0..MaxFaults
    BY <1>1, <1>5 DEF V!PublishHeld, V!TypeOK, V!Fault, VaultConstants
  <2> QED BY <1>3, <2>1, <2>2, PutKeeps
<1> QED BY <1>4, <1>5

\* The recording is removed once its copy is there.
LEMMA UnlinkKeeps == ASSUME VaultConstants, VaultInv, NEW s \in Segs, V!Unlink(s) PROVE VaultInv'
<1>1. s \in V!Actors /\ V!TypeOK /\ job[s] \in V!Call
  BY Types DEF V!Actors
<1> DEFINE c == Onward(s, "row")
<1>2. Moved(s, c) /\ c.pc = "row" /\ c.seg = job[s].seg /\ c.place = job[s].place
  BY <1>1, StepMoves DEF V!Unlink, Onward, V!Call
<1> HIDE DEF c
<1>3. /\ job[s].pc = "unlink" /\ plain' = [plain EXCEPT ![s] = "absent"]
      /\ UNCHANGED <<enc, copy, keyFile, keys, rows, failures, purged, stale, faults>>
  BY DEF V!Unlink
<1>4. V!TypeOK'
  BY <1>1, <1>2, <1>3 DEF V!TypeOK, Moved
<1>5. \A t \in Segs : SegInv(t)'
  <2>1. SegInv(s)'
    BY <1>1, <1>2, <1>3 DEF VaultInv, SegInv, Moved, V!TypeOK, Coding, Safe, V!Typo
  <2>2. ASSUME NEW t \in Segs, t # s PROVE SegInv(t)'
    <3>1. job'[t] = job[t] /\ plain'[t] = plain[t]
      BY <1>1, <1>2, <1>3, <2>2 DEF Moved, V!Actors, V!TypeOK
    <3> QED BY <1>3, <3>1 DEF VaultInv, SegInv, Safe, V!Typo
  <2> QED BY <2>1, <2>2
<1>6. \A q \in Requests : job'[q] = job[q]
  BY <1>2 DEF Moved, V!Actors, VaultConstants
<1>7. \A q \in Requests : ReqInv(q)'
  BY <1>6 DEF VaultInv, ReqInv, V!Places
<1>8. \A t \in Segs : ListInv(t)'
  <2> SUFFICES ASSUME NEW t \in Segs, enc["locked"][t].state # "absent" PROVE LastingRow(t)' \/ RowDue(t)'
    BY <1>3 DEF ListInv
  <2>1. LastingRow(t) \/ RowDue(t)
    BY DEF VaultInv, ListInv
  <2>2. LastingRow(t) => LastingRow(t)'
    BY <1>3 DEF LastingRow
  <2>3. RowDue(t) => RowDue(t)'
    BY <1>6 DEF RowDue
  <2> QED BY <2>1, <2>2, <2>3
<1> QED BY <1>4, <1>5, <1>7, <1>8 DEF VaultInv

\* The row is added under the name of the file that was kept.
LEMMA InsertRowKeeps == ASSUME VaultConstants, VaultInv, NEW a \in V!Actors, V!InsertRow(a) PROVE VaultInv'
<1> DEFINE c == Onward(a, "done")
           n == V!Row(job[a].place, job[a].seg)
<1>1. V!TypeOK /\ job[a] \in V!Call /\ job[a].pc = "row"
  BY Types DEF V!InsertRow
<1>2. Moved(a, c) /\ c.pc = "done"
  BY StepMoves, Types DEF V!InsertRow
<1> HIDE DEF c
<1>3. n \in V!Listed /\ n.file = <<job[a].place, job[a].seg>> /\ n.is = "shown"
  <2>1. job[a].place \in V!Places \union {"plain"} /\ job[a].seg \in Segs
    BY <1>1 DEF VaultInv, SegInv, ReqInv, Coding, V!Actors, V!Places
  <2> QED BY <2>1 DEF V!Listed, V!Row
<1>4. rows' = Append(rows, n)
      /\ UNCHANGED <<plain, enc, copy, keyFile, keys, failures, purged, stale, faults>>
  BY DEF V!InsertRow, V!files
<1> HIDE DEF n
<1>5. /\ rows \in Seq(V!Listed) /\ rows' \in Seq(V!Listed)
      /\ Len(rows) \in Nat /\ Len(rows') = Len(rows) + 1 /\ rows'[Len(rows) + 1] = n
      /\ \A i \in 1 .. Len(rows) : rows'[i] = rows[i]
      /\ DOMAIN rows = 1 .. Len(rows) /\ DOMAIN rows' = 1 .. Len(rows) + 1
  BY <1>1, <1>3, <1>4 DEF V!TypeOK
<1>6. V!TypeOK'
  <2>1. stale' \subseteq DOMAIN rows'
    BY <1>1, <1>4, <1>5 DEF V!TypeOK
  <2> QED BY <1>1, <1>2, <1>4, <1>5, <2>1 DEF V!TypeOK, Moved
<1>7. \A b \in V!Actors \ {a} : job'[b] = job[b]
  BY <1>2 DEF Moved
<1>8. ASSUME NEW s \in Segs PROVE SegInv(s)'
  <2>1. CASE s = a
    BY <1>1, <1>2, <1>4, <2>1 DEF VaultInv, SegInv, Moved, Coding, Safe, V!Typo, V!TypeOK
  <2>2. CASE s # a
    <3>1. job'[s] = job[s]
      BY <1>7, <2>2 DEF V!Actors
    <3> QED BY <1>4, <3>1 DEF VaultInv, SegInv, Safe, V!Typo
  <2> QED BY <2>1, <2>2
<1>9. ASSUME NEW q \in Requests PROVE ReqInv(q)'
  <2>1. CASE q = a
    BY <1>2, <2>1 DEF ReqInv, Moved
  <2>2. CASE q # a
    BY <1>7, <2>2 DEF VaultInv, ReqInv, V!Places, V!Actors
  <2> QED BY <2>1, <2>2
<1>10. ASSUME NEW s \in Segs, enc["locked"][s].state # "absent" PROVE LastingRow(s)' \/ RowDue(s)'
  <2>1. CASE LastingRow(s)
    <3>1. PICK i \in DOMAIN rows : rows[i].file = <<"locked", s>> /\ rows[i].is # "stale" /\ i \notin stale
      BY <2>1 DEF LastingRow
    <3>2. i \in DOMAIN rows' /\ rows'[i] = rows[i] /\ i \notin stale'
      BY <1>4, <1>5, <3>1
    <3> QED BY <3>1, <3>2 DEF LastingRow
  <2>2. CASE RowDue(s)
    <3>1. PICK q \in Requests : (job[q].pc = "row" /\ job[q].seg = s) \/ job[q].pc \in {"unlisted", "gone"}
      BY <2>2 DEF RowDue
    <3>2. CASE q = a
      <4>1. job[a].seg = s /\ job[a].place = "locked"
        BY <1>1, <3>1, <3>2 DEF VaultInv, ReqInv
      <4>2. Len(rows) + 1 \in DOMAIN rows' /\ Len(rows) + 1 \notin stale'
        BY <1>1, <1>4, <1>5 DEF V!TypeOK
      <4> QED BY <1>3, <1>5, <4>1, <4>2 DEF LastingRow
    <3>3. CASE q # a
      BY <1>7, <3>1, <3>3 DEF RowDue, V!Actors
    <3> QED BY <3>2, <3>3
  <2> QED BY <1>10, <2>1, <2>2 DEF VaultInv, ListInv
<1>11. \A s \in Segs : ListInv(s)'
  BY <1>4, <1>10 DEF ListInv
<1> QED BY <1>6, <1>8, <1>9, <1>11 DEF VaultInv

\* The row cannot be added.
LEMMA InsertFailsKeeps == ASSUME VaultConstants, VaultInv, NEW a \in V!Actors, V!InsertFails(a) PROVE VaultInv'
<1>1. /\ Moved(a, Onward(a, "unlisted")) /\ Onward(a, "unlisted").pc = "unlisted" /\ job[a].pc = "row"
      /\ UNCHANGED <<plain, enc, copy, keyFile, keys, rows, failures, purged, stale>>
  BY StepMoves, Types DEF V!InsertFails, V!files
<1>2. faults' \in 0..MaxFaults
  BY Types DEF V!InsertFails, V!Fault, V!TypeOK, VaultConstants
<1>3. a \in Segs => SegInv(a)'
  BY <1>1, Types DEF VaultInv, SegInv, Moved, Coding, Safe, V!Typo, V!TypeOK
<1>4. a \in Requests => ReqInv(a)'
  BY <1>1 DEF ReqInv, Moved
<1> QED BY <1>1, <1>2, <1>3, <1>4, QuietCall, Types DEF V!TypeOK

\* Decrypting touches the decrypted copies only.
LEMMA DecryptKeeps == ASSUME VaultConstants, VaultInv, NEW q \in Requests, V!DecryptStep(q) PROVE VaultInv'
<1>1. q \in V!Actors /\ q \notin Segs /\ V!TypeOK /\ job[q] \in V!Call
  BY Types DEF V!Actors, VaultConstants
<1>2. /\ UNCHANGED <<plain, enc, keyFile, keys, rows, failures, purged, stale>>
      /\ job[q].pc \in {"drop", "decipher", "reveal", "pour", "serve"}
  BY DEF V!DecryptStep, V!DropCopy, V!Decipher, V!Reveal, V!RevealHeld, V!RevealFails, V!Serve, V!files
<1>3. job[q].place \in V!Places /\ job[q].seg \in Segs
  BY <1>2 DEF VaultInv, ReqInv
<1>4. copy' \in [V!Places -> [Segs -> {"absent", "whole", "torn"}]]
  <2>1. copy' = copy \/ V!PutCopy(q, "absent") \/ V!PutCopy(q, "whole") \/ V!PutCopy(q, "torn")
    BY DEF V!DecryptStep, V!DropCopy, V!Decipher, V!Reveal, V!RevealHeld, V!RevealFails, V!Serve, V!files
  <2>2. ASSUME NEW p \in V!Places, NEW s \in Segs, NEW f \in {"absent", "whole", "torn"},
               copy' = [copy EXCEPT ![p][s] = f]
        PROVE  copy' \in [V!Places -> [Segs -> {"absent", "whole", "torn"}]]
    BY <1>1, <2>2 DEF V!TypeOK
  <2>3. ASSUME NEW f \in {"absent", "whole", "torn"}, V!PutCopy(q, f)
        PROVE  copy' \in [V!Places -> [Segs -> {"absent", "whole", "torn"}]]
    BY <1>3, <2>2, <2>3 DEF V!PutCopy
  <2> QED BY <1>1, <2>1, <2>3 DEF V!TypeOK
<1>5. faults' \in 0..MaxFaults
  BY <1>1 DEF V!DecryptStep, V!DropCopy, V!Decipher, V!Reveal, V!RevealHeld, V!RevealFails, V!Serve, V!Fault, V!TypeOK, VaultConstants
<1>6. \E c \in V!Call :
         /\ Moved(q, c) /\ c.pc \in {"decipher", "reveal", "pour", "serve", "done"}
         /\ c.pc # "done" => c.place = job[q].place /\ c.seg = job[q].seg
  <2>1. ASSUME NEW to \in {"decipher", "reveal", "pour", "serve", "done"}, V!Step(q, to)
        PROVE  /\ Moved(q, Onward(q, to)) /\ Onward(q, to) \in V!Call /\ Onward(q, to).pc = to
               /\ to # "done" => Onward(q, to).place = job[q].place /\ Onward(q, to).seg = job[q].seg
    <3>1. Moved(q, Onward(q, to)) /\ Onward(q, to).pc = to
      BY <1>1, <2>1, StepMoves
    <3> QED BY <1>1, <3>1 DEF Onward, V!Call, Moved
  <2>2. CASE V!Serve(q)
    <3> DEFINE c == [V!Ended("done") EXCEPT !.got = copy[job[q].place][job[q].seg]]
    <3>1. copy[job[q].place][job[q].seg] \in {"absent", "whole", "torn"}
      BY <1>1, <1>3 DEF V!TypeOK
    <3>2. c \in V!Call /\ c.pc = "done" /\ job' = [job EXCEPT ![q] = c]
      BY <2>2, <3>1, IdleType DEF V!Serve, V!Ended, V!Call
    <3> QED BY <1>1, <3>2, Moves
  <2>3. CASE ~V!Serve(q)
    <3>1. \E to \in {"decipher", "reveal", "pour", "serve", "done"} : V!Step(q, to)
      BY <2>3 DEF V!DecryptStep, V!DropCopy, V!Decipher, V!Reveal, V!RevealHeld, V!RevealFails
    <3> QED BY <2>1, <3>1
  <2> QED BY <2>2, <2>3
<1>7. PICK c \in V!Call :
         /\ Moved(q, c) /\ c.pc \in {"decipher", "reveal", "pour", "serve", "done"}
         /\ c.pc # "done" => c.place = job[q].place /\ c.seg = job[q].seg
  BY <1>6
<1>8. ReqInv(q)'
  BY <1>3, <1>7 DEF ReqInv, Moved, V!Places
<1> QED BY <1>1, <1>2, <1>4, <1>5, <1>7, <1>8, QuietCall DEF V!TypeOK

\* A step that touches neither calls, recordings nor the files beside them.
LEMMA ElsewhereKeeps ==
    ASSUME VaultConstants, VaultInv, V!TypeOK', UNCHANGED <<plain, job, failures, purged>>,
           \A s \in Segs : enc'["beside"][s] = enc["beside"][s],
           \A s \in Segs : enc'["locked"][s].state # "absent" =>
                 enc["locked"][s].state # "absent" /\ (LastingRow(s) => LastingRow(s)')
    PROVE  VaultInv'
<1>1. \A s \in Segs : SegInv(s)'
  BY DEF VaultInv, SegInv, Safe, V!Typo
<1>2. \A q \in Requests : ReqInv(q)'
  BY DEF VaultInv, ReqInv, V!Places
<1>3. \A s \in Segs : RowDue(s) => RowDue(s)'
  BY DEF RowDue
<1>4. \A s \in Segs : ListInv(s)'
  BY <1>3 DEF VaultInv, ListInv
<1> QED BY <1>1, <1>2, <1>4 DEF VaultInv

\* A key is made and written.
LEMMA KeysKeep == ASSUME VaultConstants, VaultInv, V!Keygen \/ V!KeyWritten PROVE VaultInv'
<1>1. UNCHANGED <<plain, enc, copy, rows, job, failures, purged, stale, faults>>
  BY DEF V!Keygen, V!KeyWritten, V!files
<1>2. keys' \in 0..MaxKeys /\ keyFile' \in 0..MaxKeys
  BY DEF V!Keygen, V!KeyWritten, VaultInv, V!TypeOK, V!NoKey, VaultConstants
<1>3. V!TypeOK'
  BY <1>1, <1>2 DEF VaultInv, V!TypeOK
<1>4. \A s \in Segs : LastingRow(s) => LastingRow(s)'
  BY <1>1 DEF LastingRow
<1> QED BY <1>1, <1>3, <1>4, ElsewhereKeeps

\* Hiding rows leaves what they are about.
LEMMA Hiding ==
    ASSUME V!TypeOK, NEW hidden, NEW by \in {"dismissed", "stale"}, V!Hide(hidden, by)
    PROVE  /\ rows' \in Seq(V!Listed) /\ DOMAIN rows' = DOMAIN rows
           /\ \A i \in DOMAIN rows :
                 /\ rows'[i].file = rows[i].file
                 /\ rows'[i].is = IF i \in hidden THEN by ELSE rows[i].is
<1>1. rows \in Seq(V!Listed) /\ DOMAIN rows = 1 .. Len(rows) /\ Len(rows) \in Nat
  BY LenProperties DEF V!TypeOK
<1>2. rows' = [i \in 1 .. Len(rows) |-> IF i \in hidden THEN [rows[i] EXCEPT !.is = by] ELSE rows[i]]
  BY <1>1 DEF V!Hide
<1>3. \A i \in 1 .. Len(rows) : rows[i] \in V!Listed
  BY <1>1
<1>4. \A i \in 1 .. Len(rows) : rows'[i] \in V!Listed
  BY <1>2, <1>3 DEF V!Listed
<1>5. rows' \in Seq(V!Listed)
  BY <1>1, <1>2, <1>4, IsASeq
<1>6. ASSUME NEW i \in DOMAIN rows
      PROVE  rows'[i].file = rows[i].file /\ rows'[i].is = IF i \in hidden THEN by ELSE rows[i].is
  BY <1>1, <1>2, <1>3 DEF V!Listed
<1> QED BY <1>1, <1>2, <1>5, <1>6

\* A person hides rows, but not as stale.
LEMMA DismissKeeps == ASSUME VaultConstants, VaultInv, V!Dismiss PROVE VaultInv'
<1>1. UNCHANGED <<plain, enc, copy, keyFile, keys, job, failures, purged, stale, faults>>
  BY DEF V!Dismiss, V!files
<1>2. PICK hidden : V!Hide(hidden, "dismissed")
  BY DEF V!Dismiss
<1>3. /\ rows' \in Seq(V!Listed) /\ DOMAIN rows' = DOMAIN rows
      /\ \A i \in DOMAIN rows : rows'[i].file = rows[i].file /\ (rows[i].is # "stale" => rows'[i].is # "stale")
  BY <1>2, Hiding DEF VaultInv
<1>4. V!TypeOK'
  BY <1>1, <1>3 DEF VaultInv, V!TypeOK
<1>5. \A s \in Segs : LastingRow(s) => LastingRow(s)'
  BY <1>1, <1>3 DEF LastingRow
<1> QED BY <1>1, <1>4, <1>5, ElsewhereKeeps

\* A row of a file that is there is not found stale ...
LEMMA FindStaleKeeps == ASSUME VaultConstants, VaultInv, V!FindStale PROVE VaultInv'
<1>1. /\ UNCHANGED <<plain, enc, copy, keyFile, keys, rows, job, failures, purged, faults>>
      /\ stale' = {i \in V!Visible : ~V!Exists(rows[i].file)}
  BY DEF V!FindStale, V!files
<1>2. V!TypeOK'
  BY <1>1 DEF VaultInv, V!TypeOK, V!Visible
<1>3. ASSUME NEW s \in Segs, enc["locked"][s].state # "absent", LastingRow(s) PROVE LastingRow(s)'
  <2>1. PICK i \in DOMAIN rows : rows[i].file = <<"locked", s>> /\ rows[i].is # "stale"
    BY <1>3 DEF LastingRow
  <2>2. V!Exists(rows[i].file)
    BY <1>3, <2>1 DEF V!Exists
  <2> QED BY <1>1, <2>1, <2>2 DEF LastingRow
<1> QED BY <1>1, <1>2, <1>3, ElsewhereKeeps

\* ... and what is hidden are the rows that were found, not those of the same file.
LEMMA HideStaleKeeps == ASSUME VaultConstants, VaultInv, V!HideStale PROVE VaultInv'
<1>1. /\ UNCHANGED <<plain, enc, copy, keyFile, keys, job, failures, purged, faults>>
      /\ stale' = {} /\ V!Hide(stale, "stale")
  BY DEF V!HideStale, V!files
<1>2. /\ rows' \in Seq(V!Listed) /\ DOMAIN rows' = DOMAIN rows
      /\ \A i \in DOMAIN rows : rows'[i].file = rows[i].file /\ (i \notin stale => rows'[i].is = rows[i].is)
  BY <1>1, Hiding DEF VaultInv
<1>3. V!TypeOK'
  BY <1>1, <1>2 DEF VaultInv, V!TypeOK
<1>4. \A s \in Segs : LastingRow(s) => LastingRow(s)'
  BY <1>1, <1>2 DEF LastingRow
<1> QED BY <1>1, <1>3, <1>4, ElsewhereKeeps

\* Retention takes only what no run holds, and says so.
LEMMA PurgeKeeps == ASSUME VaultConstants, VaultInv, NEW s \in Segs, V!Purge(s) PROVE VaultInv'
<1>1. UNCHANGED <<keyFile, keys, rows, job, failures, stale, faults>> /\ V!TypeOK /\ s \in V!Actors
  BY DEF V!Purge, VaultInv, V!Actors
<1>2. CASE /\ ~V!Guarded(s) /\ plain' = [plain EXCEPT ![s] = "absent"] /\ UNCHANGED <<enc, copy>>
           /\ purged' = purged \union {s} /\ plain[s] # "encoding"
  <2>1. V!TypeOK'
    BY <1>1, <1>2 DEF V!TypeOK
  <2>2. ASSUME NEW t \in Segs PROVE SegInv(t)'
    <3>1. CASE t = s
      <4>1. job[s].pc \notin Coding \union {"key", "row", "idle"} /\ plain'[s] = "absent" /\ s \in purged'
        BY <1>1, <1>2 DEF V!Guarded, Coding, V!TypeOK, VaultInv, SegInv
      <4> QED BY <1>1, <3>1, <4>1 DEF SegInv, Coding
    <3>2. CASE t # s
      <4>1. plain'[t] = plain[t] /\ (t \in purged' <=> t \in purged)
        BY <1>1, <1>2, <3>2 DEF V!TypeOK
      <4> QED BY <1>1, <1>2, <4>1 DEF VaultInv, SegInv, Safe, V!Typo
    <3> QED BY <3>1, <3>2
  <2>3. \A q \in Requests : ReqInv(q)'
    BY <1>1 DEF VaultInv, ReqInv, V!Places
  <2>4. \A t \in Segs : (LastingRow(t) => LastingRow(t)') /\ (RowDue(t) => RowDue(t)')
    BY <1>1 DEF LastingRow, RowDue
  <2>5. \A t \in Segs : ListInv(t)'
    BY <1>2, <2>4 DEF VaultInv, ListInv
  <2> QED BY <2>1, <2>2, <2>3, <2>5 DEF VaultInv
<1>3. ASSUME NEW p \in V!Places, ~V!Fresh(p, s, {"copy", "unlink", "row"}),
             enc' = [enc EXCEPT ![p][s] = V!Absent], UNCHANGED <<plain, copy>>, purged' = purged \union {s}
      PROVE  VaultInv'
  <2>1. /\ enc' \in [V!Places -> [Segs -> V!FileState]] /\ enc'[p][s] = V!Absent
        /\ \A r \in V!Places, t \in Segs : r # p \/ t # s => enc'[r][t] = enc[r][t]
    <3>1. V!Absent \in V!FileState
      BY DEF V!Absent, V!FileState, V!NoKey, V!Typo, VaultConstants
    <3>2. enc \in [V!Places -> [Segs -> V!FileState]]
      BY <1>1 DEF V!TypeOK
    <3> QED BY <1>3, <3>1, <3>2
  <2>2. V!TypeOK'
    BY <1>1, <1>3, <2>1 DEF V!TypeOK
  <2>3. ASSUME NEW t \in Segs PROVE SegInv(t)'
    <3>1. CASE t = s /\ p = "beside"
      <4>1. job[s].pc # "unlink" /\ s \in purged'
        BY <1>1, <1>3, <3>1 DEF V!Fresh, VaultInv, SegInv, Coding
      <4> QED BY <1>1, <1>3, <3>1, <4>1 DEF VaultInv, SegInv, V!Typo
    <3>2. CASE ~(t = s /\ p = "beside")
      <4>1. enc'["beside"][t] = enc["beside"][t] /\ purged \subseteq purged'
        BY <1>3, <2>1, <3>2 DEF V!Places
      <4> QED BY <1>1, <1>3, <4>1 DEF VaultInv, SegInv, Safe, V!Typo
    <3> QED BY <3>1, <3>2
  <2>4. \A q \in Requests : ReqInv(q)'
    BY <1>1 DEF VaultInv, ReqInv, V!Places
  <2>5. \A t \in Segs : (LastingRow(t) => LastingRow(t)') /\ (RowDue(t) => RowDue(t)')
    BY <1>1 DEF LastingRow, RowDue
  <2>6. \A t \in Segs : enc'["locked"][t].state # "absent" => enc["locked"][t].state # "absent"
    BY <2>1 DEF V!Absent, V!Places
  <2>7. \A t \in Segs : ListInv(t)'
    BY <2>5, <2>6 DEF VaultInv, ListInv
  <2> QED BY <2>2, <2>3, <2>4, <2>7 DEF VaultInv
<1>4. ASSUME NEW p \in V!Places, copy' = [copy EXCEPT ![p][s] = "absent"], UNCHANGED <<plain, enc>>,
             purged' = purged \/ purged' = purged \union {s}
      PROVE  VaultInv'
  <2>1. copy' \in [V!Places -> [Segs -> {"absent", "whole", "torn"}]]
    BY <1>1, <1>4 DEF V!TypeOK
  <2>2. V!TypeOK' /\ purged \subseteq purged'
    BY <1>1, <1>4, <2>1 DEF V!TypeOK
  <2>3. \A t \in Segs : SegInv(t)'
    BY <1>1, <1>4, <2>2 DEF VaultInv, SegInv, Safe, V!Typo
  <2>4. \A q \in Requests : ReqInv(q)'
    BY <1>1 DEF VaultInv, ReqInv, V!Places
  <2>5. \A t \in Segs : (LastingRow(t) => LastingRow(t)') /\ (RowDue(t) => RowDue(t)')
    BY <1>1 DEF LastingRow, RowDue
  <2>6. \A t \in Segs : ListInv(t)'
    BY <1>4, <2>5 DEF VaultInv, ListInv
  <2> QED BY <2>2, <2>3, <2>4, <2>6 DEF VaultInv
<1>5. /\ plain[s] # "encoding"
      /\ \/ /\ ~V!Guarded(s) /\ plain' = [plain EXCEPT ![s] = "absent"] /\ UNCHANGED <<enc, copy>>
         \/ \E p \in V!Places :
               /\ ~V!Fresh(p, s, {"copy", "unlink", "row"})
               /\ enc' = [enc EXCEPT ![p][s] = V!Absent] /\ UNCHANGED <<plain, copy>>
         \/ \E p \in V!Places : copy' = [copy EXCEPT ![p][s] = "absent"] /\ UNCHANGED <<plain, enc>>
      /\ purged' = IF copy' = copy THEN purged \union {s} ELSE purged
  BY DEF V!Purge
<1> QED BY <1>2, <1>3, <1>4, <1>5

\* After the end of the process no call goes on; what it did to the files stays.
LEMMA CrashKeeps == ASSUME VaultConstants, VaultInv, V!Crash PROVE VaultInv'
<1>1. /\ UNCHANGED <<plain, enc, copy, keyFile, keys, rows, failures, purged>> /\ stale' = {}
      /\ job' = [a \in V!Actors |-> IF job[a].pc = "idle" THEN V!Idle ELSE V!Ended("gone")]
      /\ V!TypeOK
  BY DEF V!Crash, V!files, VaultInv
<1>2. faults' \in 0..MaxFaults
  BY <1>1 DEF V!Crash, V!Fault, V!TypeOK, VaultConstants
<1>3. V!Ended("gone") \in V!Call /\ V!Ended("gone").pc = "gone" /\ V!Idle.pc = "idle" /\ V!Idle \in V!Call
  BY IdleType DEF V!Ended, V!Call, V!Idle
<1>4. \A a \in V!Actors : job'[a] \in V!Call /\ job'[a].pc = IF job[a].pc = "idle" THEN "idle" ELSE "gone"
  BY <1>1, <1>3
<1>5. V!TypeOK'
  <2>1. job' \in [V!Actors -> V!Call]
    BY <1>1, <1>4
  <2> QED BY <1>1, <1>2, <2>1 DEF V!TypeOK
<1>6. ASSUME NEW s \in Segs PROVE SegInv(s)'
  <2>1. job'[s].pc = IF job[s].pc = "idle" THEN "idle" ELSE "gone"
    BY <1>4 DEF V!Actors
  <2> QED BY <1>1, <2>1 DEF VaultInv, SegInv, Coding, Safe, V!Typo
<1>7. ASSUME NEW q \in Requests PROVE ReqInv(q)'
  <2>1. job'[q].pc \in {"idle", "gone"}
    BY <1>4 DEF V!Actors
  <2> QED BY <2>1 DEF ReqInv
<1>8. ASSUME NEW s \in Segs PROVE ListInv(s)'
  <2>1. LastingRow(s) => LastingRow(s)'
    BY <1>1 DEF LastingRow
  <2>2. RowDue(s) => RowDue(s)'
    <3> SUFFICES ASSUME NEW q \in Requests, job[q].pc \in {"row", "unlisted", "gone"} PROVE RowDue(s)'
      BY DEF RowDue
    <3>1. job'[q].pc = "gone"
      BY <1>4 DEF V!Actors
    <3> QED BY <3>1 DEF RowDue
  <2> QED BY <1>1, <2>1, <2>2 DEF VaultInv, ListInv
<1> QED BY <1>5, <1>6, <1>7, <1>8 DEF VaultInv

\* The invariant holds before anything was recorded.
LEMMA VaultStarts == VaultConstants /\ V!Init => VaultInv
<1> SUFFICES ASSUME VaultConstants, V!Init PROVE VaultInv
  OBVIOUS
<1>1. \A a \in V!Actors : job[a] = V!Idle /\ job[a].pc = "idle"
  BY DEF V!Init, V!Idle
<1>2. V!Absent \in V!FileState /\ V!Absent.state = "absent"
  BY DEF V!Absent, V!FileState, V!NoKey, V!Typo, VaultConstants
<1>3. V!TypeOK
  <2>1. job \in [V!Actors -> V!Call]
    BY IdleType DEF V!Init
  <2>2. enc \in [V!Places -> [Segs -> V!FileState]] /\ copy \in [V!Places -> [Segs -> {"absent", "whole", "torn"}]]
    BY <1>2 DEF V!Init
  <2>3. keys \in 0..MaxKeys /\ keyFile \in 0..MaxKeys /\ faults \in 0..MaxFaults
    BY DEF V!Init, V!NoKey, VaultConstants
  <2> QED BY <2>1, <2>2, <2>3 DEF V!Init, V!TypeOK
<1>4. \A s \in Segs : SegInv(s)
  BY <1>1 DEF V!Init, SegInv, Coding, V!Actors
<1>5. \A q \in Requests : ReqInv(q)
  BY <1>1 DEF ReqInv, V!Actors
<1>6. \A s \in Segs : ListInv(s)
  BY <1>2 DEF V!Init, ListInv, V!Places
<1> QED BY <1>3, <1>4, <1>5, <1>6 DEF VaultInv

\* Every step keeps it.
LEMMA VaultSteps == VaultConstants /\ VaultInv /\ [V!Next]_(V!vars) => VaultInv'
<1> SUFFICES ASSUME VaultConstants, VaultInv, [V!Next]_(V!vars) PROVE VaultInv'
  OBVIOUS
<1>1. ASSUME NEW s \in Segs, V!Encoded(s) \/ V!Unlink(s) \/ V!UnlinkFails(s) \/ V!Purge(s) PROVE VaultInv'
  BY <1>1, EncodedKeeps, UnlinkKeeps, UnlinkFailsKeeps, PurgeKeeps
<1>2. ASSUME NEW a \in V!Actors, V!EncryptStep(a) PROVE VaultInv'
  BY <1>2, ReadKeyKeeps, EncipherKeeps, FailuresKeep, PublishKeeps, InsertRowKeeps, InsertFailsKeeps
     DEF V!EncryptStep
<1>3. ASSUME NEW q \in Requests, V!AskEncrypt(q) \/ V!AskDecrypt(q) \/ V!DecryptStep(q) PROVE VaultInv'
  BY <1>3, AskKeeps, DecryptKeeps
<1>4. ASSUME V!Keygen \/ V!KeyWritten \/ V!Dismiss \/ V!FindStale \/ V!HideStale \/ V!Crash PROVE VaultInv'
  BY <1>4, KeysKeep, DismissKeeps, FindStaleKeeps, HideStaleKeeps, CrashKeeps
<1>5. CASE UNCHANGED V!vars
  <2>1. UNCHANGED <<plain, enc, copy, keyFile, keys, rows, job, failures, purged, stale, faults>>
    BY <1>5 DEF V!vars, V!files
  <2>2. V!TypeOK' /\ \A s \in Segs : LastingRow(s) => LastingRow(s)'
    BY <2>1 DEF VaultInv, V!TypeOK, LastingRow
  <2> QED BY <2>1, <2>2, ElsewhereKeeps
<1> QED BY <1>1, <1>2, <1>3, <1>4, <1>5 DEF V!Next

\* The inductive invariant of the vault, for any number of segments, requests, keys, rows
\* and failed calls or ends of the process.
THEOREM VaultIsInductive == VaultConstants => (V!Spec => []VaultInv)
<1> SUFFICES ASSUME VaultConstants PROVE V!Spec => []VaultInv
  OBVIOUS
<1>1. V!Init => VaultInv
  BY VaultStarts
<1>2. VaultInv /\ [V!Next]_(V!vars) => VaultInv'
  BY VaultSteps
<1> QED BY <1>1, <1>2, PTL DEF V!Spec

\* A decrypted copy is cut short only while it is poured or after something failed.
PouredInv ==
    \A p \in V!Places, s \in Segs : copy[p][s] = "torn" => V!Pouring(p, s) \/ faults > 0

\* A step that pours nothing and cuts no copy short.
LEMMA PouringStays ==
    ASSUME VaultInv, PouredInv, faults' = faults,
           \A q \in Requests : job[q].pc = "pour" => job'[q] = job[q],
           \A p \in V!Places, s \in Segs : copy'[p][s] = "torn" => copy[p][s] = "torn"
    PROVE  PouredInv'
<1> SUFFICES ASSUME NEW p \in V!Places, NEW s \in Segs, copy'[p][s] = "torn", ~(faults > 0)
             PROVE  V!Pouring(p, s)'
  BY DEF PouredInv, V!Places
<1>1. PICK q \in Requests : job[q].pc = "pour" /\ job[q].place = p /\ job[q].seg = s
  BY DEF PouredInv, V!Pouring
<1> QED BY <1>1 DEF V!Pouring

\* At first there is no copy.
LEMMA PouredStarts == V!Init => PouredInv
  BY DEF V!Init, PouredInv, V!Places

\* What a step of one request does to the copies.
LEMMA PouringOn ==
    ASSUME VaultConstants, VaultInv, PouredInv, NEW q \in Requests, V!DecryptStep(q) PROVE PouredInv'
<1>1. /\ q \in V!Actors /\ V!TypeOK /\ faults \in Nat /\ \A r \in Requests \ {q} : r \in V!Actors
      /\ \A r \in Requests : job[r] \in V!Call
  BY DEF VaultInv, V!TypeOK, V!Actors, VaultConstants
<1>2. job[q].pc \in {"drop", "decipher", "reveal", "pour", "serve"}
  BY DEF V!DecryptStep, V!DropCopy, V!Decipher, V!Reveal, V!RevealHeld, V!RevealFails, V!Serve
<1>3. job[q].place \in V!Places /\ job[q].seg \in Segs
  BY <1>2 DEF VaultInv, ReqInv
<1>4. ASSUME NEW to \in {"absent", "whole", "torn"}, V!PutCopy(q, to)
      PROVE  /\ copy'[job[q].place][job[q].seg] = to
             /\ \A p \in V!Places, s \in Segs :
                   p # job[q].place \/ s # job[q].seg => copy'[p][s] = copy[p][s]
  BY <1>1, <1>3, <1>4 DEF V!PutCopy, V!TypeOK
<1>5. \A r \in Requests : r # q => job'[r] = job[r]
  BY <1>1 DEF V!DecryptStep, V!DropCopy, V!Decipher, V!Reveal, V!RevealHeld, V!RevealFails, V!Serve, V!Step, V!TypeOK
<1>6. CASE V!DropCopy(q)
  <2>1. copy' = copy \/ V!PutCopy(q, "absent")
    BY <1>6 DEF V!DropCopy
  <2>2. \A p \in V!Places, s \in Segs : copy'[p][s] = "torn" => copy[p][s] = "torn"
    BY <1>4, <2>1
  <2> QED BY <1>5, <1>6, <2>2, PouringStays DEF V!DropCopy
<1>7. CASE V!Decipher(q) \/ V!Serve(q)
  BY <1>5, <1>7, PouringStays DEF V!Decipher, V!Serve, V!files
<1>8. CASE V!RevealFails(q)
  BY <1>1, <1>8 DEF V!RevealFails, V!Fault, PouredInv, V!Places
<1>9. ASSUME V!Reveal(q) \/ V!RevealHeld(q), NEW p \in V!Places, NEW s \in Segs, copy'[p][s] = "torn", ~(faults > 0)
      PROVE  V!Pouring(p, s)'
  <2>1. CASE p = job[q].place /\ s = job[q].seg
    <3>1. V!RevealHeld(q)
      BY <1>4, <1>9, <2>1 DEF V!Reveal
    <3>2. job'[q] = [job[q] EXCEPT !.pc = "pour"]
      BY <1>1, <3>1 DEF V!RevealHeld, V!Step, V!TypeOK
    <3>3. job'[q].pc = "pour" /\ job'[q].place = p /\ job'[q].seg = s
      BY <1>1, <2>1, <3>2 DEF V!Call
    <3> QED BY <3>3 DEF V!Pouring
  <2>2. CASE ~(p = job[q].place /\ s = job[q].seg)
    <3>1. copy[p][s] = "torn"
      BY <1>4, <1>9, <2>2 DEF V!Reveal, V!RevealHeld
    <3>2. PICK r \in Requests : job[r].pc = "pour" /\ job[r].place = p /\ job[r].seg = s
      BY <1>9, <3>1 DEF PouredInv, V!Pouring
    <3> QED BY <1>5, <2>2, <3>2 DEF V!Pouring
  <2> QED BY <2>1, <2>2
<1>10. CASE V!Reveal(q) \/ V!RevealHeld(q)
  BY <1>9, <1>10 DEF PouredInv, V!Places, V!Reveal, V!RevealHeld
<1> QED BY <1>6, <1>7, <1>8, <1>10 DEF V!DecryptStep

\* Every step keeps it: only a request to decrypt writes to the copies, besides retention.
LEMMA PouredSteps == VaultConstants /\ VaultInv /\ PouredInv /\ [V!Next]_(V!vars) => PouredInv'
<1> SUFFICES ASSUME VaultConstants, VaultInv, PouredInv, [V!Next]_(V!vars) PROVE PouredInv'
  OBVIOUS
<1>1. /\ V!TypeOK /\ faults \in Nat /\ Requests \cap Segs = {}
      /\ \A q \in Requests : q \in V!Actors
  BY DEF VaultInv, V!TypeOK, V!Actors, VaultConstants
<1>2. ASSUME V!Fault PROVE PouredInv'
  BY <1>1, <1>2 DEF V!Fault, PouredInv, V!Places
<1>3. ASSUME NEW a \in V!Actors, NEW to, V!Step(a, to), job[a].pc # "pour"
      PROVE  \A q \in Requests : job[q].pc = "pour" => job'[q] = job[q]
  BY <1>1, <1>3 DEF V!Step, V!TypeOK
<1>4. ASSUME NEW a \in V!Actors, NEW c, job' = [job EXCEPT ![a] = c], job[a].pc # "pour"
      PROVE  \A q \in Requests : job[q].pc = "pour" => job'[q] = job[q]
  BY <1>1, <1>4 DEF V!TypeOK
<1>5. ASSUME NEW a \in V!Actors, V!EncryptFails(a), job[a].pc # "pour"
      PROVE  \A q \in Requests : job[q].pc = "pour" => job'[q] = job[q]
  BY <1>1, <1>3, <1>4, <1>5 DEF V!EncryptFails
<1>6. ASSUME NEW s \in Segs, V!Encoded(s) \/ V!Unlink(s) \/ V!UnlinkFails(s) PROVE PouredInv'
  <2>1. s \in V!Actors /\ s \notin Requests
    BY <1>1 DEF V!Actors
  <2>2. \A q \in Requests : job'[q] = job[q]
    BY <1>1, <1>6, <2>1 DEF V!Encoded, V!Unlink, V!UnlinkFails, V!EncryptFails, V!Step, V!TypeOK
  <2>3. V!Fault \/ (faults' = faults /\ copy' = copy)
    BY <1>6 DEF V!Encoded, V!Unlink, V!UnlinkFails
  <2> QED BY <1>2, <2>2, <2>3, PouringStays
<1>7. ASSUME NEW a \in V!Actors, V!EncryptStep(a) PROVE PouredInv'
  <2>1. job[a].pc # "pour"
    BY <1>7 DEF V!EncryptStep, V!ReadKey, V!NoKeyFile, V!Encipher, V!EncipherFails, V!Publish, V!PublishHeld,
                V!CopyOver, V!PublishFails, V!InsertRow, V!InsertFails
  <2>2. V!Fault \/ (faults' = faults /\ copy' = copy)
    BY <1>7 DEF V!EncryptStep, V!ReadKey, V!NoKeyFile, V!Encipher, V!EncipherFails, V!Publish, V!PublishHeld,
                V!CopyOver, V!PublishFails, V!InsertRow, V!InsertFails, V!files
  <2>3. V!EncryptFails(a) \/ (\E to : V!Step(a, to)) \/ (\E c : job' = [job EXCEPT ![a] = c])
    <3>1. CASE V!ReadKey(a)
      <4>1. PICK k : job' = [job EXCEPT ![a].pc = "cipher", ![a].key = k]
        BY <3>1 DEF V!ReadKey
      <4>2. job' = [job EXCEPT ![a] = [[job[a] EXCEPT !.pc = "cipher"] EXCEPT !.key = k]]
        BY <1>1, <4>1 DEF V!TypeOK
      <4> QED BY <4>2
    <3>2. CASE ~V!ReadKey(a)
      BY <1>7, <3>2 DEF V!EncryptStep, V!NoKeyFile, V!Encipher, V!EncipherFails, V!Publish, V!PublishHeld,
                V!CopyOver, V!PublishFails, V!InsertRow, V!InsertFails
    <3> QED BY <3>1, <3>2
  <2>4. \A q \in Requests : job[q].pc = "pour" => job'[q] = job[q]
    BY <1>3, <1>4, <1>5, <2>1, <2>3
  <2> QED BY <1>2, <2>2, <2>4, PouringStays
<1>8. ASSUME NEW q \in Requests, V!AskEncrypt(q) \/ V!AskDecrypt(q) PROVE PouredInv'
  <2>1. job[q].pc = "idle" /\ copy' = copy /\ faults' = faults /\ \E c : job' = [job EXCEPT ![q] = c]
    BY <1>8 DEF V!AskEncrypt, V!AskDecrypt, V!files
  <2> QED BY <1>1, <1>4, <2>1, PouringStays
<1>9. ASSUME NEW s \in Segs, V!Purge(s) PROVE PouredInv'
  <2>1. \A p \in V!Places, t \in Segs : copy'[p][t] = "torn" => copy[p][t] = "torn"
    <3>1. CASE copy' = copy
      BY <3>1
    <3>2. ASSUME NEW p \in V!Places, copy' = [copy EXCEPT ![p][s] = "absent"]
          PROVE  \A q \in V!Places, t \in Segs : copy'[q][t] = "torn" => copy[q][t] = "torn"
      <4>1. copy \in [V!Places -> [Segs -> {"absent", "whole", "torn"}]]
        BY <1>1 DEF V!TypeOK
      <4> QED BY <3>2, <4>1
    <3> QED BY <1>9, <3>1, <3>2 DEF V!Purge
  <2> QED BY <1>9, <2>1, PouringStays DEF V!Purge
<1>10. ASSUME V!Keygen \/ V!KeyWritten \/ V!Dismiss \/ V!FindStale \/ V!HideStale PROVE PouredInv'
  BY <1>10, PouringStays DEF V!Keygen, V!KeyWritten, V!Dismiss, V!FindStale, V!HideStale, V!files
<1>11. CASE V!Crash
  BY <1>2, <1>11 DEF V!Crash
<1>12. CASE UNCHANGED V!vars
  BY <1>12, PouringStays DEF V!vars, V!files
<1> QED BY <1>6, <1>7, <1>8, <1>9, <1>10, <1>11, <1>12, PouringOn DEF V!Next

\* What encryption_failures and the index say is so: the recordings that a run was to
\* encrypt and left in the clear are the ones it counted, and a locked copy is listed or
\* was dismissed by a person, unless a call could not add its row.  A clean-up hides the
\* rows it found by their numbers, so a row that is added in between is not hidden.
LEMMA VaultTells == VaultInv => V!VaultTruthful
<1>1. VaultInv => V!ClearIsCounted
  BY DEF VaultInv, SegInv, V!ClearIsCounted
<1>2. VaultInv => V!LockedShown
  <2> SUFFICES ASSUME VaultInv, NEW s \in Segs, enc["locked"][s].state = "whole",
                      \A q \in Requests : job[q].pc \in {"idle", "done"}
               PROVE  \E i \in DOMAIN rows : rows[i].file = <<"locked", s>> /\ rows[i].is # "stale"
    BY DEF V!LockedShown
  <2>1. LastingRow(s) \/ RowDue(s)
    BY DEF VaultInv, ListInv
  <2>2. ~RowDue(s)
    BY DEF RowDue
  <2> QED BY <2>1, <2>2 DEF LastingRow
<1> QED BY <1>1, <1>2 DEF V!VaultTruthful

\* When MCKept runs the vault, it does what the vault does.
LEMMA VaultRuns == VaultConstants => (KeptSpec => [](which = "vault" => VaultInv /\ PouredInv))
<1> SUFFICES ASSUME VaultConstants PROVE KeptSpec => [](which = "vault" => VaultInv /\ PouredInv)
  OBVIOUS
<1>1. KeptInit => (which = "vault" => VaultInv /\ PouredInv)
  BY VaultStarts, PouredStarts DEF KeptInit
<1>2. UNCHANGED vaultVars => UNCHANGED V!vars
  BY DEF vaultVars, V!vars, V!files
<1>3. (which = "vault" => VaultInv /\ PouredInv) /\ [KeptNext]_keptVars => (which = "vault" => VaultInv /\ PouredInv)'
  BY <1>2, VaultSteps, PouredSteps DEF KeptNext, RunVault, RunFiles, RunSetup, RunConfig, RunUsage,
         RunRtsp, RunSampler, RunEnhancer, keptVars
<1> QED BY <1>1, <1>3, PTL DEF KeptSpec

\* encrypt_file and api_encrypt: whatever call fails, whoever encrypts the same recording
\* and whenever the process ends, a segment's footage is lost to nothing but retention: the
\* recording is deleted by the run alone, after the .enc beside it was written whole under
\* the configured key, and nobody else writes there.  And no copy is shown as decrypted but
\* one whose tag was checked, whole unless it is poured over an open one or a call failed in
\* that (a copy that cannot be removed first stays until then).  What the counter and the index say is so (VaultTells).
THEOREM FootageIsKept == VaultConstants => (KeptSpec => []FootageKept)
<1> SUFFICES ASSUME VaultConstants PROVE KeptSpec => []FootageKept
  OBVIOUS
<1>1. VaultInv => V!TypeOK
  BY DEF VaultInv
<1>2. VaultInv => V!FootageKept
  BY DEF VaultInv, SegInv, Safe, V!FootageKept, V!Places, V!Typo
<1>3. VaultInv /\ PouredInv => V!DecryptedAuthentic
  BY DEF VaultInv, V!TypeOK, PouredInv, V!DecryptedAuthentic, V!Call, V!Actors
<1>4. VaultInv => V!VaultTruthful
  BY VaultTells
<1>5. (which = "vault" => VaultInv /\ PouredInv) => FootageKept
  BY <1>1, <1>2, <1>3, <1>4 DEF FootageKept
<1> QED BY <1>5, VaultRuns, PTL

-----------------------------------------------------------------------------
(* StateFiles *)

\* No save is the absence of one; the bound on the faults is a number.
StoreConstants == Nil \notin Writers /\ MaxMishaps \in Nat

\* Steps of a save that is at the file.
Busy == {"read", "write", "fill"}

\* An operation is one that the store has.
KindInv ==
    \A s \in Writers :
        /\ IF store = "tokens" THEN op[s].kind # "set" ELSE op[s].kind \in {"none", "set"}
        /\ pc[s] # "new" => op[s].kind # "none" \/ pc[s] = "done"

\* Who is at the file of a store with a lock holds it, and gives it back when it leaves.
LockInv ==
    /\ store \in I!Locked => \A s \in Writers : pc[s] \in Busy => lock = s
    /\ lock # Nil => lock \in Writers /\ pc[lock] \in Busy

\* A file that is replaced is never half-written, and one that is written in place only by
\* who is at it, or by one that failed.
TornInv ==
    /\ store \in I!Replaced => file.state # "torn" /\ ~I!Filling
    /\ mishaps = 0 /\ file.state = "torn" => I!Filling
    /\ store \in {"tokens", "hook"} => \A l \in Loads : got[l] # "defaults"

\* The stores that lose nothing: the tokens' whatever fails, the others as long as nothing does.
Trusted == store = "tokens" \/ (store \in I!Locked /\ mishaps = 0)

\* What is about to be written differs from what was acknowledged in the operation's keys at most.
KeptInv ==
    Trusted =>
        /\ ~I!Filling => file.at = acked
        /\ \A s \in Writers : pc[s] \in {"write", "fill"} =>
              \A k \in Entries : k \notin op[s].keys => cfg[s][k] = acked[k]

\* The inductive invariant.
StoreInv == I!TypeOK /\ KindInv /\ LockInv /\ TornInv /\ KeptInv

\* It holds at the start, of any store and file.
LEMMA StoresStart == StoreConstants /\ I!Init => StoreInv
<1> SUFFICES ASSUME StoreConstants, I!Init PROVE StoreInv
  OBVIOUS
<1>1. file \in [state : {"absent", "torn", "whole"}, at : [Entries -> I!Values \union {Nil}]] /\ file.state # "torn"
  <2>1. I!Empty \in [Entries -> I!Values \union {Nil}]
    BY DEF I!Empty
  <2>2. CASE file = [state |-> "absent", at |-> I!Empty]
    BY <2>1, <2>2
  <2>3. ASSUME NEW a \in [Entries -> IF store = "tokens" THEN {Nil, "live", "junk"} ELSE {Nil, "old"}],
               file = [state |-> "whole", at |-> a]
        PROVE  file \in [state : {"absent", "torn", "whole"}, at : [Entries -> I!Values \union {Nil}]] /\ file.state # "torn"
    <3>1. a \in [Entries -> I!Values \union {Nil}]
      BY DEF I!Values, I!TokenValues, I!Live
    <3> QED BY <2>3, <3>1
  <2> QED BY <2>2, <2>3 DEF I!Init
<1>2. I!TypeOK
  <2>1. /\ store \in Stores /\ pc = [s \in Writers |-> "new"] /\ op = [s \in Writers |-> [kind |-> "none", keys |-> {}]]
        /\ cfg = [s \in Writers |-> I!Empty] /\ lock = Nil /\ acked = file.at /\ got = [l \in Loads |-> "nothing"] /\ mishaps = 0
    BY DEF I!Init
  <2>2. I!Empty \in [Entries -> I!Values \union {Nil}]
    BY DEF I!Empty
  <2>3. acked \in [Entries -> I!Values \union {Nil}]
    BY <1>1, <2>1
  <2> QED BY <1>1, <2>1, <2>2, <2>3 DEF I!TypeOK, StoreConstants
<1>3. KindInv /\ LockInv /\ TornInv /\ KeptInv
  BY <1>1 DEF I!Init, KindInv, LockInv, TornInv, KeptInv, I!Filling, Busy
<1> QED BY <1>2, <1>3 DEF StoreInv

\* An operation changes the values of its own keys only, to values of its store.
LEMMA NewKeeps ==
    ASSUME StoreConstants, I!TypeOK, KindInv, NEW s \in Writers, NEW a \in [Entries -> I!Values \union {Nil}],
           op[s].kind # "none"
    PROVE  /\ I!New(s, a) \in [Entries -> I!Values \union {Nil}]
           /\ \A k \in Entries : k \notin op[s].keys => I!New(s, a)[k] = a[k]
<1>1. ASSUME NEW ks, ks \subseteq op[s].keys, NEW v \in I!Values
      PROVE  /\ I!Merged(a, ks, v) \in [Entries -> I!Values \union {Nil}]
             /\ \A k \in Entries : k \notin op[s].keys => I!Merged(a, ks, v)[k] = a[k]
  BY <1>1 DEF I!Merged
<1>2. {k \in op[s].keys : a[k] \in I!Live} \subseteq op[s].keys
  OBVIOUS
<1>3. CASE store = "tokens"
  <2>1. "live" \in I!Values /\ "revoked" \in I!Values /\ "endpoint" \in I!Values
    BY <1>3 DEF I!Values, I!TokenValues, I!Live
  <2>2. op[s].kind \in {"none", "mint", "revoke", "touch", "endpoint", "set"} /\ op[s].kind # "set"
    BY <1>3 DEF I!TypeOK, KindInv
  <2>3. CASE op[s].kind = "mint"
    BY <1>1, <2>1, <2>3 DEF I!New, I!Mint
  <2>4. CASE op[s].kind = "revoke"
    BY <1>1, <1>2, <2>1, <2>4 DEF I!New, I!Revoke
  <2>5. CASE op[s].kind = "endpoint"
    BY <1>1, <1>2, <2>1, <2>5 DEF I!New, I!Endpoint
  <2>6. CASE op[s].kind = "touch"
    BY <2>6 DEF I!New
  <2> QED BY <2>2, <2>3, <2>4, <2>5, <2>6
<1>4. CASE store # "tokens"
  <2>1. s \in I!Values
    BY <1>4 DEF I!Values
  <2>2. op[s].kind \in {"none", "set"}
    BY <1>4 DEF KindInv
  <2>3. I!New(s, a) = I!Merged(a, op[s].keys, s)
    BY <2>2 DEF I!New, I!Set
  <2> QED BY <1>1, <2>1, <2>3
<1> QED BY <1>3, <1>4

\* A save begins.
LEMMA BeginKeeps == ASSUME StoreConstants, StoreInv, NEW s \in Writers, I!Begin(s) PROVE StoreInv'
<1>1. I!TypeOK /\ KindInv /\ LockInv /\ TornInv /\ KeptInv
  BY DEF StoreInv
<1>2. /\ pc[s] = "new" /\ pc' = [pc EXCEPT ![s] = "lock"]
      /\ UNCHANGED <<store, file, cfg, lock, acked, got, mishaps>>
  BY DEF I!Begin
<1>3. PICK o \in I!Operations : op' = [op EXCEPT ![s] = o]
  BY DEF I!Begin
<1>4. /\ o \in [kind : {"none", "mint", "revoke", "touch", "endpoint", "set"}, keys : SUBSET Entries]
      /\ o.kind # "none" /\ (IF store = "tokens" THEN o.kind # "set" ELSE o.kind = "set")
  <2>1. CASE store = "tokens"
    BY <1>3, <2>1 DEF I!Operations
  <2>2. CASE store # "tokens"
    BY <1>3, <2>2 DEF I!Operations
  <2> QED BY <2>1, <2>2
<1>5. /\ pc \in [Writers -> {"new", "lock", "read", "write", "fill", "done"}]
      /\ op \in [Writers -> [kind : {"none", "mint", "revoke", "touch", "endpoint", "set"}, keys : SUBSET Entries]]
  BY <1>1 DEF I!TypeOK
<1>6. /\ pc'[s] = "lock" /\ \A r \in Writers : r # s => pc'[r] = pc[r]
      /\ op'[s] = o /\ \A r \in Writers : r # s => op'[r] = op[r]
  BY <1>2, <1>3, <1>5
<1>7. I!TypeOK'
  <2>1. op' \in [Writers -> [kind : {"none", "mint", "revoke", "touch", "endpoint", "set"}, keys : SUBSET Entries]]
    BY <1>3, <1>4, <1>5
  <2>2. pc' \in [Writers -> {"new", "lock", "read", "write", "fill", "done"}]
    BY <1>2, <1>5
  <2> QED BY <1>1, <1>2, <2>1, <2>2 DEF I!TypeOK, I!Values
<1>8. KindInv'
  BY <1>1, <1>2, <1>4, <1>6 DEF KindInv
<1>9. LockInv'
  BY <1>1, <1>2, <1>6 DEF LockInv, Busy
<1>10. I!Filling' <=> I!Filling
  BY <1>2, <1>6 DEF I!Filling
<1>11. TornInv'
  BY <1>1, <1>2, <1>10 DEF TornInv
<1>12. KeptInv'
  BY <1>1, <1>2, <1>6, <1>10 DEF KeptInv, Trusted
<1> QED BY <1>7, <1>8, <1>9, <1>11, <1>12 DEF StoreInv

\* It takes the lock, if its store has one.
LEMMA LockKeeps == ASSUME StoreConstants, StoreInv, NEW s \in Writers, I!Lock(s) PROVE StoreInv'
<1>1. I!TypeOK /\ KindInv /\ LockInv /\ TornInv /\ KeptInv
  BY DEF StoreInv
<1>2. /\ pc[s] = "lock" /\ pc' = [pc EXCEPT ![s] = "read"]
      /\ UNCHANGED <<store, file, op, cfg, acked, got, mishaps>>
      /\ \/ lock = Nil /\ lock' = s
         \/ lock' = lock /\ store \notin I!Locked
  BY DEF I!Lock
<1>0. pc \in [Writers -> {"new", "lock", "read", "write", "fill", "done"}] /\ lock \in Writers \union {Nil}
  BY <1>1 DEF I!TypeOK
<1>4. pc'[s] = "read" /\ \A r \in Writers : r # s => pc'[r] = pc[r]
  BY <1>0, <1>2
<1>3. KindInv' /\ LockInv' /\ pc' \in [Writers -> {"new", "lock", "read", "write", "fill", "done"}] /\ lock' \in Writers \union {Nil}
  BY <1>0, <1>1, <1>2, <1>4 DEF KindInv, LockInv, Busy, StoreConstants
<1>5. I!Filling' <=> I!Filling
  BY <1>2, <1>4 DEF I!Filling
<1>6. I!TypeOK'
  BY <1>1, <1>2, <1>3 DEF I!TypeOK, I!Values
<1>7. TornInv' /\ KeptInv'
  BY <1>1, <1>2, <1>4, <1>5 DEF TornInv, KeptInv, Trusted
<1> QED BY <1>3, <1>6, <1>7 DEF StoreInv

\* A save that holds the file alone knows what was acknowledged.
LEMMA AloneAtFile ==
    ASSUME StoreInv, NEW s \in Writers, pc[s] = "read", Trusted
    PROVE  file.at = acked
<1>1. I!TypeOK /\ KindInv /\ LockInv /\ TornInv /\ KeptInv
  BY DEF StoreInv
<1>2. store \in I!Locked
  BY DEF Trusted, I!Locked
<1>3. ~I!Filling
  BY <1>1, <1>2 DEF I!Filling, LockInv, Busy
<1> QED BY <1>1, <1>3 DEF KeptInv

\* A save leaves without having written.
LEMMA LeavingKeeps ==
    ASSUME StoreConstants, StoreInv, NEW s \in Writers, pc[s] \in Busy, I!Done(s), UNCHANGED <<store, file, op, cfg, acked, got>>,
           mishaps' \in 0..MaxMishaps, mishaps' >= mishaps, pc[s] = "fill" => mishaps' > 0
    PROVE  StoreInv'
<1>1. I!TypeOK /\ KindInv /\ LockInv /\ TornInv /\ KeptInv
  BY DEF StoreInv
<1>2. pc' = [pc EXCEPT ![s] = "done"] /\ lock' = IF lock = s THEN Nil ELSE lock
  BY DEF I!Done, I!Release
<1>3. pc \in [Writers -> {"new", "lock", "read", "write", "fill", "done"}] /\ lock \in Writers \union {Nil} /\ mishaps \in Nat
  BY <1>1 DEF I!TypeOK, StoreConstants
<1>4. pc'[s] = "done" /\ \A r \in Writers : r # s => pc'[r] = pc[r]
  BY <1>2, <1>3
<1>5. KindInv'
  BY <1>1, <1>4 DEF KindInv
<1>6. LockInv'
  BY <1>1, <1>2, <1>4 DEF LockInv, Busy
<1>7. I!TypeOK'
  BY <1>1, <1>2, <1>3, <1>4 DEF I!TypeOK, I!Values
<1>8. pc[s] # "fill" => (I!Filling' <=> I!Filling)
  BY <1>4 DEF I!Filling
<1>9. I!Filling' => I!Filling
  BY <1>4 DEF I!Filling
<1>10. mishaps' = 0 => mishaps = 0 /\ (I!Filling' <=> I!Filling)
  BY <1>3, <1>8 DEF StoreConstants
<1>11. TornInv'
  BY <1>1, <1>9, <1>10 DEF TornInv
<1>12. KeptInv'
  <2>1. Trusted' => Trusted
    BY <1>10 DEF Trusted
  <2>2. Trusted' => (I!Filling' <=> I!Filling)
    BY <1>1, <1>8, <1>10 DEF Trusted, TornInv, I!Replaced, I!Filling
  <2> QED BY <1>1, <1>4, <2>1, <2>2 DEF KeptInv
<1> QED BY <1>5, <1>6, <1>7, <1>11, <1>12 DEF StoreInv

\* A save has read a, the file or nothing, and is about to write what it makes of it.
LEMMA ComputeKeeps ==
    ASSUME StoreConstants, StoreInv, NEW s \in Writers, pc[s] = "read", NEW a \in [Entries -> I!Values \union {Nil}],
           Trusted' => a = file.at,
           pc' = [pc EXCEPT ![s] = "write"], cfg' = [cfg EXCEPT ![s] = I!New(s, a)],
           UNCHANGED <<store, file, op, lock, acked, got>>, mishaps' \in 0..MaxMishaps, mishaps' >= mishaps
    PROVE  StoreInv'
<1>1. I!TypeOK /\ KindInv /\ LockInv /\ TornInv /\ KeptInv
  BY DEF StoreInv
<1>2. /\ pc \in [Writers -> {"new", "lock", "read", "write", "fill", "done"}] /\ lock \in Writers \union {Nil} /\ mishaps \in Nat
      /\ cfg \in [Writers -> [Entries -> I!Values \union {Nil}]]
  BY <1>1 DEF I!TypeOK, StoreConstants
<1>3. /\ pc'[s] = "write" /\ \A r \in Writers : r # s => pc'[r] = pc[r]
      /\ cfg'[s] = I!New(s, a) /\ \A r \in Writers : r # s => cfg'[r] = cfg[r]
  BY <1>2
<1>4. /\ I!New(s, a) \in [Entries -> I!Values \union {Nil}]
      /\ \A k \in Entries : k \notin op[s].keys => I!New(s, a)[k] = a[k]
  BY <1>1, NewKeeps DEF KindInv
<1>5. I!TypeOK'
  <2>1. cfg' \in [Writers -> [Entries -> I!Values \union {Nil}]] /\ pc' \in [Writers -> {"new", "lock", "read", "write", "fill", "done"}]
    BY <1>2, <1>4
  <2> QED BY <1>1, <2>1 DEF I!TypeOK, I!Values
<1>6. KindInv' /\ LockInv'
  BY <1>1, <1>3 DEF KindInv, LockInv, Busy
<1>7. I!Filling' <=> I!Filling
  BY <1>3 DEF I!Filling
<1>8. mishaps' = 0 => mishaps = 0
  BY <1>2 DEF StoreConstants
<1>9. TornInv'
  BY <1>1, <1>7, <1>8 DEF TornInv
<1>10. KeptInv'
  <2>1. Trusted' => Trusted
    BY <1>8 DEF Trusted
  <2>2. Trusted' => a = acked
    BY <2>1, AloneAtFile
  <2>3. Trusted' => \A k \in Entries : k \notin op[s].keys => cfg'[s][k] = acked[k]
    BY <1>3, <1>4, <2>2
  <2> QED BY <1>1, <1>3, <1>7, <2>1, <2>3 DEF KeptInv
<1> QED BY <1>5, <1>6, <1>9, <1>10 DEF StoreInv

\* The file gets what a save was to write, and the save is acknowledged.
LEMMA WrittenKeeps ==
    ASSUME StoreConstants, StoreInv, NEW s \in Writers, pc[s] \in {"write", "fill"},
           file' = [state |-> "whole", at |-> cfg[s]], I!Acknowledge(s), I!Done(s),
           UNCHANGED <<store, op, cfg, got, mishaps>>
    PROVE  StoreInv'
<1>1. I!TypeOK /\ KindInv /\ LockInv /\ TornInv /\ KeptInv
  BY DEF StoreInv
<1>2. pc' = [pc EXCEPT ![s] = "done"] /\ lock' = IF lock = s THEN Nil ELSE lock
  BY DEF I!Done, I!Release
<1>3. /\ pc \in [Writers -> {"new", "lock", "read", "write", "fill", "done"}] /\ lock \in Writers \union {Nil}
      /\ cfg[s] \in [Entries -> I!Values \union {Nil}] /\ acked \in [Entries -> I!Values \union {Nil}]
  BY <1>1 DEF I!TypeOK
<1>4. pc'[s] = "done" /\ \A r \in Writers : r # s => pc'[r] = pc[r]
  BY <1>2, <1>3
<1>5. /\ file'.at = cfg[s] /\ file'.state = "whole"
      /\ file' \in [state : {"absent", "torn", "whole"}, at : [Entries -> I!Values \union {Nil}]]
  BY <1>3
<1>6. /\ acked' \in [Entries -> I!Values \union {Nil}]
      /\ \A k \in Entries : acked'[k] = IF k \in op[s].keys THEN cfg[s][k] ELSE acked[k]
  BY <1>3 DEF I!Acknowledge
<1>7. I!TypeOK'
  BY <1>1, <1>2, <1>3, <1>4, <1>5, <1>6 DEF I!TypeOK, I!Values
<1>8. KindInv' /\ LockInv'
  BY <1>1, <1>2, <1>4 DEF KindInv, LockInv, Busy
<1>9. I!Filling' => I!Filling
  BY <1>4 DEF I!Filling
<1>10. TornInv'
  BY <1>1, <1>5, <1>9 DEF TornInv
<1>11. KeptInv'
  <2> SUFFICES ASSUME Trusted' PROVE KeptInv'
    BY DEF KeptInv
  <2>1. Trusted /\ store \in I!Locked
    BY DEF Trusted, I!Locked
  <2>2. \A k \in Entries : k \notin op[s].keys => cfg[s][k] = acked[k]
    BY <1>1, <2>1 DEF KeptInv
  <2>3. \A k \in Entries : acked'[k] = cfg[s][k]
    BY <1>6, <2>2
  <2>4. file'.at = acked'
    BY <1>3, <1>5, <1>6, <2>3
  <2>5. \A r \in Writers : pc'[r] \notin {"write", "fill"}
    BY <1>1, <1>4, <2>1 DEF LockInv, Busy
  <2> QED BY <2>4, <2>5 DEF KeptInv
<1> QED BY <1>7, <1>8, <1>10, <1>11 DEF StoreInv

\* A file that is written in place is emptied first.
LEMMA TruncateKeeps == ASSUME StoreConstants, StoreInv, NEW s \in Writers, I!Truncate(s) PROVE StoreInv'
<1>1. I!TypeOK /\ KindInv /\ LockInv /\ TornInv /\ KeptInv
  BY DEF StoreInv
<1>2. /\ pc[s] = "write" /\ store \notin I!Replaced /\ pc' = [pc EXCEPT ![s] = "fill"]
      /\ file' = [state |-> "torn", at |-> I!Empty] /\ UNCHANGED <<store, op, cfg, lock, acked, got, mishaps>>
  BY DEF I!Truncate
<1>3. pc \in [Writers -> {"new", "lock", "read", "write", "fill", "done"}]
  BY <1>1 DEF I!TypeOK
<1>4. pc'[s] = "fill" /\ \A r \in Writers : r # s => pc'[r] = pc[r]
  BY <1>2, <1>3
<1>5. file' \in [state : {"absent", "torn", "whole"}, at : [Entries -> I!Values \union {Nil}]]
  BY <1>2 DEF I!Empty
<1>6. pc' \in [Writers -> {"new", "lock", "read", "write", "fill", "done"}]
  BY <1>2, <1>3
<1>7. I!TypeOK'
  BY <1>1, <1>2, <1>5, <1>6 DEF I!TypeOK, I!Values
<1>8. KindInv' /\ LockInv'
  BY <1>1, <1>2, <1>4 DEF KindInv, LockInv, Busy
<1>9. I!Filling'
  BY <1>4 DEF I!Filling
<1>10. TornInv'
  BY <1>1, <1>2, <1>9 DEF TornInv, I!Replaced
<1>11. KeptInv'
  BY <1>1, <1>2, <1>4, <1>9 DEF KeptInv, Trusted
<1> QED BY <1>7, <1>8, <1>10, <1>11 DEF StoreInv

\* The file is loaded.
LEMMA LoadKeeps == ASSUME StoreConstants, StoreInv, NEW l \in Loads, I!Load(l) PROVE StoreInv'
<1>1. I!TypeOK /\ KindInv /\ LockInv /\ TornInv /\ KeptInv
  BY DEF StoreInv
<1>2. /\ got' = [got EXCEPT ![l] = IF file.state = "torn" THEN "defaults" ELSE "stored"]
      /\ UNCHANGED <<store, file, pc, op, cfg, lock, acked, mishaps>>
  BY DEF I!Load
<1>3. got \in [Loads -> {"nothing", "stored", "defaults"}]
  BY <1>1 DEF I!TypeOK
<1>4. /\ got' \in [Loads -> {"nothing", "stored", "defaults"}]
      /\ got'[l] = (IF file.state = "torn" THEN "defaults" ELSE "stored") /\ \A m \in Loads : m # l => got'[m] = got[m]
  BY <1>2, <1>3
<1>5. I!TypeOK'
  BY <1>1, <1>2, <1>4 DEF I!TypeOK, I!Values
<1>6. I!Filling' <=> I!Filling
  BY <1>2 DEF I!Filling
<1>7. TornInv'
  <2>1. store \in {"tokens", "hook"} => file.state # "torn"
    BY <1>1 DEF TornInv, I!Replaced
  <2> QED BY <1>1, <1>2, <1>4, <1>6, <2>1 DEF TornInv
<1>8. KindInv' /\ LockInv' /\ KeptInv'
  BY <1>1, <1>2, <1>6 DEF KindInv, LockInv, KeptInv, Trusted
<1> QED BY <1>5, <1>7, <1>8 DEF StoreInv

\* The process ends.
LEMMA EndKeeps == ASSUME StoreConstants, StoreInv, I!Crash PROVE StoreInv'
<1>1. I!TypeOK /\ KindInv /\ LockInv /\ TornInv /\ KeptInv
  BY DEF StoreInv
<1>2. /\ mishaps < MaxMishaps /\ mishaps' = mishaps + 1 /\ lock' = Nil
      /\ pc' = [s \in Writers |-> IF pc[s] = "new" THEN "new" ELSE "done"]
      /\ UNCHANGED <<store, file, op, cfg, acked, got>>
  BY DEF I!Crash
<1>3. mishaps \in 0..MaxMishaps /\ MaxMishaps \in Nat
  BY <1>1 DEF I!TypeOK, StoreConstants
<1>4. mishaps' \in 0..MaxMishaps /\ mishaps' # 0
  BY <1>2, <1>3
<1>5. I!TypeOK'
  BY <1>1, <1>2, <1>4 DEF I!TypeOK, I!Values
<1>6. ~I!Filling'
  BY <1>2 DEF I!Filling
<1>7. KindInv' /\ LockInv' /\ TornInv'
  BY <1>1, <1>2, <1>4, <1>6 DEF KindInv, LockInv, TornInv, Busy
<1>8. KeptInv'
  <2> SUFFICES ASSUME Trusted' PROVE KeptInv'
    BY DEF KeptInv
  <2>1. store = "tokens"
    BY <1>2, <1>4 DEF Trusted
  <2>2. Trusted /\ ~I!Filling
    BY <1>1, <2>1 DEF Trusted, TornInv, I!Replaced
  <2> QED BY <1>1, <1>2, <2>2 DEF KeptInv
<1> QED BY <1>5, <1>7, <1>8 DEF StoreInv

\* Every step keeps the invariant.
LEMMA StoreSteps == StoreConstants /\ StoreInv /\ [I!Next]_(I!vars) => StoreInv'
<1> SUFFICES ASSUME StoreConstants, StoreInv, [I!Next]_(I!vars) PROVE StoreInv'
  OBVIOUS
<1>1. I!TypeOK /\ LockInv /\ TornInv /\ mishaps \in 0..MaxMishaps /\ MaxMishaps \in Nat
  BY DEF StoreInv, I!TypeOK, StoreConstants
<1>2. file.at \in [Entries -> I!Values \union {Nil}] /\ I!Empty \in [Entries -> I!Values \union {Nil}]
  BY <1>1 DEF I!TypeOK, I!Empty
<1>3. ASSUME NEW s \in Writers, I!Read(s) PROVE StoreInv'
  <2>1. CASE I!Hits(s, file.at)
    BY <1>1, <1>2, <1>3, <2>1, ComputeKeeps DEF I!Read
  <2>2. CASE ~I!Hits(s, file.at)
    BY <1>1, <1>3, <2>2, LeavingKeeps DEF I!Read, Busy
  <2> QED BY <2>1, <2>2
<1>4. ASSUME NEW s \in Writers, I!ReadFails(s) PROVE StoreInv'
  <2>1. I!Unreadable(s) /\ pc[s] = "read" /\ mishaps' \in 0..MaxMishaps /\ mishaps' >= mishaps
    BY <1>1, <1>4 DEF I!ReadFails, I!LenientRead, I!Unreadable
  <2>2. CASE store \in I!Strict
    BY <1>4, <2>1, <2>2, LeavingKeeps DEF I!ReadFails, Busy
  <2>3. CASE store \notin I!Strict
    <3>1. ~Trusted'
      <4>1. store # "tokens" /\ store' = store
        BY <1>4, <2>3 DEF I!ReadFails, I!LenientRead, I!Strict
      <4>2. CASE file.state = "torn" /\ store \in I!Locked
        <5>1. ~I!Filling
          BY <1>1, <2>1, <4>2 DEF LockInv, I!Filling, Busy
        <5>2. mishaps # 0
          BY <1>1, <4>2, <5>1 DEF TornInv
        <5> QED BY <1>1, <2>1, <4>1, <5>2 DEF Trusted
      <4>3. CASE mishaps' = mishaps + 1
        BY <1>1, <4>1, <4>3 DEF Trusted
      <4> QED BY <2>1, <4>1, <4>2, <4>3 DEF I!Unreadable, Trusted
    <3> QED BY <1>2, <1>4, <2>1, <2>3, <3>1, ComputeKeeps DEF I!ReadFails, I!LenientRead
  <2> QED BY <2>2, <2>3
<1>5. ASSUME NEW s \in Writers, I!RefuseJunk(s) PROVE StoreInv'
  BY <1>1, <1>5, LeavingKeeps DEF I!RefuseJunk, Busy
<1>6. ASSUME NEW s \in Writers, I!WriteFails(s) PROVE StoreInv'
  BY <1>1, <1>6, LeavingKeeps DEF I!WriteFails, Busy
<1>7. ASSUME NEW s \in Writers, I!Replace(s) \/ I!Fill(s) PROVE StoreInv'
  BY <1>7, WrittenKeeps DEF I!Replace, I!Fill
<1>8. CASE UNCHANGED I!vars
  BY <1>8 DEF I!vars, StoreInv, I!TypeOK, KindInv, LockInv, TornInv, KeptInv, Trusted, I!Filling, I!Values
<1> QED BY <1>3, <1>4, <1>5, <1>6, <1>7, <1>8, BeginKeeps, LockKeeps, TruncateKeeps, LoadKeeps, EndKeeps DEF I!Next, I!Save

\* The invariant holds of every store (device_tokens, event_webhook, push_notify, zones_config,
\* vmaf_target).
THEOREM StoresAreInductive == StoreConstants => (I!Spec => []StoreInv)
<1> SUFFICES ASSUME StoreConstants PROVE I!Spec => []StoreInv
  OBVIOUS
<1>1. I!Init => StoreInv
  BY StoresStart
<1>2. StoreInv /\ [I!Next]_(I!vars) => StoreInv'
  BY StoreSteps
<1> QED BY <1>1, <1>2, PTL DEF I!Spec

\* When MCKept runs the state files, it does what they do.
LEMMA StoresRun == StoreConstants => (KeptSpec => [](which = "files" => StoreInv))
<1> SUFFICES ASSUME StoreConstants PROVE KeptSpec => [](which = "files" => StoreInv)
  OBVIOUS
<1>1. KeptInit => (which = "files" => StoreInv)
  BY StoresStart DEF KeptInit
<1>2. UNCHANGED storeVars => UNCHANGED I!vars
  BY DEF storeVars, I!vars
<1>3. (which = "files" => StoreInv) /\ [KeptNext]_keptVars => (which = "files" => StoreInv)'
  BY <1>2, StoreSteps DEF KeptNext, RunVault, RunFiles, RunSetup, RunConfig, RunUsage,
         RunRtsp, RunSampler, RunEnhancer, keptVars
<1> QED BY <1>1, <1>3, PTL DEF KeptSpec

\* No save undoes another, no fault loses a paired device, no reader of the webhook's settings or
\* of the tokens meets a half-written file, and no save keeps its lock.
THEOREM SavesAreKept == StoreConstants => (KeptSpec => []SavesKept)
<1> SUFFICES ASSUME StoreConstants PROVE KeptSpec => []SavesKept
  OBVIOUS
<1>1. (which = "files" => StoreInv) => SavesKept
  <2> SUFFICES ASSUME StoreInv PROVE I!TypeOK /\ I!SavesKept /\ I!DevicesKept /\ I!LoadsWhole /\ I!LockGivenBack
    BY DEF SavesKept
  <2>1. I!TypeOK /\ LockInv /\ TornInv /\ KeptInv
    BY DEF StoreInv
  <2>2. I!SavesKept
    BY <2>1 DEF I!SavesKept, KeptInv, Trusted
  <2>3. I!DevicesKept
    BY <2>1 DEF I!DevicesKept, KeptInv, Trusted, TornInv, I!Replaced
  <2>4. I!LoadsWhole /\ I!LockGivenBack
    BY <2>1 DEF I!LoadsWhole, I!LockGivenBack, TornInv, LockInv, Busy
  <2> QED BY <2>1, <2>2, <2>3, <2>4
<1> QED BY <1>1, StoresRun, PTL

-----------------------------------------------------------------------------
(* Setup *)

\* The bound on the writes that fail is a number.
SetupConstants == MaxSlips \in Nat

\* A copy of the settings has all of them.
IsCopy(c) ==
    c = [output_dir |-> c.output_dir, encrypted_dir |-> c.encrypted_dir, library_folder |-> c.library_folder,
         autocompress |-> c.autocompress, retention |-> c.retention, setup_complete |-> c.setup_complete,
         demo |-> c.demo]

\* The destination of a copy is a local folder, or one that was chosen.
Destined(c) == S!Absolute(c.output_dir) => c.output_dir \in chosen \union {S!VideosDir}

\* A restart would find the destination that memory holds.
Agrees(c) ==
    /\ c.output_dir = config.output_dir /\ c.encrypted_dir = config.encrypted_dir
    /\ c.setup_complete = config.setup_complete
    /\ c.library_folder \in {config.library_folder, S!Unset} /\ c.autocompress \in {config.autocompress, S!Unset}
    /\ c.retention \in {config.retention, S!Unset} /\ c.demo \in {config.demo, S!Unset}

\* The inductive invariant: it holds of memory, of the file and of what is being written.
SetupInv ==
    /\ slips \in Nat
    /\ IsCopy(config) /\ Destined(config)
    /\ IsCopy(saved.copy) /\ Destined(saved.copy)
    /\ \A c \in writing : IsCopy(c) /\ Destined(c)
    /\ slips = 0 => /\ \A c \in writing : c = config
                    /\ writing = {} => Agrees(saved.copy)

\* A set of numbers has a least one.
LEMMA LeastNumber ==
    ASSUME NEW T \in SUBSET Nat, T # {}
    PROVE  \E x \in T : \A y \in T : x <= y
<1> DEFINE Less == OpToRel(<, Nat)
<1>1. IsWellFoundedOn(Less, Nat)
  BY NatLessThanWellFounded
<1>2. \A x, y \in Nat : x < y => <<x, y>> \in Less
  BY DEF OpToRel
<1> HIDE DEF Less
<1>3. PICK x \in T : \A y \in T : ~(<<y, x>> \in Less)
  BY <1>1, WFMin
<1>4. \A y \in T : ~(y < x)
  BY <1>2, <1>3
<1>5. x \in Nat /\ \A y \in T : y \in Nat
  OBVIOUS
<1> QED BY <1>4, <1>5

\* What is found is one of the candidates.
LEMMA FirstIsOne ==
    ASSUME NEW n \in Nat, NEW candidates, DOMAIN candidates = 1..n
    PROVE  S!FirstOf(candidates) = S!Unset \/ \E i \in 1..n : S!FirstOf(candidates) = candidates[i]
<1> DEFINE found == {i \in DOMAIN candidates : candidates[i] \in there}
<1>1. CASE found = {}
  BY <1>1 DEF S!FirstOf
<1>2. CASE found # {}
  <2>1. found \in SUBSET Nat
    OBVIOUS
  <2>2. \E x \in found : \A y \in found : x <= y
    BY <1>2, <2>1, LeastNumber
  <2>3. S!Min(found) \in found
    BY <2>2 DEF S!Min
  <2> QED BY <1>2, <2>3 DEF S!FirstOf
<1> QED BY <1>1, <1>2

\* No cloud folder is among the local ones.
LEMMA LocalIsNoCloud == S!VideosDir \notin S!Clouds /\ S!Absolute(S!VideosDir)
<1> DEFINE Local == {"Videos", "Movies", "Documents/Videos", "home"}
<1>1. S!VideosDir \in Local
  <2>1. S!FirstOf(<<"Videos", "Movies", "Documents/Videos">>) \in {S!Unset, "Videos", "Movies", "Documents/Videos"}
    <3> DEFINE these == <<"Videos", "Movies", "Documents/Videos">>
    <3>1. DOMAIN these = 1..3 /\ \A i \in 1..3 : these[i] \in {"Videos", "Movies", "Documents/Videos"}
      OBVIOUS
    <3> HIDE DEF these
    <3>2. S!FirstOf(these) \in {S!Unset, "Videos", "Movies", "Documents/Videos"}
      BY <3>1, FirstIsOne
    <3> QED BY <3>2 DEF these
  <2> QED BY <2>1 DEF S!VideosDir
<1>2. \A prefer \in BOOLEAN : S!OneDrive(prefer) \notin Local
  <2> DEFINE names == {"registry business", "registry personal", "home OneDrive - org", "home OneDrive", "home OneDrive other"}
             these == <<"registry business", "registry personal", "home OneDrive - org", "home OneDrive", "home OneDrive other">>
             those == <<"registry personal", "registry business", "home OneDrive", "home OneDrive - org", "home OneDrive other">>
  <2>1. DOMAIN these = 1..5 /\ \A i \in 1..5 : these[i] \in names
    OBVIOUS
  <2>2. DOMAIN those = 1..5 /\ \A i \in 1..5 : those[i] \in names
    OBVIOUS
  <2> HIDE DEF these, those
  <2>3. S!FirstOf(these) \in names \union {S!Unset} /\ S!FirstOf(those) \in names \union {S!Unset}
    BY <2>1, <2>2, FirstIsOne
  <2>4. \A prefer \in BOOLEAN : S!OneDrive(prefer) = S!FirstOf(these) \/ S!OneDrive(prefer) = S!FirstOf(those)
    BY DEF S!OneDrive, these, those
  <2> QED BY <2>3, <2>4 DEF S!Unset
<1>3. S!GDrive \notin Local
  <2> DEFINE these == <<"registry My Drive", "registry mount", "drive My Drive", "drive",
                        "home Google Drive/My Drive", "home Google Drive", "home My Drive", "CloudStorage My Drive">>
  <2>1. DOMAIN these = 1..8 /\ \A i \in 1..8 : these[i] \notin Local
    OBVIOUS
  <2> HIDE DEF these
  <2>2. S!FirstOf(these) \notin Local
    BY <2>1, FirstIsOne DEF S!Unset
  <2> QED BY <2>2 DEF S!GDrive, these
<1>4. S!ICloud \notin Local
  <2> DEFINE these == <<"CloudDocs", "iCloudDrive", "iCloud Drive">>
  <2>1. DOMAIN these = 1..3 /\ \A i \in 1..3 : these[i] \notin Local
    OBVIOUS
  <2> HIDE DEF these
  <2>2. S!FirstOf(these) \notin Local
    BY <2>1, FirstIsOne DEF S!Unset
  <2> QED BY <2>2 DEF S!ICloud, these
<1> QED BY <1>1, <1>2, <1>3, <1>4 DEF S!Clouds, S!Absolute, S!Unset

\* The settings that change together.
Named(c, dir, done, e)    == [c EXCEPT !.output_dir = dir, !.setup_complete = done, !.encrypted_dir = e]
Forgotten(c, dir, e, done) == [c EXCEPT !.output_dir = dir, !.encrypted_dir = e, !.setup_complete = done]
Begun(c, dir, done, d)    == [c EXCEPT !.output_dir = dir, !.setup_complete = done, !.demo = d]
SameRest(a, b) ==
    /\ a.library_folder = b.library_folder /\ a.autocompress = b.autocompress
    /\ a.retention = b.retention /\ a.demo = b.demo

\* They change one after the other.
LEMMA ThreeChange ==
    ASSUME NEW c, IsCopy(c), NEW dir, NEW e, NEW done
    PROVE  /\ IsCopy(Named(c, dir, done, e)) /\ SameRest(Named(c, dir, done, e), c)
           /\ Named(c, dir, done, e).output_dir = dir
           /\ IsCopy(Forgotten(c, dir, e, done)) /\ SameRest(Forgotten(c, dir, e, done), c)
           /\ Forgotten(c, dir, e, done).output_dir = dir /\ Forgotten(c, dir, e, done).encrypted_dir = e
           /\ Forgotten(c, dir, e, done).setup_complete = done
           /\ IsCopy(Begun(c, dir, done, e)) /\ Begun(c, dir, done, e).output_dir = dir
<1> DEFINE one   == [c EXCEPT !.output_dir = dir]
           two   == [one EXCEPT !.setup_complete = done]
           three == [two EXCEPT !.encrypted_dir = e]
           other == [one EXCEPT !.encrypted_dir = e]
           last3 == [other EXCEPT !.setup_complete = done]
           demo3 == [two EXCEPT !.demo = e]
<1>1. IsCopy(one) /\ one.output_dir = dir /\ SameRest(one, c)
  BY DEF IsCopy, SameRest
<1>2. three = Named(c, dir, done, e) /\ last3 = Forgotten(c, dir, e, done) /\ demo3 = Begun(c, dir, done, e)
  BY DEF Named, Forgotten, Begun
<1> HIDE DEF one
<1>3. IsCopy(two) /\ two.output_dir = dir /\ two.setup_complete = done /\ SameRest(two, c)
  BY <1>1 DEF IsCopy, SameRest
<1>4. IsCopy(other) /\ other.output_dir = dir /\ other.encrypted_dir = e /\ SameRest(other, c)
  BY <1>1 DEF IsCopy, SameRest
<1> HIDE DEF two, other
<1>5. /\ IsCopy(three) /\ three.output_dir = dir /\ three.setup_complete = done /\ three.encrypted_dir = e
      /\ SameRest(three, c)
  BY <1>3 DEF IsCopy, SameRest
<1>6. /\ IsCopy(last3) /\ last3.output_dir = dir /\ last3.setup_complete = done /\ last3.encrypted_dir = e
      /\ SameRest(last3, c)
  BY <1>4 DEF IsCopy, SameRest
<1>7. IsCopy(demo3) /\ demo3.output_dir = dir
  BY <1>3 DEF IsCopy, SameRest
<1> HIDE DEF three, last3, demo3
<1> QED BY <1>2, <1>5, <1>6, <1>7

LEMMA SetupStarts == SetupConstants /\ S!Init => SetupInv
<1> SUFFICES ASSUME SetupConstants, S!Init PROVE SetupInv
  OBVIOUS
<1>1. IsCopy(S!Blank) /\ Destined(S!Blank) /\ S!NoFile.copy = S!Blank
  BY DEF S!Blank, IsCopy, Destined, S!Absolute, S!NoFile
<1>2. S!Blank = config /\ saved.copy = config /\ writing = {} /\ slips = 0
  BY <1>1 DEF S!Init
<1> QED BY <1>1, <1>2 DEF SetupInv, Agrees

\* Where local files go does not change with the settings.
LEMMA LocalStays == there' = there => S!VideosDir' = S!VideosDir
  BY DEF S!VideosDir, S!FirstOf

\* A change in memory that is saved: what is written is what memory holds.
LEMMA SavedChange ==
    ASSUME SetupInv, NEW new, IsCopy(new), S!Absolute(new.output_dir) => new.output_dir \in chosen' \union {S!VideosDir},
           config' = new, writing' = {new}, saved' = saved, slips' = slips, there' = there, chosen \subseteq chosen'
    PROVE  SetupInv'
<1>1. S!VideosDir' = S!VideosDir
  BY LocalStays
<1>2. IsCopy(new)' /\ Destined(new)' /\ IsCopy(saved.copy)' /\ Destined(saved.copy)'
  BY <1>1 DEF SetupInv, Destined, IsCopy
<1> QED BY <1>2 DEF SetupInv, IsCopy, Destined

LEMMA SetupSteps == SetupConstants /\ SetupInv /\ [S!Next]_(S!vars) => SetupInv'
<1> SUFFICES ASSUME SetupConstants, SetupInv, [S!Next]_(S!vars) PROVE SetupInv'
  OBVIOUS
<1>1. IsCopy(S!Blank) /\ Destined(S!Blank) /\ S!NoFile.copy = S!Blank /\ S!Torn.copy = S!Blank
  BY DEF S!Blank, IsCopy, Destined, S!Absolute, S!NoFile, S!Torn
<1>2. CASE S!Choose
  <2>1. PICK dir \in S!Destinations \union Custom :
            \E e \in {S!Unset} \union Custom :
               /\ S!Saves([config EXCEPT !.output_dir = dir, !.setup_complete = TRUE,
                                         !.encrypted_dir = IF e = S!Unset THEN dir ELSE e])
               /\ chosen' = chosen \union {dir}
    BY <1>2 DEF S!Choose
  <2>2. PICK e \in {S!Unset} \union Custom :
               /\ S!Saves([config EXCEPT !.output_dir = dir, !.setup_complete = TRUE,
                                         !.encrypted_dir = IF e = S!Unset THEN dir ELSE e])
               /\ chosen' = chosen \union {dir}
    BY <2>1
  <2> DEFINE new == [config EXCEPT !.output_dir = dir, !.setup_complete = TRUE,
                                   !.encrypted_dir = IF e = S!Unset THEN dir ELSE e]
  <2>3. IsCopy(new) /\ new.output_dir = dir
    <3>1. IsCopy(config)
      BY DEF SetupInv
    <3>2. PICK done, ed : done = TRUE /\ ed = IF e = S!Unset THEN dir ELSE e
      OBVIOUS
    <3>3. new = Named(config, dir, done, ed)
      BY <3>2 DEF Named
    <3> HIDE DEF new
    <3> QED BY <3>1, <3>3, ThreeChange
  <2>4. config' = new /\ writing' = {new}
    BY <2>2 DEF S!Saves
  <2>5. saved' = saved /\ slips' = slips /\ there' = there
    BY <1>2 DEF S!Choose
  <2>6. dir \in chosen' /\ chosen \subseteq chosen'
    BY <2>2
  <2> HIDE DEF new
  <2> QED BY <2>3, <2>4, <2>5, <2>6, SavedChange
<1>3. CASE S!Configure
  <2>1. PICK p \in Policies : S!Saves([config EXCEPT !.autocompress = p]) \/ S!Saves([config EXCEPT !.retention = p])
    BY <1>3 DEF S!Configure
  <2> DEFINE a == [config EXCEPT !.autocompress = p]
             b == [config EXCEPT !.retention = p]
  <2>2. IsCopy(a) /\ a.output_dir = config.output_dir /\ IsCopy(b) /\ b.output_dir = config.output_dir
    BY DEF SetupInv, IsCopy
  <2>3. (config' = a /\ writing' = {a}) \/ (config' = b /\ writing' = {b})
    BY <2>1 DEF S!Saves
  <2>4. S!Absolute(config.output_dir) => config.output_dir \in chosen \union {S!VideosDir}
    BY DEF SetupInv, Destined
  <2> HIDE DEF a, b
  <2> QED BY <1>3, <2>2, <2>3, <2>4, SavedChange DEF S!Configure
<1>4. CASE S!Browse
  <2>1. PICK dir \in Custom :
           LET new == [config EXCEPT !.library_folder = dir]
           IN  config' = new /\ writing' = IF new = config THEN {} ELSE {new}
    BY <1>4 DEF S!Browse
  <2> DEFINE new == [config EXCEPT !.library_folder = dir]
  <2>2. IsCopy(new) /\ new.output_dir = config.output_dir
    BY DEF SetupInv, IsCopy
  <2>3. S!Absolute(config.output_dir) => config.output_dir \in chosen \union {S!VideosDir}
    BY DEF SetupInv, Destined
  <2>4. config' = new /\ writing' = IF new = config THEN {} ELSE {new}
    BY <2>1
  <2>5. saved' = saved /\ slips' = slips /\ there' = there /\ chosen' = chosen /\ writing = {}
    BY <1>4 DEF S!Browse, S!Ready
  <2> HIDE DEF new
  <2>6. CASE new = config
    <3>1. config' = config /\ writing' = writing
      BY <2>4, <2>5, <2>6
    <3> QED BY <2>5, <3>1, LocalStays DEF SetupInv, IsCopy, Destined, Agrees, S!Absolute, S!Unset
  <2>7. CASE new # config
    BY <2>2, <2>3, <2>4, <2>5, <2>7, SavedChange
  <2> QED BY <2>6, <2>7
<1>5. CASE S!RunStarts
  <2>1. PICK dir \in {S!Default} \union Custom :
          /\ S!Saves([S!Blank EXCEPT !.output_dir = dir, !.setup_complete = config.setup_complete, !.demo = config.demo])
          /\ chosen' = chosen \union (Custom \intersect {dir})
    BY <1>5 DEF S!RunStarts
  <2> DEFINE new == [S!Blank EXCEPT !.output_dir = dir, !.setup_complete = config.setup_complete, !.demo = config.demo]
  <2>2. IsCopy(new) /\ new.output_dir = dir
    <3>1. new = Begun(S!Blank, dir, config.setup_complete, config.demo)
      BY DEF Begun
    <3> HIDE DEF new
    <3> QED BY <1>1, <3>1, ThreeChange
  <2>3. config' = new /\ writing' = {new}
    BY <2>1 DEF S!Saves
  <2>4. dir \in chosen' \union {S!VideosDir}
    <3>1. CASE dir \in Custom
      BY <2>1, <3>1
    <3>2. CASE dir = S!Default
      <4>1. S!Default \in chosen \union {S!VideosDir}
        BY DEF S!Default, S!DefaultOf, SetupInv, Destined
      <4> QED BY <2>1, <3>2, <4>1
    <3> QED BY <3>1, <3>2
  <2>5. saved' = saved /\ slips' = slips /\ there' = there
    BY <1>5 DEF S!RunStarts
  <2>6. chosen \subseteq chosen'
    BY <2>1
  <2>7. S!Absolute(new.output_dir) => new.output_dir \in chosen' \union {S!VideosDir}
    BY <2>2, <2>4
  <2> HIDE DEF new
  <2> QED BY <2>2, <2>3, <2>5, <2>6, <2>7, SavedChange
<1>6. CASE S!DemoStarts
  <2>1. PICK dir \in {S!Default} \union Custom : S!Saves([config EXCEPT !.demo = dir])
    BY <1>6 DEF S!DemoStarts
  <2> DEFINE new == [config EXCEPT !.demo = dir]
  <2>2. IsCopy(new) /\ new.output_dir = config.output_dir
    BY DEF SetupInv, IsCopy
  <2>3. config' = new /\ writing' = {new}
    BY <2>1 DEF S!Saves
  <2>4. S!Absolute(config.output_dir) => config.output_dir \in chosen \union {S!VideosDir}
    BY DEF SetupInv, Destined
  <2> HIDE DEF new
  <2> QED BY <1>6, <2>2, <2>3, <2>4, SavedChange DEF S!DemoStarts
<1>7. CASE S!Write
  <2>1. PICK c \in writing : (saved' = S!Whole(c) /\ slips' = slips) \/ (slips' = slips + 1 /\ saved' = S!Torn)
    BY <1>7 DEF S!Write
  <2>2. writing' = {} /\ there' = there /\ config' = config /\ chosen' = chosen
    BY <1>7 DEF S!Write
  <2>3. S!VideosDir' = S!VideosDir
    BY <2>2, LocalStays
  <2>4. CASE saved' = S!Whole(c) /\ slips' = slips
    <3>1. saved'.copy = c
      BY <2>4 DEF S!Whole
    <3>2. slips = 0 => c = config
      BY DEF SetupInv
    <3> QED BY <2>2, <2>3, <2>4, <3>1, <3>2 DEF SetupInv, IsCopy, Destined, Agrees
  <2>5. CASE slips' = slips + 1 /\ saved' = S!Torn
    <3>1. saved'.copy = S!Blank /\ slips' \in Nat /\ slips' # 0
      BY <1>1, <2>5 DEF SetupInv
    <3> QED BY <1>1, <2>2, <2>3, <3>1 DEF SetupInv, IsCopy, Destined, S!Blank, S!Absolute, S!Unset
  <2> QED BY <2>1, <2>4, <2>5
<1>8. CASE S!Reset
  <2> DEFINE new == [config EXCEPT !.output_dir = S!Unset, !.encrypted_dir = S!Unset, !.setup_complete = FALSE]
  <2>1. /\ IsCopy(new) /\ new.output_dir = S!Unset /\ new.encrypted_dir = S!Unset
        /\ new.setup_complete = FALSE
    <3>1. IsCopy(config)
      BY DEF SetupInv
    <3>2. PICK done : done = FALSE
      OBVIOUS
    <3>3. new = Forgotten(config, S!Unset, S!Unset, done)
      BY <3>2 DEF Forgotten
    <3> HIDE DEF new
    <3> QED BY <3>1, <3>2, <3>3, ThreeChange
  <2>2. config' = new /\ writing' = {} /\ there' = there
    BY <1>1, <1>8 DEF S!Reset, S!Ready
  <2> HIDE DEF new
  <2>3. CASE S!StateFileStays
    <3>1. saved' = saved /\ chosen' = chosen /\ slips' \in Nat /\ slips' # 0
      BY <2>3 DEF S!StateFileStays, SetupInv
    <3>2. IsCopy(config)' /\ Destined(config)' /\ IsCopy(saved.copy)' /\ Destined(saved.copy)'
      BY <2>1, <2>2, <3>1, LocalStays DEF SetupInv, IsCopy, Destined, S!Absolute
    <3> QED BY <2>2, <3>1, <3>2 DEF SetupInv
  <2>4. CASE saved'.copy = S!Blank /\ chosen' = {} /\ slips' = slips
    <3>1. IsCopy(config)' /\ Destined(config)' /\ IsCopy(saved.copy)' /\ Destined(saved.copy)'
      BY <1>1, <2>1, <2>2, <2>4 DEF IsCopy, Destined, S!Absolute, S!Blank
    <3>2. Agrees(saved.copy)'
      <4>1. /\ S!Blank.output_dir = S!Unset /\ S!Blank.encrypted_dir = S!Unset /\ S!Blank.setup_complete = FALSE
            /\ S!Blank.library_folder = S!Unset /\ S!Blank.autocompress = S!Unset
            /\ S!Blank.retention = S!Unset /\ S!Blank.demo = S!Unset
        BY DEF S!Blank
      <4> QED BY <2>1, <2>2, <2>4, <4>1 DEF Agrees
    <3> QED BY <2>2, <2>4, <3>1, <3>2 DEF SetupInv
  <2> QED BY <1>1, <1>8, <2>3, <2>4 DEF S!Reset
<1>9. CASE S!Restart
  <2>1. /\ config' = saved'.copy /\ writing' = {} /\ there' = there /\ chosen' = chosen
        /\ \/ writing = {} /\ saved' = saved /\ slips' = slips
           \/ slips' = slips + 1 /\ saved' \in {saved, S!Torn}
    BY <1>9 DEF S!Restart
  <2>2. saved'.copy = saved.copy \/ saved'.copy = S!Blank
    BY <1>1, <2>1
  <2>3. S!VideosDir' = S!VideosDir /\ slips' \in Nat
    BY <2>1, LocalStays DEF SetupInv
  <2>4. IsCopy(saved.copy)' /\ Destined(saved.copy)'
    <3>1. IsCopy(saved.copy) /\ Destined(saved.copy)
      BY DEF SetupInv
    <3>2. CASE saved'.copy = saved.copy
      BY <2>1, <2>3, <3>1, <3>2 DEF IsCopy, Destined
    <3>3. CASE saved'.copy = S!Blank
      BY <1>1, <2>1, <2>3, <3>3 DEF IsCopy, Destined
    <3> QED BY <2>2, <3>2, <3>3
  <2>5. Agrees(saved.copy)' /\ IsCopy(config)' /\ Destined(config)'
    BY <2>1, <2>4 DEF Agrees, IsCopy, Destined
  <2> QED BY <2>1, <2>3, <2>4, <2>5 DEF SetupInv
<1>10. CASE UNCHANGED S!vars
  <2>1. /\ there' = there /\ config' = config /\ saved' = saved /\ writing' = writing
        /\ chosen' = chosen /\ slips' = slips
    BY <1>10 DEF S!vars
  <2> QED BY <2>1, LocalStays DEF SetupInv, IsCopy, Destined, Agrees
<1> QED BY <1>2, <1>3, <1>4, <1>5, <1>6, <1>7, <1>8, <1>9, <1>10 DEF S!Next

\* The invariant of the settings, for every machine and every sequence of requests, failed
\* writes and restarts.
THEOREM SetupIsInductive == SetupConstants => (S!Spec => []SetupInv)
<1> SUFFICES ASSUME SetupConstants PROVE S!Spec => []SetupInv
  OBVIOUS
<1>1. S!Init => SetupInv
  BY SetupStarts
<1>2. SetupInv /\ [S!Next]_(S!vars) => SetupInv'
  BY SetupSteps
<1> QED BY <1>1, <1>2, PTL DEF S!Spec

\* What the invariant says of the destination.
LEMMA SetupTells == SetupInv => S!DefaultIsChosen /\ S!ChoiceLasts
<1> SUFFICES ASSUME SetupInv PROVE S!DefaultIsChosen /\ S!ChoiceLasts
  OBVIOUS
<1>1. S!DefaultIsChosen
  BY LocalIsNoCloud DEF SetupInv, Destined, S!DefaultIsChosen, S!Default, S!DefaultOf
<1>2. S!ChoiceLasts
  BY DEF SetupInv, Agrees, S!ChoiceLasts
<1> QED BY <1>1, <1>2

-----------------------------------------------------------------------------
(* RunConfig *)

\* The words that are known, and those that requests and files name.
Words == KnownModes \union KnownPresets \union {K!Unnamed, K!Webcam, K!NoSecret}
         \union {c[k] : c \in RunSettings \union HandWritten, k \in {"mode", "preset", "origin", "secret"}}

\* What a setting is.
Settings == [seconds : Int, mode : Words, preset : Words, crf : Int, background : Int,
             encrypt : BOOLEAN, knob : Int, origin : Words, secret : Words]

\* The defaults of an import are within its ranges.
ConfigConstants ==
    /\ Lo \in Nat /\ Hi \in Nat /\ CrfMax \in Nat
    /\ Lo <= 60 /\ 60 <= Hi /\ 45 <= CrfMax /\ "mode0" \in KnownModes
    /\ RunSettings \subseteq Settings /\ HandWritten \subseteq Settings

\* Settings that an import and an export leave as they are.
Settled(c) == K!InRange(c) /\ c.background # K!None /\ c.origin # K!Nowhere /\ K!Exported(c) = c

\* The inductive invariant: what set the last configuration tells what it is like.
ConfigInv ==
    /\ last \in Settings /\ told \in Settings /\ from \in {"run", "import", "nothing"}
    /\ told.secret = K!NoSecret /\ last.origin # K!Nowhere
    /\ from = "import" => last = told
    /\ from \in {"import", "nothing"} => Settled(last)
    /\ \A f \in exported :
          /\ f.cfg \in Settings /\ K!Exported(f.cfg) = f.cfg /\ f.cfg.origin # K!Nowhere
          /\ f.of = "run" \/ Settled(f.cfg)

\* An import's file is within the ranges, and exported without a change.
LEMMA NormalSettles ==
    ASSUME ConfigConstants, NEW file_ \in Settings
    PROVE  K!Normal(file_) \in Settings /\ Settled(K!Normal(file_)) /\ K!Normal(file_).secret = K!NoSecret
<1> DEFINE n == K!Normal(file_)
<1>1. K!Clamped(file_.seconds, 60, Lo, Hi) \in Lo..Hi
  BY DEF ConfigConstants, K!Clamped, Settings
<1>2. K!Clamped(file_.crf, K!None, 0, CrfMax) \in (0..CrfMax) \union {K!None}
  BY DEF ConfigConstants, K!Clamped, Settings
<1>3. K!Clamped(file_.background, 45, 0, CrfMax) \in 0..CrfMax
  BY DEF ConfigConstants, K!Clamped, Settings
<1>4. K!Choice(file_.mode, KnownModes, "mode0") \in KnownModes
  BY DEF ConfigConstants, K!Choice
<1>5. K!Choice(file_.preset, KnownPresets, K!Unnamed) \in KnownPresets \union {K!Unnamed}
  BY DEF K!Choice
<1>6. /\ n.seconds \in Lo..Hi /\ n.mode \in KnownModes /\ n.preset \in KnownPresets \union {K!Unnamed}
      /\ n.crf \in (0..CrfMax) \union {K!None} /\ n.background \in 0..CrfMax
      /\ n.knob = K!Defaults.knob /\ n.secret = K!NoSecret /\ n.origin # K!Nowhere
  BY <1>1, <1>2, <1>3, <1>4, <1>5 DEF K!Normal, K!Webcam, K!Nowhere
<1>7. n \in Settings
  <2>1. /\ Lo..Hi \subseteq Int /\ 0..CrfMax \subseteq Int /\ K!None \in Int /\ K!Unnamed \in Words
        /\ K!NoSecret \in Words /\ K!Webcam \in Words /\ K!Defaults.knob \in Int
        /\ KnownModes \subseteq Words /\ KnownPresets \subseteq Words
    BY DEF ConfigConstants, K!None, K!Defaults, Words
  <2>2. file_.encrypt \in BOOLEAN /\ file_.origin \in Words
    BY DEF Settings
  <2> QED BY <1>1, <1>2, <1>3, <1>4, <1>5, <2>1, <2>2 DEF K!Normal, Settings
<1>8. K!Exported(n) = n
  <2>1. n = [seconds |-> n.seconds, mode |-> n.mode, preset |-> n.preset, crf |-> n.crf,
             background |-> n.background, encrypt |-> n.encrypt, knob |-> n.knob, origin |-> n.origin, secret |-> n.secret]
    BY <1>7 DEF Settings
  <2> HIDE DEF n
  <2>2. n.knob = K!Defaults.knob /\ n.secret = K!NoSecret /\ n \in Settings
    BY <1>6, <1>7
  <2>3. [n EXCEPT !.knob = n.knob] = n
    BY <2>2 DEF Settings
  <2>4. [n EXCEPT !.secret = n.secret] = n
    BY <2>2 DEF Settings
  <2>5. K!Exported(n) = [[n EXCEPT !.knob = n.knob] EXCEPT !.secret = n.secret]
    BY <2>2 DEF K!Exported
  <2> QED BY <2>3, <2>4, <2>5
<1>9. n.background # K!None
  BY <1>6 DEF K!None, ConfigConstants
<1> QED BY <1>6, <1>7, <1>8, <1>9 DEF Settled, K!InRange

\* The file of an export keeps what is not its own.
LEMMA ExportKeeps ==
    ASSUME NEW c \in Settings
    PROVE  LET e == K!Exported(c)
           IN  /\ e \in Settings /\ e.seconds = c.seconds /\ e.mode = c.mode /\ e.preset = c.preset
               /\ e.crf = c.crf /\ e.background = c.background /\ e.encrypt = c.encrypt
               /\ e.knob = K!Defaults.knob /\ e.origin = c.origin /\ e.secret = K!NoSecret
               /\ K!Exported(e) = e
<1> DEFINE one == [c EXCEPT !.knob = K!Defaults.knob]
           two == [one EXCEPT !.secret = K!NoSecret]
<1>1. K!Defaults.knob \in Int /\ K!NoSecret \in Words
  BY DEF K!Defaults, Words
<1>2. /\ one \in Settings /\ one.seconds = c.seconds /\ one.mode = c.mode /\ one.preset = c.preset
      /\ one.crf = c.crf /\ one.background = c.background /\ one.encrypt = c.encrypt
      /\ one.knob = K!Defaults.knob /\ one.origin = c.origin
  BY <1>1 DEF Settings
<1>3. two = K!Exported(c)
  BY DEF K!Exported
<1> HIDE DEF one
<1>4. /\ two \in Settings /\ two.seconds = c.seconds /\ two.mode = c.mode /\ two.preset = c.preset
      /\ two.crf = c.crf /\ two.background = c.background /\ two.encrypt = c.encrypt
      /\ two.knob = K!Defaults.knob /\ two.origin = c.origin /\ two.secret = K!NoSecret
  BY <1>1, <1>2 DEF Settings
<1> HIDE DEF two
<1>5. K!Exported(two) = two
  <2>1. [two EXCEPT !.knob = two.knob] = two /\ [two EXCEPT !.secret = two.secret] = two
    BY <1>4 DEF Settings
  <2>2. K!Exported(two) = [[two EXCEPT !.knob = two.knob] EXCEPT !.secret = two.secret]
    BY <1>4 DEF K!Exported
  <2> QED BY <2>1, <2>2
<1> QED BY <1>3, <1>4, <1>5

\* So does an import of settings that are within the ranges.
LEMMA NormalKeeps ==
    ASSUME ConfigConstants, NEW c \in Settings, K!InRange(c), c.background # K!None, c.origin # K!Nowhere,
           K!Exported(c) = c
    PROVE  K!Normal(c) = c
<1>1. c.knob = K!Defaults.knob /\ c.secret = K!NoSecret
  BY ExportKeeps
<1>2. K!Clamped(c.seconds, 60, Lo, Hi) = c.seconds
  BY DEF ConfigConstants, K!Clamped, K!InRange, K!None, K!Wrong, Settings
<1>3. K!Clamped(c.crf, K!None, 0, CrfMax) = c.crf
  BY DEF ConfigConstants, K!Clamped, K!InRange, K!None, K!Wrong, Settings
<1>4. K!Clamped(c.background, 45, 0, CrfMax) = c.background
  BY DEF ConfigConstants, K!Clamped, K!InRange, K!None, K!Wrong, Settings
<1>5. K!Choice(c.mode, KnownModes, "mode0") = c.mode /\ K!Choice(c.preset, KnownPresets, K!Unnamed) = c.preset
  BY DEF K!Choice, K!InRange
<1>6. c = [seconds |-> c.seconds, mode |-> c.mode, preset |-> c.preset, crf |-> c.crf,
           background |-> c.background, encrypt |-> c.encrypt, knob |-> c.knob, origin |-> c.origin, secret |-> c.secret]
  BY DEF Settings
<1> QED BY <1>1, <1>2, <1>3, <1>4, <1>5, <1>6 DEF K!Normal

LEMMA ConfigStarts == ConfigConstants /\ K!Init => ConfigInv
<1> SUFFICES ASSUME ConfigConstants, K!Init PROVE ConfigInv
  OBVIOUS
<1> DEFINE d == K!Defaults
<1>1. /\ d \in Settings /\ K!InRange(d) /\ d.background # K!None /\ d.secret = K!NoSecret
      /\ d.origin # K!Nowhere
  <2>1. {"mode0", K!Unnamed, K!Webcam, K!NoSecret} \subseteq Words
    BY DEF Words, ConfigConstants
  <2>2. d \in Settings
    BY <2>1 DEF K!Defaults, Settings, K!None
  <2>3. K!InRange(d) /\ d.background # K!None /\ d.secret = K!NoSecret /\ d.origin # K!Nowhere
    BY DEF K!Defaults, K!InRange, K!None, K!Webcam, K!Nowhere, ConfigConstants
  <2> QED BY <2>2, <2>3
<1>2. K!Exported(d) = d
  <2>1. [d EXCEPT !.knob = d.knob] = d /\ [d EXCEPT !.secret = d.secret] = d
    BY <1>1 DEF Settings
  <2>2. K!Exported(d) = [[d EXCEPT !.knob = d.knob] EXCEPT !.secret = d.secret]
    BY <1>1 DEF K!Exported
  <2> QED BY <2>1, <2>2
<1> HIDE DEF d
<1>3. last = d /\ told = d /\ from = "nothing" /\ exported = {}
  BY DEF K!Init, d
<1> QED BY <1>1, <1>2, <1>3 DEF ConfigInv, Settled

LEMMA ConfigSteps == ConfigConstants /\ ConfigInv /\ [K!Next]_(K!vars) => ConfigInv'
<1> SUFFICES ASSUME ConfigConstants, ConfigInv, [K!Next]_(K!vars) PROVE ConfigInv'
  OBVIOUS
<1>1. CASE K!Start
  <2>1. last' \in RunSettings /\ last'.origin # K!Nowhere /\ from' = "run" /\ exported' = exported /\ told' = told
    BY <1>1 DEF K!Start
  <2> QED BY <2>1 DEF ConfigInv, ConfigConstants, Settled, K!InRange, K!Exported
<1>2. CASE K!Export
  <2>1. exported' = exported \union {[of |-> from, cfg |-> K!Exported(last)]}
    BY <1>2 DEF K!Export
  <2>2. last' = last /\ from' = from /\ told' = told
    BY <1>2 DEF K!Export
  <2>3. /\ K!Exported(last) \in Settings /\ K!Exported(K!Exported(last)) = K!Exported(last)
        /\ K!Exported(last).origin # K!Nowhere
    BY ExportKeeps DEF ConfigInv
  <2>4. from = "run" \/ Settled(K!Exported(last))
    <3>1. CASE from = "run"
      BY <3>1
    <3>2. CASE from # "run"
      <4>1. Settled(last) /\ K!Exported(last) = last
        BY <3>2 DEF ConfigInv, Settled
      <4> QED BY <4>1
    <3> QED BY <3>1, <3>2
  <2>5. \A f \in exported' : /\ f.cfg \in Settings /\ K!Exported(f.cfg) = f.cfg /\ f.cfg.origin # K!Nowhere
                             /\ f.of = "run" \/ Settled(f.cfg)
    BY <2>1, <2>3, <2>4 DEF ConfigInv
  <2> QED BY <2>2, <2>5 DEF ConfigInv, Settled, K!InRange, K!Exported
<1>3. CASE K!Import
  <2>1. PICK file_ \in {f.cfg : f \in exported} \union HandWritten :
          last' = K!Normal(file_) /\ told' = K!Normal(file_)
    BY <1>3 DEF K!Import
  <2>2. from' = "import" /\ exported' = exported
    BY <1>3 DEF K!Import
  <2>3. file_ \in Settings
    BY DEF ConfigInv, ConfigConstants
  <2> DEFINE n == K!Normal(file_)
  <2>4. n \in Settings /\ Settled(n) /\ n.secret = K!NoSecret
    BY <2>3, NormalSettles
  <2> HIDE DEF n
  <2>5. last' = n /\ told' = n
    BY <2>1 DEF n
  <2> QED BY <2>2, <2>4, <2>5 DEF ConfigInv, Settled, K!InRange, K!Exported
<1>4. CASE K!End \/ UNCHANGED K!vars
  <2>1. last' = last /\ from' = from /\ told' = told /\ exported' = exported
    BY <1>4 DEF K!End, K!vars
  <2> QED BY <2>1 DEF ConfigInv, Settled, K!InRange, K!Exported
<1> QED BY <1>1, <1>2, <1>3, <1>4 DEF K!Next

\* The invariant of a run's settings, for every range, run and file.
THEOREM ConfigIsInductive == ConfigConstants => (K!Spec => []ConfigInv)
<1> SUFFICES ASSUME ConfigConstants PROVE K!Spec => []ConfigInv
  OBVIOUS
<1>1. K!Init => ConfigInv
  BY ConfigStarts
<1>2. ConfigInv /\ [K!Next]_(K!vars) => ConfigInv'
  BY ConfigSteps
<1> QED BY <1>1, <1>2, PTL DEF K!Spec

\* What the invariant says of the files.
LEMMA ConfigTells == ConfigConstants /\ ConfigInv => K!NoKeyTravels /\ K!SettingsTravel
<1> SUFFICES ASSUME ConfigConstants, ConfigInv PROVE K!NoKeyTravels /\ K!SettingsTravel
  OBVIOUS
<1>1. K!NoKeyTravels
  <2>1. \A f \in exported : f.cfg.secret = K!NoSecret
    <3> SUFFICES ASSUME NEW f \in exported PROVE f.cfg.secret = K!NoSecret
      OBVIOUS
    <3>1. f.cfg \in Settings /\ K!Exported(f.cfg) = f.cfg
      BY DEF ConfigInv
    <3> QED BY <3>1, ExportKeeps
  <2>2. told.secret = K!NoSecret /\ (from = "import" => last = told)
    BY DEF ConfigInv
  <2> QED BY <2>1, <2>2 DEF K!NoKeyTravels, K!Credentials
<1>2. \A f \in exported : \/ f.of = "run" /\ (~K!InRange(f.cfg) \/ f.cfg.background = K!None)
                          \/ K!Exported(K!Normal(f.cfg)) = f.cfg
  <2> SUFFICES ASSUME NEW f \in exported, f.of # "run" \/ (K!InRange(f.cfg) /\ f.cfg.background # K!None)
               PROVE  K!Exported(K!Normal(f.cfg)) = f.cfg
    OBVIOUS
  <2>1. /\ f.cfg \in Settings /\ K!Exported(f.cfg) = f.cfg /\ K!InRange(f.cfg) /\ f.cfg.background # K!None
        /\ f.cfg.origin # K!Nowhere
    BY DEF ConfigInv, Settled
  <2>2. K!Normal(f.cfg) = f.cfg
    BY <2>1, NormalKeeps
  <2> QED BY <2>1, <2>2
<1>3. from = "import" => last = told /\ K!InRange(last) /\ K!Exported(last) = last
  BY DEF ConfigInv, Settled
<1> QED BY <1>1, <1>2, <1>3 DEF K!SettingsTravel

-----------------------------------------------------------------------------
(* Usage *)

\* The inductive invariant: who records agreed while the switch was off.
Agreeing(e) == recording[e] = "asks" /\ G!Agreed(consent) => wished[e]
Telling(event) ==
    /\ event.by \in Encodes /\ wished[event.by] /\ recording[event.by] = "over"
    /\ event.fields.preset \in G!Presets \union {G!Nothing}
    /\ event.fields.mode \in G!Modes \union {"other"} /\ event.fields.codec \in G!Codecs \union {"other"}
UsageInv ==
    /\ recording \in [Encodes -> {"runs", "asks", "records", "over"}]
    /\ DOMAIN wished = Encodes
    /\ \A e \in Encodes : Agreeing(e)
    /\ \A e \in Encodes : recording[e] = "records" => wished[e] /\ ~disabled
    /\ \A event \in local \union sent : Telling(event)
    /\ disabled => local \union sent = {}
    /\ ~url => sent = {}

LEMMA UsageStarts == G!Init => UsageInv
<1> SUFFICES ASSUME G!Init PROVE UsageInv
  OBVIOUS
<1>1. recording = [e \in Encodes |-> "runs"] /\ wished = [e \in Encodes |-> FALSE] /\ local = {} /\ sent = {}
  BY DEF G!Init
<1> QED BY <1>1 DEF UsageInv, Agreeing

LEMMA UsageSteps == UsageInv /\ [G!Next]_(G!vars) => UsageInv'
<1> SUFFICES ASSUME UsageInv, [G!Next]_(G!vars) PROVE UsageInv'
  OBVIOUS
<1>1. CASE G!Answer
  <2>1. consent' = "torn"
    BY <1>1 DEF G!Answer
  <2>2. /\ recording' = recording /\ wished' = wished /\ disabled' = disabled
        /\ local' = local /\ sent' = sent /\ url' = url
    BY <1>1 DEF G!Answer
  <2> QED BY <2>1, <2>2 DEF UsageInv, Agreeing, Telling, G!Agreed
<1>2. CASE G!ResetState
  <2>1. consent' = "absent" /\ local' = {}
    BY <1>2 DEF G!ResetState
  <2>2. /\ recording' = recording /\ wished' = wished /\ disabled' = disabled
        /\ sent' = sent /\ url' = url
    BY <1>2 DEF G!ResetState
  <2> QED BY <2>1, <2>2 DEF UsageInv, Agreeing, Telling, G!Agreed
<1>3. CASE G!Answered
  <2>1. wished' = [e \in Encodes |-> wished[e] \/ G!Agreed(consent')]
    BY <1>3 DEF G!Answered
  <2>2. /\ recording' = recording /\ disabled' = disabled
        /\ local' = local /\ sent' = sent /\ url' = url
    BY <1>3 DEF G!Answered
  <2>3. \A e \in Encodes : (wished[e] => wished'[e]) /\ (G!Agreed(consent') => wished'[e])
    BY <2>1
  <2>4. DOMAIN wished' = Encodes /\ G!Agreed(consent)' = G!Agreed(consent')
    BY <2>1, <2>2 DEF G!Agreed
  <2>5. \A e \in Encodes : Agreeing(e)'
    BY <2>3, <2>4 DEF Agreeing
  <2>6. \A event \in local' \union sent' : Telling(event)'
    BY <2>2, <2>3 DEF UsageInv, Telling
  <2>7. \A e \in Encodes : recording'[e] = "records" => wished'[e] /\ ~disabled'
    BY <2>2, <2>3 DEF UsageInv
  <2> QED BY <2>2, <2>4, <2>5, <2>6, <2>7 DEF UsageInv
<1>4. ASSUME NEW e \in Encodes, G!Begin(e) PROVE UsageInv'
  <2>1. recording[e] = "runs" /\ recording' = [recording EXCEPT ![e] = "asks"]
    BY <1>4 DEF G!Begin, G!Goto
  <2>2. wished' = [wished EXCEPT ![e] = G!Agreed(consent)]
    BY <1>4 DEF G!Begin
  <2>3. consent' = consent /\ disabled' = disabled /\ local' = local /\ sent' = sent /\ url' = url
    BY <1>4 DEF G!Begin
  <2>4. /\ DOMAIN wished' = Encodes /\ (wished'[e] <=> G!Agreed(consent))
        /\ \A o \in Encodes \ {e} : wished'[o] = wished[o]
    BY <2>2 DEF UsageInv, G!Agreed
  <2>5. /\ recording' \in [Encodes -> {"runs", "asks", "records", "over"}] /\ recording'[e] = "asks"
        /\ \A o \in Encodes \ {e} : recording'[o] = recording[o]
    BY <2>1 DEF UsageInv
  <2>6. \A o \in Encodes : Agreeing(o)'
    BY <2>3, <2>4, <2>5 DEF UsageInv, Agreeing, G!Agreed
  <2>7. \A o \in Encodes : recording'[o] = "records" => wished'[o] /\ ~disabled'
    BY <2>3, <2>4, <2>5 DEF UsageInv
  <2>8. \A event \in local' \union sent' : Telling(event)'
    BY <2>1, <2>3, <2>4, <2>5 DEF UsageInv, Telling
  <2> QED BY <2>3, <2>4, <2>5, <2>6, <2>7, <2>8 DEF UsageInv
<1>5. ASSUME NEW e \in Encodes, G!AskConsent(e) PROVE UsageInv'
  <2>1. recording[e] = "asks" /\ recording' = [recording EXCEPT ![e] = IF G!IsEnabled THEN "records" ELSE "over"]
    BY <1>5 DEF G!AskConsent, G!Goto
  <2>2. /\ consent' = consent /\ wished' = wished /\ disabled' = disabled
        /\ local' = local /\ sent' = sent /\ url' = url
    BY <1>5 DEF G!AskConsent
  <2>3. /\ recording' \in [Encodes -> {"runs", "asks", "records", "over"}] /\ recording'[e] \in {"records", "over"}
        /\ (recording'[e] = "records" => G!IsEnabled)
        /\ \A o \in Encodes \ {e} : recording'[o] = recording[o]
    BY <2>1 DEF UsageInv
  <2>4. G!IsEnabled => wished[e] /\ ~disabled
    BY <2>1 DEF UsageInv, Agreeing, G!IsEnabled, G!ReadConsent, G!Agreed
  <2>5. \A o \in Encodes : Agreeing(o)'
    BY <2>2, <2>3 DEF UsageInv, Agreeing, G!Agreed
  <2>6. \A o \in Encodes : recording'[o] = "records" => wished'[o] /\ ~disabled'
    BY <2>2, <2>3, <2>4 DEF UsageInv
  <2>7. \A event \in local' \union sent' : Telling(event)'
    BY <2>1, <2>2, <2>3 DEF UsageInv, Telling
  <2> QED BY <2>2, <2>3, <2>5, <2>6, <2>7 DEF UsageInv
<1>6. ASSUME NEW e \in Encodes, G!Emit(e) PROVE UsageInv'
  <2>1. recording[e] = "records" /\ recording' = [recording EXCEPT ![e] = "over"]
    BY <1>6 DEF G!Emit, G!Goto
  <2>2. consent' = consent /\ wished' = wished /\ disabled' = disabled /\ url' = url
    BY <1>6 DEF G!Emit
  <2> DEFINE event == [by |-> e, fields |-> G!Sanitized(detail[e])]
  <2>3. local' \subseteq local \union {event} /\ sent' \subseteq sent \union {event} /\ (~url => sent' = sent)
    BY <1>6 DEF G!Emit
  <2>4. /\ recording' \in [Encodes -> {"runs", "asks", "records", "over"}] /\ recording'[e] = "over"
        /\ \A o \in Encodes \ {e} : recording'[o] = recording[o]
    BY <2>1 DEF UsageInv
  <2>5. wished[e] /\ ~disabled
    BY <2>1 DEF UsageInv
  <2>6. /\ event.by = e
        /\ event.fields.preset \in G!Presets \union {G!Nothing}
        /\ event.fields.mode \in G!Modes \union {"other"} /\ event.fields.codec \in G!Codecs \union {"other"}
    BY DEF G!Sanitized, G!Fields, G!Presets
  <2> HIDE DEF event
  <2>7. ASSUME NEW o, o = event PROVE Telling(o)'
    BY <2>2, <2>4, <2>5, <2>6, <2>7 DEF Telling
  <2>8. \A o \in local \union sent : Telling(o)'
    BY <2>1, <2>2, <2>4 DEF UsageInv, Telling
  <2>9. \A o \in Encodes : Agreeing(o)'
    BY <2>2, <2>4 DEF UsageInv, Agreeing, G!Agreed
  <2>10. \A o \in Encodes : recording'[o] = "records" => wished'[o] /\ ~disabled'
    BY <2>2, <2>4 DEF UsageInv
  <2>11. \A o \in local' \union sent' : Telling(o)'
    BY <2>3, <2>7, <2>8
  <2> QED BY <2>2, <2>3, <2>4, <2>5, <2>9, <2>10, <2>11 DEF UsageInv
<1>7. CASE UNCHANGED G!vars
  <2>1. /\ recording' = recording /\ wished' = wished /\ disabled' = disabled /\ consent' = consent
        /\ local' = local /\ sent' = sent /\ url' = url
    BY <1>7 DEF G!vars
  <2> QED BY <2>1 DEF UsageInv, Agreeing, Telling, G!Agreed
<1> QED BY <1>1, <1>2, <1>3, <1>4, <1>5, <1>6, <1>7 DEF G!Next

\* The invariant of the statistics, for every answer, reset and encode.
THEOREM UsageIsInductive == G!Spec => []UsageInv
<1>1. G!Init => UsageInv
  BY UsageStarts
<1>2. UsageInv /\ [G!Next]_(G!vars) => UsageInv'
  BY UsageSteps
<1> QED BY <1>1, <1>2, PTL DEF G!Spec

-----------------------------------------------------------------------------
\* When MCKept runs one of these, it does what that part does.
LEMMA ChoicesRun ==
    SetupConstants /\ ConfigConstants =>
        (KeptSpec => [](/\ which = "setup" => SetupInv
                        /\ which = "config" => ConfigInv
                        /\ which = "usage" => UsageInv))
<1> SUFFICES ASSUME SetupConstants, ConfigConstants
             PROVE  KeptSpec => [](/\ which = "setup" => SetupInv
                                   /\ which = "config" => ConfigInv
                                   /\ which = "usage" => UsageInv)
  OBVIOUS
<1>1. KeptInit => (which = "setup" => SetupInv) /\ (which = "config" => ConfigInv) /\ (which = "usage" => UsageInv)
  BY SetupStarts, ConfigStarts, UsageStarts DEF KeptInit
<1>2. /\ UNCHANGED setupVars => UNCHANGED S!vars
      /\ UNCHANGED configVars => UNCHANGED K!vars
      /\ UNCHANGED usageVars => UNCHANGED G!vars
  BY DEF setupVars, S!vars, configVars, K!vars, usageVars, G!vars
<1>3. (which = "setup" => SetupInv) /\ [KeptNext]_keptVars => (which = "setup" => SetupInv)'
  BY <1>2, SetupSteps DEF KeptNext, RunVault, RunFiles, RunSetup, RunConfig, RunUsage,
         RunRtsp, RunSampler, RunEnhancer, keptVars
<1>4. (which = "config" => ConfigInv) /\ [KeptNext]_keptVars => (which = "config" => ConfigInv)'
  BY <1>2, ConfigSteps DEF KeptNext, RunVault, RunFiles, RunSetup, RunConfig, RunUsage,
         RunRtsp, RunSampler, RunEnhancer, keptVars
<1>5. (which = "usage" => UsageInv) /\ [KeptNext]_keptVars => (which = "usage" => UsageInv)'
  BY <1>2, UsageSteps DEF KeptNext, RunVault, RunFiles, RunSetup, RunConfig, RunUsage,
         RunRtsp, RunSampler, RunEnhancer, keptVars
<1> QED BY <1>1, <1>3, <1>4, <1>5, PTL DEF KeptSpec

\* cloud_detection.py, presets_bp.py, usage_stats.py: what the user chose is kept to.  A folder
\* of a cloud is never the destination unless it was chosen since the last reset, for every
\* set of folders there are; no credentials travel in a file, and settings that travelled once
\* do not change again; an event is recorded only while the user agrees.
THEOREM ChoicesAreKept == SetupConstants /\ ConfigConstants => (KeptSpec => []ChoicesKept)
<1> SUFFICES ASSUME SetupConstants, ConfigConstants PROVE KeptSpec => []ChoicesKept
  OBVIOUS
<1>1. UsageInv => G!UsageConsented
  BY DEF UsageInv, Telling, G!UsageConsented
<1>2. (which = "setup" => SetupInv) /\ (which = "config" => ConfigInv) /\ (which = "usage" => UsageInv)
      => ChoicesKept
  BY <1>1, SetupTells, ConfigTells DEF ChoicesKept
<1> QED BY <1>2, ChoicesRun, PTL

-----------------------------------------------------------------------------
(* Rtsp *)

\* Requests are served one at a time.
RtspConstants == ~CallsOverlap /\ MaxSpawned \in Nat

\* The steps of a request by what it has in hand: nothing, the server it looked at, a process
\* it has started.
EmptySteps ==
    {R!Idle, <<"start", "launch">>, <<"state", "read">>, <<"push", "read">>,
     <<"stop", "go">>, <<"stop", "killed">>, <<"stop", "next">>, <<"stop", "clear">>,
     <<"stop_push", "go">>, <<"stop_push", "killed">>}
LookingSteps ==
    {<<"state", "write">>, <<"push", "write">>, <<"state", "go">>, <<"push", "go">>,
     <<"push", "killed">>, <<"push", "next">>}
StartedSteps == {<<"start", "record">>, <<"push", "record">>}

\* What a request relies on at its step.
CallInv(r) ==
    /\ doing[r] \in EmptySteps \union LookingSteps \union StartedSteps
    /\ doing[r] \in EmptySteps => saw[r] = 0
    /\ doing[r] \in LookingSteps => saw[r] \in {0, server}
    /\ doing[r] \in {<<"state", "write">>, <<"push", "write">>} => saw[r] = server
    /\ doing[r] \in {<<"start", "launch">>, <<"start", "record">>} => ~up
    /\ doing[r] \in {<<"stop", "killed">>, <<"stop_push", "killed">>, <<"push", "killed">>} => pushers = {}
    /\ doing[r] \in {<<"stop", "next">>, <<"stop", "clear">>, <<"push", "next">>} => pusher = 0 /\ pushers = {}
    /\ doing[r] = <<"stop", "clear">> => servers = {}
    /\ doing[r] = <<"start", "record">> =>
          servers \subseteq {saw[r]} /\ saw[r] \in 1..spawned /\ saw[r] \notin pushers /\ saw[r] # pusher
    /\ doing[r] = <<"push", "record">> =>
          pusher = 0 /\ pushers \subseteq {saw[r]} /\ saw[r] \in 1..spawned /\ saw[r] \notin servers /\ saw[r] # server

\* The processes are told apart.
Apart ==
    /\ spawned \in Nat /\ server \in 0..spawned /\ pusher \in 0..spawned
    /\ servers \subseteq 1..spawned /\ pushers \subseteq 1..spawned
    /\ servers \cap pushers = {} /\ server \notin pushers /\ pusher \notin servers
    /\ server # 0 => server # pusher
    /\ up \in BOOLEAN /\ (~up => server \notin servers)

\* Those that live are on record but for a step.
ProcInv ==
    /\ Apart
    /\ (\A r \in Calls : doing[r] # <<"start", "record">>) => servers \subseteq {server}
    /\ (\A r \in Calls : doing[r] # <<"push", "record">>) => pushers \subseteq {pusher}

\* The inductive invariant.
RtspInv ==
    /\ DOMAIN doing = Calls /\ DOMAIN saw = Calls
    /\ \A p, q \in Calls : doing[p] # R!Idle /\ doing[q] # R!Idle => p = q
    /\ \A r \in Calls : CallInv(r)
    /\ ProcInv
    /\ R!DoneIsReady

\* A step of a request at which no other one is served.
Served(r, step, seen) ==
    /\ DOMAIN doing' = Calls /\ DOMAIN saw' = Calls
    /\ doing'[r] = step /\ saw'[r] = seen
    /\ \A q \in Calls \ {r} : doing'[q] = R!Idle /\ saw'[q] = 0

LEMMA OneServed ==
    ASSUME RtspConstants, RtspInv, NEW r \in Calls, doing[r] # R!Idle \/ R!Free(r)
    PROVE  \A q \in Calls \ {r} : doing[q] = R!Idle /\ saw[q] = 0
<1>1. \A q \in Calls \ {r} : doing[q] = R!Idle
  BY DEF RtspConstants, RtspInv, R!Free
<1> QED BY <1>1 DEF RtspInv, CallInv, EmptySteps

LEMMA Serves ==
    ASSUME RtspConstants, RtspInv, NEW r \in Calls, doing[r] # R!Idle \/ R!Free(r), NEW step, NEW seen,
           doing' = [doing EXCEPT ![r] = step], saw' = [saw EXCEPT ![r] = seen]
    PROVE  Served(r, step, seen)
  BY OneServed DEF Served, RtspInv

LEMMA ServesStill ==
    ASSUME RtspConstants, RtspInv, NEW r \in Calls, doing[r] # R!Idle \/ R!Free(r), NEW step,
           doing' = [doing EXCEPT ![r] = step], saw' = saw
    PROVE  Served(r, step, saw[r])
  BY OneServed DEF Served, RtspInv

\* Of the request that is served alone, the processes are on record but for its own step.
LEMMA OnRecord ==
    ASSUME RtspConstants, RtspInv, NEW r \in Calls, doing[r] # R!Idle \/ R!Free(r)
    PROVE  /\ doing[r] # <<"start", "record">> => servers \subseteq {server}
           /\ doing[r] # <<"push", "record">> => pushers \subseteq {pusher}
           /\ Apart /\ CallInv(r) /\ R!DoneIsReady
<1>1. \A q \in Calls \ {r} : doing[q] = R!Idle
  BY OneServed
<1>2. \A q \in Calls : q # r => doing[q] # <<"start", "record">> /\ doing[q] # <<"push", "record">>
  BY <1>1 DEF R!Idle
<1>3. ProcInv /\ CallInv(r) /\ R!DoneIsReady
  BY DEF RtspInv
<1> QED BY <1>2, <1>3 DEF ProcInv

\* What a request that is served leaves is the invariant, once it holds of it and of the processes.
LEMMA ServedKeeps ==
    ASSUME RtspInv, NEW r \in Calls, NEW step, NEW seen, Served(r, step, seen), CallInv(r)', Apart',
           step # <<"start", "record">> => servers' \subseteq {server'},
           step # <<"push", "record">> => pushers' \subseteq {pusher'},
           UNCHANGED <<binary, progress>>
    PROVE  RtspInv'
<1>1. \A q \in Calls \ {r} : CallInv(q)'
  <2> SUFFICES ASSUME NEW q \in Calls \ {r} PROVE CallInv(q)'
    OBVIOUS
  <2>1. doing'[q] = R!Idle /\ saw'[q] = 0
    BY DEF Served
  <2> QED BY <2>1 DEF CallInv, EmptySteps, LookingSteps, StartedSteps, R!Idle
<1>2. \A p, q \in Calls : doing'[p] # R!Idle /\ doing'[q] # R!Idle => p = q
  BY DEF Served
<1>3. doing'[r] = step
  BY DEF Served
<1>4. ProcInv'
  BY <1>3 DEF ProcInv
<1>5. R!DoneIsReady'
  BY DEF RtspInv, R!DoneIsReady
<1> QED BY <1>1, <1>2, <1>4, <1>5 DEF RtspInv, Served

LEMMA RtspStarts == RtspConstants /\ R!Init => RtspInv
<1> SUFFICES ASSUME RtspConstants, R!Init PROVE RtspInv
  OBVIOUS
<1>1. /\ doing = [r \in Calls |-> R!Idle] /\ saw = [r \in Calls |-> 0]
      /\ servers = {} /\ pushers = {} /\ server = 0 /\ pusher = 0 /\ spawned = 0 /\ up = FALSE /\ progress = "none"
  BY DEF R!Init
<1>2. \A r \in Calls : CallInv(r)
  BY <1>1 DEF CallInv, EmptySteps, LookingSteps, StartedSteps, R!Idle
<1>3. ProcInv
  <2>1. /\ servers = {} /\ pushers = {} /\ server = 0 /\ pusher = 0 /\ spawned = 0
    BY <1>1
  <2>2. /\ spawned \in Nat /\ server \in 0..spawned /\ pusher \in 0..spawned
        /\ servers \subseteq 1..spawned /\ pushers \subseteq 1..spawned
    BY <2>1
  <2>3. up \in BOOLEAN
    BY <1>1
  <2> QED BY <2>1, <2>2, <2>3 DEF ProcInv, Apart
<1> QED BY <1>1, <1>2, <1>3 DEF RtspInv, R!DoneIsReady

\* What the download and the ends of processes leave alone.
LEMMA QuietProcesses ==
    ASSUME RtspInv, UNCHANGED <<server, up, pusher, spawned, doing, saw>>,
           servers' \subseteq servers, pushers' \subseteq pushers, R!DoneIsReady'
    PROVE  RtspInv'
<1>1. \A r \in Calls : CallInv(r)'
  <2> SUFFICES ASSUME NEW r \in Calls PROVE CallInv(r)'
    OBVIOUS
  <2>1. CallInv(r)
    BY DEF RtspInv
  <2> QED BY <2>1 DEF CallInv
<1>2. /\ server' = server /\ up' = up /\ pusher' = pusher /\ spawned' = spawned /\ doing' = doing
      /\ servers' \subseteq servers /\ pushers' \subseteq pushers /\ ProcInv
  BY DEF RtspInv
<1>3. /\ (\A r \in Calls : doing'[r] # <<"start", "record">>) => servers' \subseteq {server'}
      /\ (\A r \in Calls : doing'[r] # <<"push", "record">>) => pushers' \subseteq {pusher'}
  <2>1. (\A r \in Calls : doing[r] # <<"start", "record">>) => servers \subseteq {server}
    BY <1>2 DEF ProcInv
  <2>2. (\A r \in Calls : doing[r] # <<"push", "record">>) => pushers \subseteq {pusher}
    BY <1>2 DEF ProcInv
  <2>3. (\A r \in Calls : doing'[r] # <<"start", "record">>) => servers' \subseteq {server'}
    BY <1>2, <2>1
  <2>4. (\A r \in Calls : doing'[r] # <<"push", "record">>) => pushers' \subseteq {pusher'}
    BY <1>2, <2>2
  <2> QED BY <2>3, <2>4
<1>4. /\ spawned' \in Nat /\ server' \in 0..spawned' /\ pusher' \in 0..spawned'
      /\ servers' \subseteq 1..spawned' /\ pushers' \subseteq 1..spawned'
  BY <1>2 DEF ProcInv, Apart
<1>5. /\ servers' \cap pushers' = {} /\ server' \notin pushers' /\ pusher' \notin servers'
      /\ (server' # 0 => server' # pusher')
  BY <1>2 DEF ProcInv, Apart
<1>6. up' \in BOOLEAN /\ (~up' => server' \notin servers')
  BY <1>2 DEF ProcInv, Apart
<1>7. ProcInv'
  BY <1>3, <1>4, <1>5, <1>6 DEF ProcInv, Apart
<1> QED BY <1>1, <1>2, <1>7 DEF RtspInv

\* The request looks around, and leaves the processes as they are.
LEMMA LooksKeeps ==
    ASSUME RtspConstants, RtspInv, NEW r \in Calls, doing[r] # R!Idle \/ R!Free(r),
           NEW step, NEW seen, Served(r, step, seen),
           doing[r] \notin StartedSteps, step \notin StartedSteps, CallInv(r)',
           UNCHANGED <<binary, progress, servers, pushers, server, up, pusher, spawned>>
    PROVE  RtspInv'
<1>1. servers \subseteq {server} /\ pushers \subseteq {pusher} /\ Apart
  BY OnRecord DEF StartedSteps
<1>2. Apart'
  BY <1>1 DEF Apart
<1> QED BY <1>1, <1>2, ServedKeeps

LEMMA RtspSteps == RtspConstants /\ RtspInv /\ [R!Next]_(R!vars) => RtspInv'
<1> SUFFICES ASSUME RtspConstants, RtspInv, [R!Next]_(R!vars) PROVE RtspInv'
  OBVIOUS
<1>1. CASE R!DownloadGoes \/ R!DownloadFails \/ R!DownloadEnds
  <2>1. UNCHANGED <<server, up, pusher, spawned, doing, saw, servers, pushers>>
    BY <1>1 DEF R!DownloadGoes, R!DownloadFails, R!DownloadEnds
  <2>2. R!DoneIsReady'
    BY <1>1 DEF R!DownloadGoes, R!DownloadFails, R!DownloadEnds, RtspInv, R!DoneIsReady
  <2> QED BY <2>1, <2>2, QuietProcesses
<1>2. CASE R!Exit
  <2>1. /\ UNCHANGED <<server, up, pusher, spawned, doing, saw, binary, progress>>
        /\ servers' \subseteq servers /\ pushers' \subseteq pushers
    BY <1>2 DEF R!Exit, R!download
  <2>2. R!DoneIsReady'
    BY <2>1 DEF RtspInv, R!DoneIsReady
  <2> QED BY <2>1, <2>2, QuietProcesses
<1>3. ASSUME NEW r \in Calls, R!Download(r) PROVE RtspInv'
  <2>1. UNCHANGED <<server, up, pusher, spawned, doing, saw, servers, pushers>> /\ progress' = "some"
    BY <1>3 DEF R!Download
  <2>2. R!DoneIsReady'
    BY <2>1 DEF R!DoneIsReady
  <2> QED BY <2>1, <2>2, QuietProcesses
<1>4. ASSUME NEW r \in Calls, R!Start(r) PROVE RtspInv'
  <2>1. /\ R!Free(r) /\ doing[r] = R!Idle /\ ~up /\ doing' = [doing EXCEPT ![r] = <<"start", "launch">>]
        /\ UNCHANGED <<saw, binary, progress, servers, pushers, server, up, pusher, spawned>>
    BY <1>4 DEF R!Start, R!Goto, R!Free, R!download
  <2>2. Served(r, <<"start", "launch">>, saw[r]) /\ saw[r] = 0
    BY <2>1, ServesStill DEF RtspInv, CallInv, EmptySteps
  <2>3. CallInv(r)'
    BY <2>1, <2>2 DEF Served, CallInv, EmptySteps, LookingSteps, StartedSteps
  <2> QED BY <2>1, <2>2, <2>3, LooksKeeps DEF StartedSteps, R!Idle
<1>5. ASSUME NEW r \in Calls, R!Launch(r) PROVE RtspInv'
  <2>1. /\ doing[r] = <<"start", "launch">> /\ doing[r] # R!Idle /\ doing[r] \notin StartedSteps
        /\ UNCHANGED <<binary, progress, pushers, server, up, pusher>>
    BY <1>5 DEF R!Launch, R!At, R!download, R!Idle, StartedSteps
  <2>2. CASE spawned' = spawned /\ servers' = servers /\ R!Answer(r)
    <3>1. doing' = [doing EXCEPT ![r] = R!Idle] /\ saw' = [saw EXCEPT ![r] = 0]
      BY <2>2 DEF R!Answer
    <3>2. Served(r, R!Idle, 0)
      BY <2>1, <3>1, Serves
    <3>3. CallInv(r)'
      BY <3>2 DEF Served, CallInv, EmptySteps, LookingSteps, StartedSteps, R!Idle
    <3> QED BY <2>1, <2>2, <3>2, <3>3, LooksKeeps DEF StartedSteps, R!Idle
  <2>3. CASE /\ spawned' = spawned + 1 /\ servers' = servers \union {spawned'}
             /\ saw' = [saw EXCEPT ![r] = spawned'] /\ R!Goto(r, "start", "record")
    <3>1. Served(r, <<"start", "record">>, spawned')
      BY <2>1, <2>3, Serves DEF R!Goto
    <3>2. servers \subseteq {server} /\ pushers \subseteq {pusher} /\ Apart /\ ~up
      BY <2>1, OnRecord DEF StartedSteps, CallInv
    <3>3. servers = {} /\ servers' = {spawned'}
      BY <2>3, <3>2 DEF Apart
    <3>4. spawned' \in Nat /\ spawned' > spawned /\ spawned' \in 1..spawned' /\ spawned \in Nat
      BY <2>3, <3>2 DEF Apart
    <3>5. spawned' \notin pushers /\ spawned' # pusher /\ spawned' # server
      BY <3>2, <3>4 DEF Apart
    <3>6. Apart'
      <4>1. server' \in 0..spawned' /\ pusher' \in 0..spawned' /\ pushers' \subseteq 1..spawned'
        BY <2>1, <3>2, <3>4 DEF Apart
      <4>2. servers' \subseteq 1..spawned' /\ servers' \cap pushers' = {} /\ pusher' \notin servers' /\ server' \notin servers'
        BY <2>1, <3>3, <3>4, <3>5
      <4> QED BY <2>1, <3>2, <3>4, <4>1, <4>2 DEF Apart
    <3>7. CallInv(r)'
      <4>1. doing'[r] = <<"start", "record">> /\ saw'[r] = spawned'
        BY <3>1 DEF Served
      <4> QED BY <2>1, <3>2, <3>3, <3>4, <3>5, <4>1 DEF CallInv, EmptySteps, LookingSteps, StartedSteps, R!Idle
    <3> QED BY <2>1, <3>1, <3>2, <3>6, <3>7, ServedKeeps
  <2> QED BY <1>5, <2>2, <2>3 DEF R!Launch
<1>6. ASSUME NEW r \in Calls, R!Record(r) PROVE RtspInv'
  <2>1. /\ doing[r] = <<"start", "record">> /\ doing[r] # R!Idle /\ doing[r] # <<"push", "record">>
        /\ server' = saw[r] /\ up' = TRUE
        /\ saw' = [saw EXCEPT ![r] = 0] /\ doing' = [doing EXCEPT ![r] = <<"state", "read">>]
        /\ UNCHANGED <<binary, progress, servers, pushers, pusher, spawned>>
    BY <1>6 DEF R!Record, R!At, R!Goto, R!download, R!Idle
  <2>2. Served(r, <<"state", "read">>, 0)
    BY <2>1, Serves
  <2>3. /\ servers \subseteq {saw[r]} /\ saw[r] \in 1..spawned /\ saw[r] \notin pushers /\ saw[r] # pusher
        /\ Apart /\ pushers \subseteq {pusher}
    BY <2>1, OnRecord DEF CallInv
  <2>4. Apart'
    BY <2>1, <2>3 DEF Apart
  <2>5. CallInv(r)'
    BY <2>2 DEF Served, CallInv, EmptySteps, LookingSteps, StartedSteps, R!Idle
  <2> QED BY <2>1, <2>2, <2>3, <2>4, <2>5, ServedKeeps
<1>7. ASSUME NEW r \in Calls, R!Status(r) PROVE RtspInv'
  <2>1. PICK op_ \in {"state", "push"} : R!Goto(r, op_, "read")
    BY <1>7 DEF R!Status
  <2>2. R!Free(r) /\ doing[r] = R!Idle /\ UNCHANGED <<saw, binary, progress, servers, pushers, server, up, pusher, spawned>>
    BY <1>7 DEF R!Status, R!Free, R!download
  <2>3. Served(r, <<op_, "read">>, saw[r]) /\ saw[r] = 0
    BY <2>1, <2>2, ServesStill DEF R!Goto, RtspInv, CallInv, EmptySteps
  <2>4. CallInv(r)'
    BY <2>3 DEF Served, CallInv, EmptySteps, LookingSteps, StartedSteps, R!Idle
  <2> QED BY <2>2, <2>3, <2>4, LooksKeeps DEF StartedSteps, R!Idle
<1>8. ASSUME NEW r \in Calls, R!IsRunning(r) PROVE RtspInv'
  <2>1. /\ doing[r] \in {<<"state", "read">>, <<"push", "read">>} /\ doing[r][1] \in {"state", "push"}
        /\ UNCHANGED <<binary, progress, servers, pushers, server, up, pusher, spawned>>
    BY <1>8 DEF R!IsRunning, R!At, R!download
  <2>2. doing[r] # R!Idle /\ doing[r] \notin StartedSteps /\ saw[r] = 0
    BY <2>1 DEF R!Idle, StartedSteps, RtspInv, CallInv, EmptySteps
  <2>3. \E step, seen :
           /\ Served(r, step, seen)
           /\ \/ step \in {<<"state", "write">>, <<"push", "write">>} /\ seen = server
              \/ step \in {<<"state", "go">>, <<"push", "go">>, R!Idle} /\ seen = 0
    <3>1. CASE saw' = [saw EXCEPT ![r] = server] /\ R!Goto(r, doing[r][1], "write")
      <4>1. Served(r, <<doing[r][1], "write">>, server)
        BY <2>2, <3>1, Serves DEF R!Goto
      <4> QED BY <2>1, <4>1
    <3>2. CASE saw' = saw /\ R!Goto(r, doing[r][1], "go")
      <4>1. Served(r, <<doing[r][1], "go">>, saw[r])
        BY <2>2, <3>2, ServesStill DEF R!Goto
      <4> QED BY <2>1, <2>2, <4>1
    <3>3. CASE R!Answer(r)
      <4>1. Served(r, R!Idle, 0)
        BY <2>2, <3>3, Serves DEF R!Answer
      <4> QED BY <4>1
    <3> QED BY <1>8, <3>1, <3>2, <3>3 DEF R!IsRunning
  <2>4. PICK step, seen :
           /\ Served(r, step, seen)
           /\ \/ step \in {<<"state", "write">>, <<"push", "write">>} /\ seen = server
              \/ step \in {<<"state", "go">>, <<"push", "go">>, R!Idle} /\ seen = 0
    BY <2>3
  <2>5. CallInv(r)'
    BY <2>1, <2>4 DEF Served, CallInv, EmptySteps, LookingSteps, StartedSteps, R!Idle
  <2>6. step \notin StartedSteps
    BY <2>4 DEF StartedSteps, R!Idle
  <2> QED BY <2>1, <2>2, <2>4, <2>5, <2>6, LooksKeeps
<1>9. ASSUME NEW r \in Calls, R!Polled(r) PROVE RtspInv'
  <2>1. /\ doing[r] \in {<<"state", "write">>, <<"push", "write">>} /\ doing[r][1] \in {"state", "push"}
        /\ UNCHANGED <<binary, progress, servers, pushers, server, pusher, spawned>>
    BY <1>9 DEF R!Polled, R!At, R!download
  <2>2. /\ doing[r] # R!Idle /\ doing[r] # <<"start", "record">> /\ doing[r] # <<"push", "record">>
        /\ doing[r] \notin StartedSteps /\ saw[r] = server
    BY <2>1 DEF R!Idle, StartedSteps, RtspInv, CallInv
  <2>3. CASE saw[r] \in servers
    <3>1. R!Goto(r, doing[r][1], "go") /\ saw' = saw /\ up' = up
      BY <1>9, <2>3 DEF R!Polled
    <3>2. Served(r, <<doing[r][1], "go">>, saw[r])
      BY <2>2, <3>1, ServesStill DEF R!Goto
    <3>3. CallInv(r)'
      BY <2>1, <2>2, <3>2 DEF Served, CallInv, EmptySteps, LookingSteps, StartedSteps, R!Idle
    <3> QED BY <2>1, <2>2, <3>1, <3>2, <3>3, LooksKeeps DEF StartedSteps
  <2>4. CASE saw[r] \notin servers
    <3>1. up' = FALSE
      BY <1>9, <2>4 DEF R!Polled
    <3>2. \E step \in {<<"state", "go">>, R!Idle}, seen \in {0, server} :
             Served(r, step, seen) /\ (step = R!Idle => seen = 0)
      <4>1. CASE R!Answer(r)
        BY <2>2, <4>1, Serves DEF R!Answer
      <4>2. CASE R!Goto(r, "state", "go") /\ saw' = saw
        <5>1. Served(r, <<"state", "go">>, saw[r])
          BY <2>2, <4>2, ServesStill DEF R!Goto
        <5> QED BY <2>2, <5>1 DEF R!Idle
      <4> QED BY <1>9, <2>4, <4>1, <4>2 DEF R!Polled
    <3>3. PICK step \in {<<"state", "go">>, R!Idle}, seen \in {0, server} :
             Served(r, step, seen) /\ (step = R!Idle => seen = 0)
      BY <3>2
    <3>4. CallInv(r)'
      BY <2>1, <3>3 DEF Served, CallInv, EmptySteps, LookingSteps, StartedSteps, R!Idle
    <3>5. servers \subseteq {server} /\ pushers \subseteq {pusher} /\ Apart
      BY <2>2, OnRecord
    <3>6. Apart'
      BY <2>1, <2>2, <2>4, <3>1, <3>5 DEF Apart
    <3> QED BY <2>1, <3>3, <3>4, <3>5, <3>6, ServedKeeps
  <2> QED BY <2>3, <2>4
<1>10. ASSUME NEW r \in Calls, R!State(r) PROVE RtspInv'
  <2>1. /\ doing[r] = <<"state", "go">> /\ doing[r] # R!Idle /\ doing[r] \notin StartedSteps /\ R!Answer(r)
        /\ UNCHANGED <<binary, progress, servers, pushers, server, up, pusher, spawned>>
    BY <1>10 DEF R!State, R!At, R!download, R!Idle, StartedSteps
  <2>2. Served(r, R!Idle, 0)
    BY <2>1, Serves DEF R!Answer
  <2>3. CallInv(r)'
    BY <2>2 DEF Served, CallInv, EmptySteps, LookingSteps, StartedSteps, R!Idle
  <2> QED BY <2>1, <2>2, <2>3, LooksKeeps DEF StartedSteps, R!Idle
<1>11. ASSUME NEW r \in Calls, R!Stop(r) PROVE RtspInv'
  <2>1. PICK op_ \in {"stop", "stop_push"} : R!Goto(r, op_, "go")
    BY <1>11 DEF R!Stop
  <2>2. R!Free(r) /\ doing[r] = R!Idle /\ UNCHANGED <<saw, binary, progress, servers, pushers, server, up, pusher, spawned>>
    BY <1>11 DEF R!Stop, R!Free, R!download
  <2>3. Served(r, <<op_, "go">>, saw[r]) /\ saw[r] = 0
    BY <2>1, <2>2, ServesStill DEF R!Goto, RtspInv, CallInv, EmptySteps
  <2>4. CallInv(r)'
    BY <2>3 DEF Served, CallInv, EmptySteps, LookingSteps, StartedSteps, R!Idle
  <2> QED BY <2>2, <2>3, <2>4, LooksKeeps DEF StartedSteps, R!Idle
<1>12. ASSUME NEW r \in Calls, R!KillPush(r) PROVE RtspInv'
  <2>1. /\ doing[r] \in {<<"stop", "go">>, <<"stop_push", "go">>, <<"push", "go">>}
        /\ doing[r][1] \in {"stop", "stop_push", "push"}
        /\ pushers' = pushers \ {pusher} /\ R!Goto(r, doing[r][1], "killed")
        /\ UNCHANGED <<binary, progress, servers, server, up, pusher, spawned, saw>>
    BY <1>12 DEF R!KillPush, R!At, R!download
  <2>2. doing[r] # R!Idle /\ doing[r] # <<"start", "record">> /\ doing[r] # <<"push", "record">>
    BY <2>1 DEF R!Idle
  <2>3. servers \subseteq {server} /\ pushers \subseteq {pusher} /\ Apart /\ CallInv(r)
    BY <2>2, OnRecord
  <2>4. pushers' = {}
    BY <2>1, <2>3
  <2>5. Served(r, <<doing[r][1], "killed">>, saw[r])
    BY <2>1, <2>2, ServesStill DEF R!Goto
  <2>6. /\ doing[r][1] \in {"stop", "stop_push"} => saw[r] = 0
        /\ saw[r] \in {0, server}
    BY <2>1, <2>3 DEF CallInv, EmptySteps, LookingSteps
  <2>7. CallInv(r)'
    <3>1. doing'[r] = <<doing[r][1], "killed">> /\ saw'[r] = saw[r]
      BY <2>5 DEF Served
    <3>2. CASE doing[r][1] = "push"
      BY <2>1, <2>4, <2>6, <3>1, <3>2 DEF CallInv, EmptySteps, LookingSteps, StartedSteps, R!Idle
    <3>3. CASE doing[r][1] \in {"stop", "stop_push"}
      BY <2>1, <2>4, <2>6, <3>1, <3>3 DEF CallInv, EmptySteps, LookingSteps, StartedSteps, R!Idle
    <3> QED BY <2>1, <3>2, <3>3
  <2>8. Apart'
    BY <2>1, <2>3, <2>4 DEF Apart
  <2> QED BY <2>1, <2>3, <2>4, <2>5, <2>7, <2>8, ServedKeeps
<1>13. ASSUME NEW r \in Calls, R!ClearPush(r) PROVE RtspInv'
  <2>1. /\ doing[r] \in {<<"stop", "killed">>, <<"stop_push", "killed">>, <<"push", "killed">>}
        /\ doing[r][1] \in {"stop", "stop_push", "push"} /\ pusher' = 0
        /\ UNCHANGED <<binary, progress, servers, pushers, server, up, spawned>>
    BY <1>13 DEF R!ClearPush, R!At, R!download
  <2>2. doing[r] # R!Idle /\ doing[r] # <<"start", "record">> /\ doing[r] # <<"push", "record">>
    BY <2>1 DEF R!Idle
  <2>3. servers \subseteq {server} /\ pushers = {} /\ Apart /\ CallInv(r)
    BY <2>1, <2>2, OnRecord DEF CallInv
  <2>4. /\ doing[r][1] = "stop" => saw[r] = 0
        /\ saw[r] \in {0, server}
    BY <2>1, <2>3 DEF CallInv, EmptySteps, LookingSteps
  <2>5. \E step \in {<<"stop", "next">>, <<"push", "next">>, R!Idle}, seen \in {0, server} :
           Served(r, step, seen) /\ (step # <<"push", "next">> => seen = 0)
    <3>1. CASE doing[r][1] = "stop_push"
      <4>1. R!Answer(r)
        BY <1>13, <3>1 DEF R!ClearPush
      <4>2. Served(r, R!Idle, 0)
        BY <2>2, <4>1, Serves DEF R!Answer
      <4> QED BY <4>2
    <3>2. CASE doing[r][1] \in {"stop", "push"}
      <4>1. R!Goto(r, doing[r][1], "next") /\ saw' = saw
        BY <1>13, <3>2 DEF R!ClearPush
      <4>2. Served(r, <<doing[r][1], "next">>, saw[r])
        BY <2>2, <4>1, ServesStill DEF R!Goto
      <4> QED BY <2>4, <3>2, <4>2
    <3> QED BY <2>1, <3>1, <3>2
  <2>6. PICK step \in {<<"stop", "next">>, <<"push", "next">>, R!Idle}, seen \in {0, server} :
           Served(r, step, seen) /\ (step # <<"push", "next">> => seen = 0)
    BY <2>5
  <2>7. CallInv(r)'
    <3>1. doing'[r] = step /\ saw'[r] = seen
      BY <2>6 DEF Served
    <3> QED BY <2>1, <2>3, <2>6, <3>1 DEF CallInv, EmptySteps, LookingSteps, StartedSteps, R!Idle
  <2>8. Apart'
    <3>1. 0 \notin servers
      BY <2>3 DEF Apart
    <3> QED BY <2>1, <2>3, <3>1 DEF Apart
  <2> QED BY <2>1, <2>3, <2>6, <2>7, <2>8, ServedKeeps
<1>14. ASSUME NEW r \in Calls, R!PushOn(r) PROVE RtspInv'
  <2>1. UNCHANGED <<binary, progress, servers, server, up>>
    BY <1>14 DEF R!PushOn, R!download
  <2>2. CASE /\ R!At(r, {<<"push", "next">>}) /\ spawned' = spawned + 1
             /\ pushers' = pushers \union {spawned'} /\ saw' = [saw EXCEPT ![r] = spawned']
             /\ R!Goto(r, "push", "record") /\ pusher' = pusher
    <3>1. doing[r] = <<"push", "next">> /\ doing[r] # R!Idle /\ doing[r] # <<"start", "record">>
      BY <2>2 DEF R!At, R!Idle
    <3>2. servers \subseteq {server} /\ pushers = {} /\ pusher = 0 /\ Apart
      BY <3>1, OnRecord DEF CallInv
    <3>3. Served(r, <<"push", "record">>, spawned')
      BY <2>2, <3>1, Serves DEF R!Goto
    <3>4. /\ spawned' \in Nat /\ spawned' > spawned /\ spawned' \in 1..spawned' /\ spawned \in Nat /\ pushers' = {spawned'}
          /\ spawned' \notin servers /\ spawned' # server /\ spawned' # 0
      BY <2>2, <3>2 DEF Apart
    <3>5. Apart'
      BY <2>1, <2>2, <3>2, <3>4 DEF Apart
    <3>6. CallInv(r)'
      <4>1. doing'[r] = <<"push", "record">> /\ saw'[r] = spawned'
        BY <3>3 DEF Served
      <4> QED BY <2>1, <2>2, <3>2, <3>4, <4>1 DEF CallInv, EmptySteps, LookingSteps, StartedSteps, R!Idle
    <3> QED BY <2>1, <3>2, <3>3, <3>5, <3>6, ServedKeeps
  <2>3. CASE R!At(r, {<<"push", "record">>}) /\ pusher' = saw[r] /\ R!Answer(r) /\ spawned' = spawned /\ pushers' = pushers
    <3>1. doing[r] = <<"push", "record">> /\ doing[r] # R!Idle /\ doing[r] # <<"start", "record">>
      BY <2>3 DEF R!At, R!Idle
    <3>2. /\ servers \subseteq {server} /\ pushers \subseteq {saw[r]} /\ pusher = 0 /\ Apart
          /\ saw[r] \in 1..spawned /\ saw[r] \notin servers /\ saw[r] # server
      BY <3>1, OnRecord DEF CallInv
    <3>3. Served(r, R!Idle, 0)
      BY <2>3, <3>1, Serves DEF R!Answer
    <3>4. Apart'
      BY <2>1, <2>3, <3>2 DEF Apart
    <3>5. CallInv(r)'
      BY <3>3 DEF Served, CallInv, EmptySteps, LookingSteps, StartedSteps, R!Idle
    <3> QED BY <2>1, <2>3, <3>2, <3>3, <3>4, <3>5, ServedKeeps
  <2> QED BY <1>14, <2>2, <2>3 DEF R!PushOn
<1>15. ASSUME NEW r \in Calls, R!StopOn(r) PROVE RtspInv'
  <2>1. UNCHANGED <<binary, progress, pushers, pusher, spawned>>
    BY <1>15 DEF R!StopOn, R!download
  <2>2. CASE /\ R!At(r, {<<"stop", "next">>}) /\ servers' = servers \ {server} /\ R!Goto(r, "stop", "clear")
             /\ UNCHANGED <<server, up, saw>>
    <3>1. doing[r] = <<"stop", "next">> /\ doing[r] # R!Idle /\ doing[r] # <<"start", "record">>
      BY <2>2 DEF R!At, R!Idle
    <3>2. servers \subseteq {server} /\ pushers = {} /\ pusher = 0 /\ Apart /\ saw[r] = 0
      BY <3>1, OnRecord DEF CallInv, EmptySteps
    <3>3. Served(r, <<"stop", "clear">>, saw[r])
      BY <2>2, <3>1, ServesStill DEF R!Goto
    <3>4. servers' = {}
      BY <2>2, <3>2
    <3>5. Apart'
      BY <2>1, <2>2, <3>2, <3>4 DEF Apart
    <3>6. CallInv(r)'
      <4>1. doing'[r] = <<"stop", "clear">> /\ saw'[r] = 0
        BY <3>2, <3>3 DEF Served
      <4> QED BY <2>1, <2>2, <3>2, <3>4, <4>1 DEF CallInv, EmptySteps, LookingSteps, StartedSteps, R!Idle
    <3> QED BY <2>1, <3>2, <3>3, <3>4, <3>5, <3>6, ServedKeeps
  <2>3. CASE R!At(r, {<<"stop", "clear">>}) /\ server' = 0 /\ up' = FALSE /\ R!Answer(r) /\ servers' = servers
    <3>1. doing[r] = <<"stop", "clear">> /\ doing[r] # R!Idle
      BY <2>3 DEF R!At, R!Idle
    <3>2. servers = {} /\ pushers = {} /\ pusher = 0 /\ Apart
      BY <3>1, OnRecord DEF CallInv
    <3>3. Served(r, R!Idle, 0)
      BY <2>3, <3>1, Serves DEF R!Answer
    <3>4. Apart'
      BY <2>1, <2>3, <3>2 DEF Apart
    <3>5. CallInv(r)'
      BY <3>3 DEF Served, CallInv, EmptySteps, LookingSteps, StartedSteps, R!Idle
    <3> QED BY <2>1, <2>3, <3>2, <3>3, <3>4, <3>5, ServedKeeps
  <2> QED BY <1>15, <2>2, <2>3 DEF R!StopOn
<1>16. CASE UNCHANGED R!vars
  <2>1. /\ UNCHANGED <<server, up, pusher, spawned, doing, saw, binary, progress>>
        /\ servers' = servers /\ pushers' = pushers
    BY <1>16 DEF R!vars
  <2>2. R!DoneIsReady'
    BY <2>1 DEF RtspInv, R!DoneIsReady
  <2> QED BY <2>1, <2>2, QuietProcesses
<1>17. ASSUME NEW r \in Calls, R!Serve(r) PROVE RtspInv'
  BY <1>3, <1>4, <1>5, <1>6, <1>7, <1>8, <1>9, <1>10, <1>11, <1>12, <1>13, <1>14, <1>15, <1>17 DEF R!Serve
<1> QED BY <1>1, <1>2, <1>16, <1>17 DEF R!Next

\* The invariant of the RTSP server, for any number of requests and processes.
THEOREM RtspIsInductive == RtspConstants => (R!Spec => []RtspInv)
<1> SUFFICES ASSUME RtspConstants PROVE R!Spec => []RtspInv
  OBVIOUS
<1>1. R!Init => RtspInv
  BY RtspStarts
<1>2. RtspInv /\ [R!Next]_(R!vars) => RtspInv'
  BY RtspSteps
<1> QED BY <1>1, <1>2, PTL DEF R!Spec

-----------------------------------------------------------------------------
(* Sampler *)

\* Runs do not overlap.
SamplerConstants == ~RunsOverlap

\* A run that is on is the one run that is; its thread is the one that is waited for, and
\* none loops after its run.
On == {"going", "stopping"}
SamplerInv ==
    /\ DOMAIN run = SampledRuns /\ DOMAIN at = SampledRuns /\ DOMAIN taken = SampledRuns
    /\ \A r \in SampledRuns : run[r] \in On => thread = {r}
    /\ \A p, q \in SampledRuns : run[p] \in On /\ run[q] \in On => p = q
    /\ \A r \in SampledRuns : run[r] \in On \union {"waiting", "over", "failed"}
    /\ \A r \in SampledRuns : at[r] \in C!InLoop => run[r] \in On \union {"failed"}
    /\ C!OwnSamples

LEMMA SamplerStarts == C!Init => SamplerInv
<1> SUFFICES ASSUME C!Init PROVE SamplerInv
  OBVIOUS
<1>1. /\ run = [r \in SampledRuns |-> "waiting"] /\ at = [r \in SampledRuns |-> "none"]
      /\ taken = [r \in SampledRuns |-> {}]
  BY DEF C!Init
<1> QED BY <1>1 DEF SamplerInv, On, C!InLoop, C!OwnSamples

\* A thread goes on without a sample.
LEMMA ThreadGoesOn ==
    ASSUME SamplerInv, NEW r \in SampledRuns, NEW to, at' = [at EXCEPT ![r] = to],
           to \in C!InLoop => at[r] \in C!InLoop, run' = run, thread' = thread, taken' = taken
    PROVE  SamplerInv'
<1>1. DOMAIN at' = SampledRuns /\ at'[r] = to /\ \A q \in SampledRuns \ {r} : at'[q] = at[q]
  BY DEF SamplerInv
<1>2. \A q \in SampledRuns : at'[q] \in C!InLoop => run'[q] \in On \union {"failed"}
  BY <1>1 DEF SamplerInv
<1> QED BY <1>1, <1>2 DEF SamplerInv, C!OwnSamples

LEMMA SamplerSteps == SamplerConstants /\ SamplerInv /\ [C!Next]_(C!vars) => SamplerInv'
<1> SUFFICES ASSUME SamplerConstants, SamplerInv, [C!Next]_(C!vars) PROVE SamplerInv'
  OBVIOUS
<1>1. ASSUME NEW r \in SampledRuns, C!StartSampler(r) PROVE SamplerInv'
  <2>1. run[r] = "waiting" /\ \A q \in SampledRuns : run[q] \in {"waiting", "over", "failed"}
    BY <1>1 DEF C!StartSampler, SamplerConstants
  <2>2. /\ run' = [run EXCEPT ![r] = "going"] /\ thread' = {r} /\ at' = [at EXCEPT ![r] = "loop"] /\ taken' = taken
    BY <1>1 DEF C!StartSampler
  <2>3. /\ DOMAIN run' = SampledRuns /\ run'[r] = "going" /\ \A q \in SampledRuns \ {r} : run'[q] = run[q]
        /\ DOMAIN at' = SampledRuns /\ at'[r] = "loop" /\ \A q \in SampledRuns \ {r} : at'[q] = at[q]
    BY <2>2 DEF SamplerInv
  <2>4. \A q \in SampledRuns \ {r} : run'[q] \notin On /\ run'[q] \in {"waiting", "over", "failed"}
    BY <2>1, <2>3 DEF On
  <2>5. C!OwnSamples'
    BY <2>1, <2>2, <2>3 DEF SamplerInv, C!OwnSamples
  <2> QED BY <2>2, <2>3, <2>4, <2>5 DEF SamplerInv, On
<1>2. ASSUME NEW r \in SampledRuns, C!SetStop(r) \/ C!Join(r) \/ C!RunFails(r) PROVE SamplerInv'
  <2>1. PICK to \in {"stopping", "over", "failed"} :
          /\ run' = [run EXCEPT ![r] = to] /\ run[r] \in On
          /\ to = "over" => \A t \in thread : at[t] \notin C!InLoop
    BY <1>2 DEF C!SetStop, C!Join, C!RunFails, On
  <2>2. thread' = thread /\ at' = at /\ taken' = taken
    BY <1>2 DEF C!SetStop, C!Join, C!RunFails
  <2>3. DOMAIN run' = SampledRuns /\ run'[r] = to /\ \A q \in SampledRuns \ {r} : run'[q] = run[q]
    BY <2>1 DEF SamplerInv
  <2>4. at[r] \in C!InLoop => to \in On \union {"failed"}
    BY <2>1 DEF SamplerInv, On
  <2>5. C!OwnSamples'
    <3> SUFFICES ASSUME NEW q \in SampledRuns, run'[q] # "failed" PROVE \A s \in taken'[q] : s.during = {q}
      BY DEF C!OwnSamples
    <3>1. run[q] # "failed"
      BY <2>1, <2>3 DEF On
    <3> QED BY <2>2, <3>1 DEF SamplerInv, C!OwnSamples
  <2> QED BY <2>1, <2>2, <2>3, <2>4, <2>5 DEF SamplerInv, On
<1>3. ASSUME NEW r \in SampledRuns, C!TestStop(r) PROVE SamplerInv'
  <2>1. PICK to \in {"sample", "ended", "fold"} : at' = [at EXCEPT ![r] = to]
    BY <1>3 DEF C!TestStop
  <2>2. at[r] \in C!InLoop /\ run' = run /\ thread' = thread /\ taken' = taken
    BY <1>3 DEF C!TestStop, C!InLoop
  <2> QED BY <2>1, <2>2, ThreadGoesOn
<1>4. ASSUME NEW r \in SampledRuns, C!Pause(r) \/ C!Fold(r) \/ C!Persist(r) \/ C!WriteStats(r) PROVE SamplerInv'
  <2>1. PICK to \in {"loop", "persist", "stats", "ended"} :
          at' = [at EXCEPT ![r] = to] /\ (to = "loop" => at[r] = "pause")
    BY <1>4 DEF C!Pause, C!Fold, C!Persist, C!WriteStats, C!Step
  <2>2. run' = run /\ thread' = thread /\ taken' = taken
    BY <1>4 DEF C!Pause, C!Fold, C!Persist, C!WriteStats
  <2>3. to \in C!InLoop => at[r] \in C!InLoop
    BY <2>1 DEF C!InLoop
  <2> QED BY <2>1, <2>2, <2>3, ThreadGoesOn
<1>5. ASSUME NEW r \in SampledRuns, C!Sample(r) PROVE SamplerInv'
  <2>1. at[r] = "sample" /\ at' = [at EXCEPT ![r] = "pause"] /\ run' = run /\ thread' = thread
    BY <1>5 DEF C!Sample, C!Step
  <2> DEFINE s == [n |-> C!Cardinality(taken[r]) + 1, during |-> {q \in SampledRuns : run[q] \in On}]
  <2>2. /\ s.during = {q \in SampledRuns : run[q] \in On}
        /\ taken' = taken \/ taken' = [taken EXCEPT ![r] = taken[r] \union {s}]
    BY <1>5 DEF C!Sample, On
  <2> HIDE DEF s
  <2>3. run[r] \in On \union {"failed"}
    BY <2>1 DEF SamplerInv, C!InLoop
  <2>4. run[r] \in On => s.during = {r}
    BY <2>2 DEF SamplerInv
  <2>5. /\ DOMAIN taken' = SampledRuns /\ taken'[r] \subseteq taken[r] \union {s}
        /\ \A q \in SampledRuns \ {r} : taken'[q] = taken[q]
    BY <2>2 DEF SamplerInv
  <2>6. C!OwnSamples'
    <3> SUFFICES ASSUME NEW q \in SampledRuns, run'[q] # "failed" PROVE \A o \in taken'[q] : o.during = {q}
      BY DEF C!OwnSamples
    <3>1. \A o \in taken[q] : o.during = {q}
      BY <2>1 DEF SamplerInv, C!OwnSamples
    <3>2. q = r => s.during = {q}
      BY <2>1, <2>3, <2>4
    <3> QED BY <2>5, <3>1, <3>2
  <2>7. DOMAIN at' = SampledRuns /\ at'[r] = "pause" /\ \A q \in SampledRuns \ {r} : at'[q] = at[q]
    BY <2>1 DEF SamplerInv
  <2>8. \A q \in SampledRuns : at'[q] \in C!InLoop => run'[q] \in On \union {"failed"}
    BY <2>1, <2>3, <2>7 DEF SamplerInv
  <2> QED BY <2>1, <2>5, <2>6, <2>7, <2>8 DEF SamplerInv
<1>6. CASE UNCHANGED C!vars
  BY <1>6 DEF C!vars, SamplerInv, C!OwnSamples
<1> QED BY <1>1, <1>2, <1>3, <1>4, <1>5, <1>6 DEF C!Next

\* The invariant of the sampler, for any number of runs, modes and samples.
THEOREM SamplerIsInductive == SamplerConstants => (C!Spec => []SamplerInv)
<1> SUFFICES ASSUME SamplerConstants PROVE C!Spec => []SamplerInv
  OBVIOUS
<1>1. C!Init => SamplerInv
  BY SamplerStarts
<1>2. SamplerInv /\ [C!Next]_(C!vars) => SamplerInv'
  BY SamplerSteps
<1> QED BY <1>1, <1>2, PTL DEF C!Spec

\* When MCKept runs the RTSP server or the sampler, it does what they do.
LEMMA HelpersRun ==
    RtspConstants /\ SamplerConstants =>
        (KeptSpec => [](/\ which = "rtsp" => RtspInv
                        /\ which = "sampler" => SamplerInv))
<1> SUFFICES ASSUME RtspConstants, SamplerConstants
             PROVE  KeptSpec => [](/\ which = "rtsp" => RtspInv
                                   /\ which = "sampler" => SamplerInv)
  OBVIOUS
<1>1. KeptInit => (which = "rtsp" => RtspInv) /\ (which = "sampler" => SamplerInv)
  BY RtspStarts, SamplerStarts DEF KeptInit
<1>2. /\ UNCHANGED rtspVars => UNCHANGED R!vars
      /\ UNCHANGED samplerVars => UNCHANGED C!vars
  BY DEF rtspVars, R!vars, samplerVars, C!vars
<1>3. (which = "rtsp" => RtspInv) /\ [KeptNext]_keptVars => (which = "rtsp" => RtspInv)'
  BY <1>2, RtspSteps DEF KeptNext, RunVault, RunFiles, RunSetup, RunConfig, RunUsage, RunRtsp, RunSampler,
     RunEnhancer, keptVars
<1>4. (which = "sampler" => SamplerInv) /\ [KeptNext]_keptVars => (which = "sampler" => SamplerInv)'
  BY <1>2, SamplerSteps DEF KeptNext, RunVault, RunFiles, RunSetup, RunConfig, RunUsage, RunRtsp, RunSampler,
     RunEnhancer, keptVars
<1> QED BY <1>1, <1>3, <1>4, PTL DEF KeptSpec

\* A process that lives is the one on record or one that a request is about to record, so
\* that a stop reaches it (rtsp_server.py), for any number of requests served one at a time and of
\* processes; and what a run's CPU figures are made of was sampled while it ran alone
\* (cpu_sampler.py), for any number of runs that do not overlap, modes and samples.
THEOREM HelpersAreOwned == RtspConstants /\ SamplerConstants => (KeptSpec => []HelpersOwned)
<1> SUFFICES ASSUME RtspConstants, SamplerConstants PROVE KeptSpec => []HelpersOwned
  OBVIOUS
<1>1. RtspInv => R!NoOrphans /\ R!DoneIsReady
  <2> SUFFICES ASSUME RtspInv PROVE R!NoOrphans /\ R!DoneIsReady
    OBVIOUS
  <2>1. ProcInv /\ R!DoneIsReady /\ \A r \in Calls : CallInv(r)
    BY DEF RtspInv
  <2>2. servers \subseteq {server} \union {saw[r] : r \in Calls}
    <3>1. CASE \A r \in Calls : doing[r] # <<"start", "record">>
      BY <2>1, <3>1 DEF ProcInv
    <3>2. CASE \E r \in Calls : doing[r] = <<"start", "record">>
      <4>1. PICK r \in Calls : doing[r] = <<"start", "record">>
        BY <3>2
      <4>2. servers \subseteq {saw[r]}
        BY <2>1, <4>1 DEF CallInv
      <4> QED BY <4>2
    <3> QED BY <3>1, <3>2
  <2>3. pushers \subseteq {pusher} \union {saw[r] : r \in Calls}
    <3>1. CASE \A r \in Calls : doing[r] # <<"push", "record">>
      BY <2>1, <3>1 DEF ProcInv
    <3>2. CASE \E r \in Calls : doing[r] = <<"push", "record">>
      <4>1. PICK r \in Calls : doing[r] = <<"push", "record">>
        BY <3>2
      <4>2. pushers \subseteq {saw[r]}
        BY <2>1, <4>1 DEF CallInv
      <4> QED BY <4>2
    <3> QED BY <3>1, <3>2
  <2> QED BY <2>1, <2>2, <2>3 DEF R!NoOrphans
<1>2. SamplerInv => C!OwnSamples
  BY DEF SamplerInv
<1>3. (which = "rtsp" => RtspInv) /\ (which = "sampler" => SamplerInv) => HelpersOwned
  BY <1>1, <1>2 DEF HelpersOwned
<1> QED BY <1>3, HelpersRun, PTL

-----------------------------------------------------------------------------
(* Enhancer *)

\* Scales are positive, every model that ships some ships at least one, and bicubic is no model.
EnhancerConstants ==
    /\ Scales \subseteq Nat \ {0}
    /\ \A m \in DOMAIN Ships : Ships[m] \subseteq Nat \ {0} /\ Ships[m] # {}
    /\ "bicubic" \notin DOMAIN Ships /\ "bicubic" \notin Rrdb

\* The inductive invariant: a model is in use exactly when there is one, and nothing is written
\* before it is; the background of an open segment has its size, or the source's; the scale
\* in effect is told, but after an RRDBNet model failed; boxes are scaled as was asked for.
ActiveTold == active = H!Factor \/ (wanted.model \in Rrdb /\ model.kind = "none" /\ active = 4)
EnhancerInv ==
    /\ wanted.scale \in Nat \ {0}
    /\ using <=> model.kind # "none"
    /\ using => wanted.model # "bicubic" /\ loading = "done" /\ model.scale \in Nat \ {0}
    /\ model.kind \in {"none", "dnn", "rrdb"}
    /\ model.kind = "rrdb" => active = 4
    /\ model.kind = "dnn" => active \in Ships[wanted.model] /\ model.device = "cpu"
    /\ loading = "retry" => wanted.model \in Rrdb /\ active = 4
    /\ loading = "start" => active = wanted.scale
    /\ loading # "done" => opened = 0
    /\ ActiveTold
    /\ written.picture # 0 => written.boxes = IF wanted.upscale THEN wanted.scale ELSE 1
    /\ opened \in {0, H!Upscaled}
    /\ background \in {0, 1, opened}
    /\ opened = 0 => background = 0 /\ written.picture = 0
    /\ H!PipeFits

\* A nearest scale is one that is shipped.
LEMMA NearestIsShipped ==
    ASSUME EnhancerConstants, wanted.model \in DOMAIN Ships, wanted.scale \in Nat
    PROVE  H!Nearest \in Ships[wanted.model]
<1> DEFINE ships == Ships[wanted.model]
           distances == {H!Distance(s) : s \in ships}
           nearest == {s \in ships : \A t \in ships : H!Distance(s) <= H!Distance(t)}
<1>1. ships \subseteq Nat /\ ships # {}
  BY DEF EnhancerConstants
<1> HIDE DEF ships
<1>2. ASSUME NEW s \in ships PROVE H!Distance(s) \in Nat
  <2>1. s \in Nat /\ wanted.scale \in Nat
    BY <1>1
  <2>2. CASE s < wanted.scale
    <3>1. H!Distance(s) = wanted.scale - s
      BY <2>2 DEF H!Distance
    <3> QED BY <2>1, <2>2, <3>1
  <2>3. CASE ~(s < wanted.scale)
    <3>1. H!Distance(s) = s - wanted.scale
      BY <2>3 DEF H!Distance
    <3> QED BY <2>1, <2>3, <3>1
  <2> QED BY <2>2, <2>3
<1>3. distances \in SUBSET Nat /\ distances # {}
  BY <1>1, <1>2
<1>4. PICK d \in distances : \A e \in distances : d <= e
  BY <1>3, LeastNumber
<1>5. nearest # {}
  BY <1>4
<1>6. nearest \in SUBSET Nat
  BY <1>1
<1>7. \E x \in nearest : \A y \in nearest : x <= y
  <2> HIDE DEF nearest
  <2> QED BY <1>5, <1>6, LeastNumber
<1>8. H!Min(nearest) \in nearest
  <2> HIDE DEF nearest
  <2> QED BY <1>7 DEF H!Min
<1>9. H!Nearest = H!Min(nearest)
  BY DEF H!Nearest, ships
<1> QED BY <1>8, <1>9 DEF ships

LEMMA EnhancerStarts == EnhancerConstants /\ H!Init => EnhancerInv
<1> SUFFICES ASSUME EnhancerConstants, H!Init PROVE EnhancerInv
  OBVIOUS
<1>1. wanted.scale \in Scales
  BY DEF H!Init
<1>2. /\ loading = "start" /\ model = H!NoModel /\ using = FALSE /\ opened = 0
      /\ written.picture = 0 /\ background = 0
  BY DEF H!Init
<1>3. model.kind = "none"
  BY <1>2 DEF H!NoModel
<1>4. wanted.scale \in Nat \ {0}
  BY <1>1 DEF EnhancerConstants
<1>5. active = H!Factor /\ active = wanted.scale
  BY <1>2 DEF H!Init, H!Factor
<1> QED BY <1>2, <1>3, <1>4, <1>5 DEF EnhancerInv, ActiveTold, H!PipeFits

\* The size that frames are upscaled to is that of the model and of what is asked for.
LEMMA UpscaledStays == UNCHANGED <<wanted, using, model>> => H!Upscaled' = H!Upscaled
  BY DEF H!Upscaled, H!Factor

LEMMA UpscaledPositive == EnhancerInv => H!Upscaled \in Nat \ {0}
  BY DEF EnhancerInv, H!Upscaled, H!Factor

\* A model is loaded while nothing is open.
LEMMA ModelLoads ==
    ASSUME EnhancerInv, loading # "done", UNCHANGED <<wanted, opened, written, background>>,
           loading' \in {"retry", "done"}, loading' = "retry" => wanted.model \in Rrdb /\ active' = 4,
           ActiveTold',
           using' <=> model'.kind # "none", model'.kind \in {"none", "dnn", "rrdb"},
           using' => wanted.model # "bicubic" /\ loading' = "done" /\ model'.scale \in Nat \ {0},
           model'.kind = "rrdb" => active' = 4,
           model'.kind = "dnn" => active' \in Ships[wanted.model] /\ model'.device = "cpu"
    PROVE  EnhancerInv'
<1>1. opened = 0 /\ background = 0 /\ written.picture = 0
  BY DEF EnhancerInv
<1> QED BY <1>1 DEF EnhancerInv, H!PipeFits

LEMMA EnhancerSteps == EnhancerConstants /\ EnhancerInv /\ [H!Next]_(H!vars) => EnhancerInv'
<1> SUFFICES ASSUME EnhancerConstants, EnhancerInv, [H!Next]_(H!vars) PROVE EnhancerInv'
  OBVIOUS
<1>1. loading # "done" => ~using /\ model.kind = "none"
  BY DEF EnhancerInv
<1>2. CASE H!LoadDnn
  <2>1. loading = "start" /\ wanted.model \in DOMAIN Ships /\ loading' = "done"
    BY <1>2 DEF H!LoadDnn, H!Loaded
  <2>2. UNCHANGED <<wanted, opened, written, background>>
    BY <1>2 DEF H!LoadDnn
  <2>3. H!Nearest \in Ships[wanted.model]
    BY <2>1, NearestIsShipped DEF EnhancerInv
  <2>4. H!Nearest \in Nat \ {0} /\ wanted.model # "bicubic"
    BY <2>1, <2>3 DEF EnhancerConstants
  <2>5. CASE H!Loaded("dnn", H!Nearest, "cpu")
    <3>1. model'.kind = "dnn" /\ model'.scale = H!Nearest /\ model'.device = "cpu" /\ using' = TRUE /\ active' = H!Nearest
      BY <2>5 DEF H!Loaded
    <3>2. ActiveTold'
      BY <3>1 DEF ActiveTold, H!Factor
    <3> QED BY <2>1, <2>2, <2>3, <2>4, <3>1, <3>2, ModelLoads
  <2>6. CASE UNCHANGED <<model, using, active>>
    <3>1. ActiveTold'
      BY <2>2, <2>6 DEF EnhancerInv, ActiveTold, H!Factor
    <3> QED BY <1>1, <2>1, <2>2, <2>6, <3>1, ModelLoads
  <2> QED BY <1>2, <2>5, <2>6 DEF H!LoadDnn
<1>3. CASE H!BuildRrdb
  <2>1. loading = "start" /\ wanted.model # "bicubic" /\ wanted.model \in Rrdb /\ loading' \in {"retry", "done"}
    BY <1>3 DEF H!BuildRrdb, H!Loaded, EnhancerConstants
  <2>2. UNCHANGED <<wanted, opened, written, background>>
    BY <1>3 DEF H!BuildRrdb
  <2>3. CASE H!Loaded("rrdb", 4, H!Device)
    <3>1. model'.kind = "rrdb" /\ model'.scale = 4 /\ using' = TRUE /\ active' = 4 /\ loading' = "done"
      BY <2>3 DEF H!Loaded
    <3>2. ActiveTold'
      BY <3>1 DEF ActiveTold, H!Factor
    <3> QED BY <2>1, <2>2, <3>1, <3>2, ModelLoads
  <2>4. CASE UNCHANGED <<model, using>>
    <3>1. ~using' /\ model'.kind = "none" /\ (using' <=> model'.kind # "none")
      BY <1>1, <2>1, <2>4 DEF EnhancerInv
    <3>2. active' = 4 \/ (active' = active /\ loading' = "done")
      BY <1>3, <2>4 DEF H!BuildRrdb, H!Loaded
    <3>3. active = wanted.scale
      BY <2>1 DEF EnhancerInv
    <3>4. ActiveTold' /\ (loading' = "retry" => active' = 4)
      BY <2>1, <2>2, <3>1, <3>2, <3>3 DEF ActiveTold, H!Factor
    <3> QED BY <2>1, <2>2, <3>1, <3>4, ModelLoads
  <2> QED BY <1>3, <2>3, <2>4 DEF H!BuildRrdb
<1>4. CASE H!RetryOnCpu
  <2>1. loading = "retry" /\ loading' = "done" /\ wanted.model # "bicubic" /\ wanted.model \in Rrdb /\ active = 4
    BY <1>4 DEF H!RetryOnCpu, H!Loaded, EnhancerInv, EnhancerConstants
  <2>2. UNCHANGED <<wanted, opened, written, background>>
    BY <1>4 DEF H!RetryOnCpu
  <2>3. CASE H!Loaded("rrdb", 4, "cpu")
    <3>1. model'.kind = "rrdb" /\ model'.scale = 4 /\ using' = TRUE /\ active' = 4
      BY <2>3 DEF H!Loaded
    <3>2. ActiveTold'
      BY <3>1 DEF ActiveTold, H!Factor
    <3> QED BY <2>1, <2>2, <3>1, <3>2, ModelLoads
  <2>4. CASE model' = H!NoModel /\ using' = FALSE /\ active' = active
    <3>1. ~using' /\ model'.kind = "none"
      BY <2>4 DEF H!NoModel
    <3>2. ActiveTold'
      BY <2>1, <2>2, <2>4, <3>1 DEF ActiveTold
    <3> QED BY <2>1, <2>2, <3>1, <3>2, ModelLoads
  <2> QED BY <1>4, <2>3, <2>4 DEF H!RetryOnCpu
<1>5. CASE H!LoadNothing
  <2>1. loading = "start" /\ loading' = "done" /\ UNCHANGED <<wanted, model, using, active, opened, written, background>>
    BY <1>5 DEF H!LoadNothing
  <2>2. using' <=> model'.kind # "none"
    BY <2>1 DEF EnhancerInv
  <2>3. ActiveTold'
    BY <2>1 DEF EnhancerInv, ActiveTold, H!Factor
  <2> QED BY <1>1, <2>1, <2>2, <2>3, ModelLoads
<1>6. CASE H!LearnBackground
  <2>1. /\ loading = "done" /\ UNCHANGED <<wanted, loading, model, using, active, opened, written>>
        /\ background' = IF opened # 0 /\ background # 0 THEN 1 ELSE background
    BY <1>6 DEF H!LearnBackground
  <2>2. H!Upscaled' = H!Upscaled
    BY <2>1, UpscaledStays
  <2>3. H!PipeFits'
    <3>1. CASE background' = background
      BY <2>1, <3>1 DEF EnhancerInv, H!PipeFits
    <3>2. CASE opened # 0 /\ background # 0 /\ background' = 1
      BY <2>1, <3>2 DEF EnhancerInv, H!PipeFits
    <3> QED BY <2>1, <3>1, <3>2
  <2>4. ActiveTold'
    BY <2>1 DEF EnhancerInv, ActiveTold, H!Factor
  <2> QED BY <2>1, <2>2, <2>3, <2>4 DEF EnhancerInv
<1>7. CASE H!KeepFrame
  <2>1. /\ loading = "done" /\ UNCHANGED <<wanted, loading, model, using, active>>
        /\ written'.picture = IF background' = 0 THEN H!Upscaled ELSE background'
        /\ written'.boxes = IF wanted.upscale THEN wanted.scale ELSE 1
    BY <1>7 DEF H!KeepFrame
  <2>2. H!Upscaled' = H!Upscaled /\ H!Upscaled \in Nat \ {0}
    BY <2>1, UpscaledStays, UpscaledPositive
  <2>3. opened' = H!Upscaled /\ background' \in {0, 1, opened'}
    BY <1>7 DEF H!KeepFrame, H!Open, EnhancerInv
  <2>4. H!PipeFits'
    BY <2>1, <2>3 DEF H!PipeFits
  <2>5. ActiveTold'
    BY <2>1 DEF EnhancerInv, ActiveTold, H!Factor
  <2> QED BY <2>1, <2>2, <2>3, <2>4, <2>5 DEF EnhancerInv
<1>8. CASE H!CloseSegment
  <2>1. /\ UNCHANGED <<wanted, loading, model, using, active>>
        /\ opened' = 0 /\ background' = 0 /\ written'.picture = 0
    BY <1>8 DEF H!CloseSegment
  <2>2. ActiveTold'
    BY <2>1 DEF EnhancerInv, ActiveTold, H!Factor
  <2> QED BY <2>1, <2>2 DEF EnhancerInv, H!PipeFits
<1>9. CASE UNCHANGED H!vars
  <2>1. UNCHANGED <<wanted, loading, model, using, active, opened, written, background>>
    BY <1>9 DEF H!vars
  <2>2. H!Upscaled' = H!Upscaled
    BY <2>1, UpscaledStays
  <2>3. ActiveTold'
    BY <2>1 DEF EnhancerInv, ActiveTold, H!Factor
  <2> QED BY <2>1, <2>2, <2>3 DEF EnhancerInv, H!PipeFits
<1> QED BY <1>2, <1>3, <1>4, <1>5, <1>6, <1>7, <1>8, <1>9 DEF H!Next

\* The invariant of the enhancer, for every table of models and scales and every machine.
THEOREM EnhancerIsInductive == EnhancerConstants => (H!Spec => []EnhancerInv)
<1> SUFFICES ASSUME EnhancerConstants PROVE H!Spec => []EnhancerInv
  OBVIOUS
<1>1. H!Init => EnhancerInv
  BY EnhancerStarts
<1>2. EnhancerInv /\ [H!Next]_(H!vars) => EnhancerInv'
  BY EnhancerSteps
<1> QED BY <1>1, <1>2, PTL DEF H!Spec

\* When MCKept runs the enhancer, it does what the enhancer does.
LEMMA EnhancerRuns == EnhancerConstants => (KeptSpec => [](which = "enhancer" => EnhancerInv))
<1> SUFFICES ASSUME EnhancerConstants PROVE KeptSpec => [](which = "enhancer" => EnhancerInv)
  OBVIOUS
<1>1. KeptInit => (which = "enhancer" => EnhancerInv)
  BY EnhancerStarts DEF KeptInit
<1>2. UNCHANGED enhancerVars => UNCHANGED H!vars
  BY DEF enhancerVars, H!vars
<1>3. (which = "enhancer" => EnhancerInv) /\ [KeptNext]_keptVars => (which = "enhancer" => EnhancerInv)'
  BY <1>2, EnhancerSteps DEF KeptNext, RunVault, RunFiles, RunSetup, RunConfig, RunUsage, RunRtsp, RunSampler,
     RunEnhancer, keptVars
<1> QED BY <1>1, <1>3, PTL DEF KeptSpec

\* Enhancer.backend: whatever step of the load fails on whatever machine, the run names a model
\* exactly when frames go through it, and tells the scale in effect, but after an RRDBNet
\* model failed; a picture that is not composed on a background of another size has the size
\* its pipe was opened with; and the boxes do, unless the model runs at another scale than
\* the one asked for.
THEOREM EnhancerTellsTheTruth == EnhancerConstants => (KeptSpec => []EnhancedAsSaid)
<1> SUFFICES ASSUME EnhancerConstants PROVE KeptSpec => []EnhancedAsSaid
  OBVIOUS
<1>1. EnhancerInv => H!BackendTruthful
  <2> SUFFICES ASSUME EnhancerInv PROVE H!BackendTruthful
    OBVIOUS
  <2>1. using => H!Backend = <<wanted.model, model.device>> /\ H!Backend[1] = wanted.model
    BY DEF H!Backend
  <2>2. ~using => H!Backend[1] = "bicubic"
    BY DEF H!Backend
  <2>3. using <=> model.kind # "none"
    BY DEF EnhancerInv
  <2>4. H!Backend[1] # "bicubic" <=> model.kind # "none"
    BY <2>1, <2>2, <2>3 DEF EnhancerInv
  <2>5. model.kind = "rrdb" => H!Backend = <<wanted.model, model.device>> /\ active = 4
    BY <2>1, <2>3 DEF EnhancerInv
  <2>6. model.kind = "dnn" => active \in Ships[wanted.model] /\ model.device = "cpu"
    BY DEF EnhancerInv
  <2>7. active = H!Factor \/ (wanted.model \in Rrdb /\ model.kind = "none" /\ active = 4)
    BY DEF EnhancerInv, ActiveTold
  <2> QED BY <2>4, <2>5, <2>6, <2>7 DEF H!BackendTruthful
<1>2. EnhancerInv => H!BoxesFit
  BY DEF EnhancerInv, H!BoxesFit, H!Upscaled, H!Factor
<1>3. (which = "enhancer" => EnhancerInv) => EnhancedAsSaid
  BY <1>1, <1>2 DEF EnhancerInv, EnhancedAsSaid
<1> QED BY <1>3, EnhancerRuns, PTL
=============================================================================
