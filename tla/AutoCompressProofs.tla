------------------------- MODULE AutoCompressProofs -------------------------
(***************************************************************************)
(* Proofs about AutoCompress.  The inductive invariant follows the file a  *)
(* pass writes: it is never another pass's file, it is complete once an    *)
(* uninterrupted run whose reads did not end early has returned, and       *)
(* nothing changes it until the pass is done with the clip; and the file a *)
(* pass picks, which is playable when it is picked and stays so.           *)
(***************************************************************************)
EXTENDS AutoCompress, TLAPS

LEMMA OutputPair ==
    ASSUME NEW s \in Sources, NEW n \in 1..MaxOut
    PROVE  <<s, n>> \in Outputs /\ <<s, n>>[1] = s
BY DEF Outputs

LEMMA NoneApart == None \notin Sources /\ None \notin Outputs /\ None \notin Passes
BY NoneAssumption

\* The locals of a pass that finishes a clip or leaves a scan stay well typed.
LEMMA FinishType ==
    ASSUME TypeOK, NEW p \in Passes, FinishFile(p) \/ LeaveScan(p)
    PROVE  /\ pc' \in [Passes -> PassPCs] /\ todo' \in [Passes -> SUBSET Sources]
           /\ cur' \in [Passes -> Sources \union {None}]
           /\ before' \in [Passes -> SUBSET Outputs] /\ new' \in [Passes -> SUBSET Outputs]
           /\ own' \in [Passes -> Outputs \union {None}]
           /\ chosen' \in [Passes -> Outputs \union {None}]
           /\ early' \subseteq Passes
<1>1. CASE FinishFile(p)
  <2>1. pc' \in [Passes -> PassPCs]
    BY <1>1 DEF TypeOK, FinishFile, PassPCs
  <2>2. todo' \in [Passes -> SUBSET Sources]
    BY <1>1 DEF TypeOK, FinishFile
  <2>3. cur' \in [Passes -> Sources \union {None}]
    BY <1>1 DEF TypeOK, FinishFile
  <2>4. before' \in [Passes -> SUBSET Outputs] /\ new' \in [Passes -> SUBSET Outputs]
    BY <1>1 DEF TypeOK, FinishFile
  <2>5. own' \in [Passes -> Outputs \union {None}] /\ chosen' \in [Passes -> Outputs \union {None}]
    BY <1>1 DEF TypeOK, FinishFile
  <2>6. early' \subseteq Passes
    BY <1>1 DEF TypeOK, FinishFile
  <2>7. QED BY <2>1, <2>2, <2>3, <2>4, <2>5, <2>6
<1>2. CASE LeaveScan(p)
  <2>1. pc' \in [Passes -> PassPCs]
    BY <1>2 DEF TypeOK, LeaveScan, PassPCs
  <2>2. todo' \in [Passes -> SUBSET Sources]
    BY <1>2 DEF TypeOK, LeaveScan
  <2>3. cur' \in [Passes -> Sources \union {None}]
    BY <1>2 DEF TypeOK, LeaveScan
  <2>4. before' \in [Passes -> SUBSET Outputs] /\ new' \in [Passes -> SUBSET Outputs]
    BY <1>2 DEF TypeOK, LeaveScan
  <2>5. own' \in [Passes -> Outputs \union {None}] /\ chosen' \in [Passes -> Outputs \union {None}]
    BY <1>2 DEF TypeOK, LeaveScan
  <2>6. early' \subseteq Passes
    BY <1>2 DEF TypeOK, LeaveScan
  <2>7. QED BY <2>1, <2>2, <2>3, <2>4, <2>5, <2>6
<1>3. QED BY <1>1, <1>2

LEMMA CloseType ==
    ASSUME TypeOK, NEW p \in Passes, NEW state \in OutStates, CloseOwn(p, state)
    PROVE  out' \in [Outputs -> OutStates] /\ mtime' \in [Outputs -> Nat] /\ closes' \in Nat
BY DEF TypeOK, CloseOwn

LEMMA EmptyIndexType == EmptyIndex \in [Sources \X BOOLEAN -> Outputs \union {None}]
BY DEF EmptyIndex

LEMMA SaveType ==
    ASSUME TypeOK, NEW ix \in [Sources \X BOOLEAN -> Outputs \union {None}], SaveIndex(ix)
    PROVE  index' \in [Sources \X BOOLEAN -> Outputs \union {None}]
BY EmptyIndexType DEF TypeOK, SaveIndex

LEMMA PurgeType ==
    ASSUME TypeOK, NEW gone \in SUBSET Purgeable, Purge(gone)
    PROVE  /\ out' \in [Outputs -> OutStates]
           /\ index' \in [Sources \X BOOLEAN -> Outputs \union {None}]
<1>1. out' \in [Outputs -> OutStates]
  BY DEF TypeOK, Purge, OutStates
<1>2. index' \in [Sources \X BOOLEAN -> Outputs \union {None}]
  <2>1. CASE gone = {}
    BY <2>1 DEF Purge, TypeOK
  <2>2. CASE gone # {}
    <3> DEFINE left == [o \in Outputs |-> IF o \in gone THEN "purged" ELSE out[o]]
               dead(k) == index[k] # None => left[index[k]] \in {"none", "purged"}
               pruned == [k \in Sources \X BOOLEAN |-> IF dead(k) THEN None ELSE index[k]]
    <3>1. pruned \in [Sources \X BOOLEAN -> Outputs \union {None}]
      <4>1. \A k \in Sources \X BOOLEAN : index[k] \in Outputs \union {None}
        BY DEF TypeOK
      <4> HIDE DEF dead
      <4>2. QED BY <4>1
    <3>2. SaveIndex(pruned)
      BY <2>2 DEF Purge
    <3> HIDE DEF pruned
    <3>3. QED BY <3>1, <3>2, SaveType
  <2>3. QED BY <2>1, <2>2
<1>3. QED BY <1>1, <1>2

LEMMA ScanTypeStep ==
    ASSUME TypeOK, NEW p \in Passes
    PROVE  /\ ScanStart(p) => TypeOK'
           /\ \A s \in Sources : SkipUnstable(p, s) \/ AlreadyDone(p, s) => TypeOK'
           /\ \A s \in Sources : Begin(p, s) => TypeOK'
           /\ EndScan(p) \/ Escape(p) => TypeOK'
<1> USE DEF TypeOK, diskVars, slotVars, fileVars, Goto, PassPCs
<1>1. ScanStart(p) => TypeOK'
  BY DEF ScanStart, Candidates
<1>2. \A s \in Sources : SkipUnstable(p, s) \/ AlreadyDone(p, s) => TypeOK'
  BY DEF SkipUnstable, AlreadyDone
<1>3. \A s \in Sources : Begin(p, s) => TypeOK'
  BY DEF Begin, CameraOutputs
<1>4. EndScan(p) \/ Escape(p) => TypeOK'
  BY FinishType DEF EndScan, Escape
<1>5. QED BY <1>1, <1>2, <1>3, <1>4

LEMMA EncodeTypeStep ==
    ASSUME TypeOK, CurSet, NEW p \in Passes
    PROVE  /\ OpenOutput(p) => TypeOK'
           /\ EncodeEnd(p) \/ EncodeStopped(p) => TypeOK'
           /\ EncodeFail(p) => TypeOK'
<1> USE DEF diskVars, slotVars, fileVars, Goto, PassPCs, OutStates
<1>1. OpenOutput(p) => TypeOK'
  BY OutputPair DEF OpenOutput, CurSet, Working, TypeOK
<1>2. EncodeEnd(p) \/ EncodeStopped(p) => TypeOK'
  BY CloseType DEF EncodeEnd, EncodeStopped, TypeOK
<1>3. EncodeFail(p) => TypeOK'
  BY CloseType, FinishType DEF EncodeFail, TypeOK
<1>4. QED BY <1>1, <1>2, <1>3

LEMMA DecideTypeStep ==
    ASSUME TypeOK, CurSet, NEW p \in Passes
    PROVE  /\ Interrupted(p) \/ VerifyFail(p) \/ KeepOriginal(p) => TypeOK'
           /\ Collect(p) => TypeOK'
           /\ VerifyOk(p) => TypeOK'
           /\ Record(p) => TypeOK'
           /\ DeleteOriginal(p) => TypeOK'
<1> USE DEF diskVars, slotVars, fileVars
<1>1. Interrupted(p) \/ VerifyFail(p) \/ KeepOriginal(p) => TypeOK'
  BY FinishType DEF Interrupted, VerifyFail, KeepOriginal, TypeOK
<1>2. ASSUME Collect(p) PROVE TypeOK'
  <2>1. cur[p] \in Sources
    BY <1>2 DEF CurSet, Collect, Working
  <2>2. ingested' \subseteq Sources
    BY <1>2, <2>1 DEF TypeOK, Collect, TakeNew
  <2>3. CASE FinishFile(p)
    BY <1>2, <2>2, <2>3, FinishType DEF TypeOK, Collect, TakeNew
  <2>4. CASE ~FinishFile(p)
    <3>1. CameraOutputs(cur[p]) \ before[p] \in SUBSET Outputs
      BY DEF CameraOutputs
    <3>2. before' \in [Passes -> SUBSET Outputs] /\ new' \in [Passes -> SUBSET Outputs]
      BY <1>2, <2>4, <3>1 DEF TypeOK, Collect, TakeNew
    <3>3. pc' \in [Passes -> PassPCs]
      BY <1>2, <2>4 DEF TypeOK, Collect, TakeNew, Goto, PassPCs
    <3>4. QED BY <1>2, <2>2, <2>4, <3>2, <3>3 DEF TypeOK, Collect, TakeNew
  <2>5. QED BY <2>3, <2>4
<1>3. VerifyOk(p) => TypeOK'
  BY DEF VerifyOk, Newest, TypeOK, Goto, PassPCs
<1>4. Record(p) => TypeOK'
  BY FinishType, SaveType DEF Record, TypeOK, Goto, PassPCs, Signature
<1>5. DeleteOriginal(p) => TypeOK'
  BY FinishType DEF DeleteOriginal, TypeOK
<1>6. QED BY <1>1, <1>2, <1>3, <1>4, <1>5

LEMMA DaemonTypeStep ==
    ASSUME TypeOK, NEW d \in Daemons
    PROVE  /\ StartCheck(d) \/ StartThread(d) \/ DaemonExit(d) => TypeOK'
           /\ Retain(d) => TypeOK'
<1> USE DEF diskVars, slotVars, fileVars, passVars
<1>0. d \in Passes
  BY DEF Passes
<1>1. StartCheck(d) \/ StartThread(d) \/ DaemonExit(d) => TypeOK'
  BY <1>0 DEF StartCheck, StartThread, DaemonExit, IsRunning, TypeOK, Goto, PassPCs
<1>2. Retain(d) => TypeOK'
  BY <1>0, PurgeType DEF Retain, TypeOK, Goto, PassPCs
<1>3. QED BY <1>1, <1>2

LEMMA ProcessTypeStep ==
    ASSUME TypeOK
    PROVE  /\ StopDaemon => TypeOK'
           /\ PurgeNow => TypeOK'
           /\ Crash => TypeOK'
<1> USE DEF diskVars, slotVars, fileVars, passVars
<1>1. StopDaemon => TypeOK'
  BY DEF StopDaemon, IsRunning, TypeOK
<1>2. PurgeNow => TypeOK'
  BY PurgeType DEF PurgeNow, TypeOK
<1>3. ASSUME Crash PROVE TypeOK'
  <2>1. out' \in [Outputs -> OutStates]
    BY <1>3 DEF Crash, TypeOK, OutStates
  <2>2. index' \in [Sources \X BOOLEAN -> Outputs \union {None}]
    BY <1>3, EmptyIndexType DEF Crash, TypeOK
  <2>3. crashes' \in 0..MaxCrash
    BY <1>3, BoundAssumption DEF Crash, TypeOK
  <2>4. /\ pc' \in [Passes -> PassPCs] /\ todo' \in [Passes -> SUBSET Sources]
        /\ cur' \in [Passes -> Sources \union {None}]
        /\ before' \in [Passes -> SUBSET Outputs] /\ new' \in [Passes -> SUBSET Outputs]
        /\ own' \in [Passes -> Outputs \union {None}]
        /\ chosen' \in [Passes -> Outputs \union {None}] /\ early' \subseteq Passes
    BY <1>3 DEF Crash, PassPCs
  <2>5. QED BY <1>3, <2>1, <2>2, <2>3, <2>4 DEF Crash, TypeOK
<1>4. QED BY <1>1, <1>2, <1>3

-----------------------------------------------------------------------------
(* The file a pass writes *)

\* What a pass that is done with its clip leaves to the others.
LEMMA FinishKeeps ==
    ASSUME IInv, NEW p \in Passes, pc[p] # "off", FinishFile(p) \/ LeaveScan(p),
           starting' = starting, stop' = stop,
           \A q \in Passes \ {p} : own[q] # None => out'[own[q]] = out[own[q]]
    PROVE  CurSet' /\ StartingOff' /\ OwnFile' /\ FullRun' /\ EarlyEnded'
<1>1. /\ \A q \in Passes \ {p} : pc'[q] = pc[q] /\ own'[q] = own[q] /\ cur'[q] = cur[q]
      /\ early' = early \ {p}
      /\ pc'[p] \notin Working /\ own'[p] = None /\ pc'[p] \in {"files", "retain", "off"}
      /\ p \notin starting
  BY DEF FinishFile, LeaveScan, Working, IInv, TypeOK, StartingOff
<1>2. CurSet'
  BY <1>1 DEF IInv, CurSet
<1>3. StartingOff'
  BY <1>1 DEF IInv, StartingOff, TypeOK, Passes
<1>4. OwnFile'
  BY <1>1 DEF IInv, OwnFile
<1>5. FullRun'
  <2>1. \A q \in Passes \ {p} : Stopped(q)' = Stopped(q)
    BY DEF Stopped
  <2>2. QED BY <1>1, <2>1 DEF IInv, FullRun, Working
<1>6. EarlyEnded'
  BY <1>1 DEF IInv, EarlyEnded, TypeOK
<1>7. QED BY <1>2, <1>3, <1>4, <1>5, <1>6

\* A picked file is closed and out of retention's reach, so a step that changes no
\* picked file leaves every pick playable.
LEMMA PickKeeps ==
    ASSUME IInv, NEW p \in Passes,
           \A q \in Passes \ {p} : /\ pc'[q] = pc[q] /\ new'[q] = new[q]
                                    /\ cur'[q] = cur[q] /\ chosen'[q] = chosen[q],
           pc'[p] \notin {"verify", "record", "delete"},
           \A o \in Outputs : Decodable(o) /\ (\E q \in Passes : chosen[q] = o) => out'[o] = out[o]
    PROVE  ChosenPlayable'
BY DEF IInv, ChosenPlayable, Decodable

LEMMA FinishPicks ==
    ASSUME IInv, NEW p \in Passes, FinishFile(p) \/ LeaveScan(p),
           \A o \in Outputs : Decodable(o) /\ (\E q \in Passes : chosen[q] = o) => out'[o] = out[o]
    PROVE  ChosenPlayable'
<1>1. /\ \A q \in Passes \ {p} : /\ pc'[q] = pc[q] /\ new'[q] = new[q]
                                  /\ cur'[q] = cur[q] /\ chosen'[q] = chosen[q]
      /\ pc'[p] \notin {"verify", "record", "delete"}
  BY DEF FinishFile, LeaveScan, IInv, TypeOK
<1>2. QED BY <1>1, PickKeeps

\* The file an encoding pass closes is nobody's pick: it was being written.
LEMMA ClosePicks ==
    ASSUME IInv, NEW p \in Passes, pc[p] = "encode", NEW state \in OutStates, CloseOwn(p, state)
    PROVE  \A o \in Outputs : Decodable(o) => out'[o] = out[o]
BY DEF IInv, TypeOK, OwnFile, CloseOwn, Decodable

\* Closing one's file touches no other pass's file.
LEMMA CloseKeeps ==
    ASSUME IInv, NEW p \in Passes, NEW state \in OutStates \ {"none"}, CloseOwn(p, state)
    PROVE  /\ \A q \in Passes \ {p} : own[q] # None => out'[own[q]] = out[own[q]]
           /\ own[p] # None => out'[own[p]] = state
           /\ NothingKept'
<1>1. \A q \in Passes \ {p} : own[q] # None => out'[own[q]] = out[own[q]]
  BY DEF IInv, TypeOK, OwnFile, CloseOwn
<1>2. own[p] # None => out'[own[p]] = state
  BY DEF IInv, TypeOK, CloseOwn
<1>3. NothingKept'
  BY DEF IInv, TypeOK, OwnFile, NothingKept, CloseOwn
<1>4. QED BY <1>1, <1>2, <1>3

\* Retention touches no file of a working pass and creates none.
LEMMA PurgeKeeps ==
    ASSUME IInv, NEW gone \in SUBSET Purgeable, Purge(gone)
    PROVE  /\ \A q \in Passes : own[q] # None => out'[own[q]] = out[own[q]]
           /\ NothingKept'
           /\ \A o \in Outputs : (\E q \in Passes : chosen[q] = o) => out'[o] = out[o]
<1>1. \A o \in Outputs : out'[o] = IF o \in gone THEN "purged" ELSE out[o]
  BY DEF Purge
<1>2. \A q \in Passes : own[q] # None => own[q] \in Outputs /\ own[q] \notin gone
  BY DEF IInv, TypeOK, Purgeable
<1>3. NothingKept'
  BY <1>1 DEF IInv, NothingKept, Purgeable, OnDisk
<1>4. \A o \in Outputs : (\E q \in Passes : chosen[q] = o) => out'[o] = out[o]
  BY <1>1 DEF Purgeable
<1>5. QED BY <1>1, <1>2, <1>3, <1>4

-----------------------------------------------------------------------------
(* Every step keeps the invariant *)

LEMMA ScanStep ==
    ASSUME IInv, NEW p \in Passes
    PROVE  /\ ScanStart(p) => IInv'
           /\ \A s \in Sources : SkipUnstable(p, s) \/ AlreadyDone(p, s) => IInv'
           /\ \A s \in Sources : Begin(p, s) => IInv'
           /\ EndScan(p) \/ Escape(p) => IInv'
<1> USE DEF IInv, diskVars, slotVars, fileVars
<1>1. ASSUME ScanStart(p) PROVE IInv'
  <2>1. TypeOK'
    BY <1>1, ScanTypeStep
  <2>2. own[p] = None
    BY <1>1 DEF ScanStart, OwnFile, Working
  <2>4. CurSet' /\ OwnFile' /\ FullRun' /\ NothingKept' /\ EarlyEnded' /\ ChosenPlayable'
    BY <1>1, <2>2 DEF ScanStart, Goto, CurSet, OwnFile, FullRun, NothingKept, Working, Stopped, TypeOK,
                      EarlyEnded, ChosenPlayable, Decodable
  <2>5. StartingOff'
    BY <1>1, PassAssumption DEF ScanStart, Goto, StartingOff, TypeOK
  <2>6. QED BY <2>1, <2>4, <2>5
<1>2. ASSUME NEW s \in Sources, SkipUnstable(p, s) \/ AlreadyDone(p, s) PROVE IInv'
  <2>1. TypeOK'
    BY <1>2, ScanTypeStep
  <2>2. QED
    BY <1>2, <2>1 DEF SkipUnstable, AlreadyDone, CurSet, StartingOff, OwnFile, FullRun,
                      NothingKept, Stopped, EarlyEnded, ChosenPlayable, Decodable
<1>3. ASSUME NEW s \in Sources, Begin(p, s) PROVE IInv'
  <2>1. TypeOK'
    BY <1>3, ScanTypeStep
  <2>2. own[p] = None /\ p \notin starting
    BY <1>3 DEF Begin, OwnFile, Working, StartingOff
  <2>3. QED
    BY <1>3, <2>1, <2>2 DEF Begin, Goto, CurSet, StartingOff, OwnFile, FullRun, NothingKept,
                            Stopped, Working, TypeOK, EarlyEnded, ChosenPlayable, Decodable
<1>4. ASSUME EndScan(p) \/ Escape(p) PROVE IInv'
  <2>1. TypeOK'
    BY <1>4, ScanTypeStep
  <2>2. CurSet' /\ StartingOff' /\ OwnFile' /\ FullRun' /\ EarlyEnded'
    BY <1>4, FinishKeeps DEF EndScan, Escape
  <2>3. ChosenPlayable'
    BY <1>4, FinishPicks DEF EndScan, Escape
  <2>4. QED BY <1>4, <2>1, <2>2, <2>3 DEF EndScan, Escape, NothingKept
<1>5. QED BY <1>1, <1>2, <1>3, <1>4

LEMMA EncodeStep ==
    ASSUME Unambiguous, IInv, NEW p \in Passes
    PROVE  /\ OpenOutput(p) => IInv'
           /\ EncodeEnd(p) \/ EncodeStopped(p) => IInv'
           /\ EncodeFail(p) => IInv'
<1> USE DEF diskVars, slotVars, fileVars
<1>1. ASSUME OpenOutput(p) PROVE IInv'
  <2>1. TypeOK'
    BY <1>1, EncodeTypeStep DEF IInv
  <2>2. cur[p] \in Sources
    BY <1>1 DEF IInv, CurSet, OpenOutput, Working
  <2>3. PICK n \in 1..MaxOut :
           /\ out[<<cur[p], n>>] = "none"
           /\ out' = [out EXCEPT ![<<cur[p], n>>] = "writing"]
           /\ own' = [own EXCEPT ![p] = <<cur[p], n>>]
    BY <1>1 DEF OpenOutput
  <2> DEFINE o == <<cur[p], n>>
  <2>4. o \in Outputs /\ o[1] = cur[p] /\ o # None
    BY <2>2, OutputPair, NoneApart
  <2>5. \A q \in Passes : own[q] # None => own[q] # o /\ out'[own[q]] = out[own[q]]
    BY <2>3, ZenonT(30) DEF IInv, OwnFile, TypeOK
  <2>6. own'[p] = o /\ out'[o] = "writing" /\ \A q \in Passes \ {p} : own'[q] = own[q]
    BY <2>3, <2>4 DEF IInv, TypeOK
  <2> HIDE DEF o
  <2>7. CurSet' /\ StartingOff'
    BY <1>1 DEF OpenOutput, IInv, CurSet, StartingOff
  <2>8. OwnFile'
    BY <1>1, <2>4, <2>5, <2>6 DEF OpenOutput, IInv, OwnFile, Working
  <2>9. NothingKept'
    <3> SUFFICES ASSUME NEW q \in Passes, NEW r \in Outputs, <<q, r[1]>> \in Empty
                 PROVE  out'[r] = "none"
      BY DEF NothingKept
    <3>1. CASE r = o
      <4>1. <<p, cur[p]>> \in Empty
        BY <2>2, <2>4, <3>1 DEF Unambiguous
      <4>2. QED BY <1>1, <4>1 DEF OpenOutput
    <3>2. CASE r # o
      BY <2>3, <3>2 DEF IInv, NothingKept, TypeOK, o
    <3>3. QED BY <3>1, <3>2
  <2>10. FullRun'
    BY <1>1, <2>5, <2>6 DEF OpenOutput, IInv, FullRun, Stopped
  <2>11. EarlyEnded'
    BY <1>1 DEF OpenOutput, IInv, EarlyEnded
  <2>12. \A r \in Outputs : Decodable(r) => out'[r] = out[r]
    BY <2>3, <2>4 DEF IInv, TypeOK, Decodable, o
  <2>13. ChosenPlayable'
    BY <1>1, <2>12 DEF OpenOutput, IInv, ChosenPlayable, Decodable
  <2>14. QED BY <2>1, <2>7, <2>8, <2>9, <2>10, <2>11, <2>13 DEF IInv
<1>2. ASSUME EncodeEnd(p) \/ EncodeStopped(p) PROVE IInv'
  <2>1. TypeOK'
    BY <1>2, EncodeTypeStep DEF IInv
  <2>2. PICK state \in {"full", "cut", "broken"} :
           CloseOwn(p, state) /\ (state = "full" \/ Stopped(p) \/ p \in early')
    BY <1>2 DEF EncodeEnd, EncodeStopped
  <2>3. /\ \A q \in Passes \ {p} : own[q] # None => out'[own[q]] = out[own[q]]
        /\ own[p] # None => out'[own[p]] = state
        /\ NothingKept'
    BY <2>2, CloseKeeps DEF OutStates
  <2>4. pc[p] = "encode" /\ pc' = [pc EXCEPT ![p] = "encoded"] /\ own' = own /\ cur' = cur
        /\ stop' = stop /\ starting' = starting /\ new' = new /\ chosen' = chosen
        /\ early' \in {early, early \union {p}}
    BY <1>2 DEF EncodeEnd, EncodeStopped, Goto
  <2>5. CurSet' /\ StartingOff'
    BY <2>4 DEF IInv, CurSet, StartingOff, Working, TypeOK
  <2>6. OwnFile'
    BY <2>2, <2>3, <2>4 DEF IInv, OwnFile, Working, TypeOK
  <2>7. ~Stopped(p) /\ p \notin early' /\ own[p] = None => <<p, cur[p]>> \in Empty
    BY <1>2 DEF EncodeEnd, EncodeStopped
  <2>8. FullRun'
    BY <2>2, <2>3, <2>4, <2>7 DEF IInv, FullRun, Stopped, TypeOK
  <2>9. EarlyEnded'
    BY <2>4 DEF IInv, EarlyEnded, TypeOK
  <2>10. ChosenPlayable'
    <3>1. \A o \in Outputs : Decodable(o) => out'[o] = out[o]
      BY <2>2, <2>4, ClosePicks DEF OutStates
    <3>2. QED BY <2>4, <3>1, PickKeeps DEF IInv, TypeOK
  <2>11. QED BY <2>1, <2>3, <2>5, <2>6, <2>8, <2>9, <2>10 DEF IInv
<1>3. ASSUME EncodeFail(p) PROVE IInv'
  <2>1. TypeOK'
    BY <1>3, EncodeTypeStep DEF IInv
  <2>2. PICK state \in {"full", "cut", "broken"} : CloseOwn(p, state)
    BY <1>3 DEF EncodeFail
  <2>3. NothingKept' /\ \A q \in Passes \ {p} : own[q] # None => out'[own[q]] = out[own[q]]
    BY <2>2, CloseKeeps DEF OutStates
  <2>4. CurSet' /\ StartingOff' /\ OwnFile' /\ FullRun' /\ EarlyEnded'
    BY <1>3, <2>3, FinishKeeps DEF EncodeFail
  <2>5. \A o \in Outputs : Decodable(o) => out'[o] = out[o]
    BY <1>3, <2>2, ClosePicks DEF EncodeFail, OutStates
  <2>6. ChosenPlayable'
    BY <1>3, <2>5, FinishPicks DEF EncodeFail
  <2>7. QED BY <2>1, <2>3, <2>4, <2>6 DEF IInv
<1>4. QED BY <1>1, <1>2, <1>3

\* An uninterrupted run that was not cut short and finds new files wrote one itself,
\* to the end: with Unambiguous, a clip of which nothing is kept has no output to find.
LEMMA CollectedIsFull ==
    ASSUME Unambiguous, IInv, NEW p \in Passes \ early, Collect(p),
           CameraOutputs(cur[p]) \ before[p] # {}
    PROVE  own[p] # None /\ out[own[p]] = "full"
<1>1. cur[p] \in Sources
  BY DEF Collect, IInv, CurSet, Working
<1>2. PICK o \in Outputs : out[o] # "none" /\ <<cur[p], o[1]>> \in Prefix
  BY DEF CameraOutputs, OnDisk
<1>3. o[1] = cur[p]
  BY <1>1, <1>2 DEF Unambiguous, Outputs
<1>4. <<p, cur[p]>> \notin Empty
  BY <1>2, <1>3 DEF IInv, NothingKept
<1>5. QED BY <1>4 DEF Collect, IInv, FullRun

LEMMA DecideStep ==
    ASSUME Unambiguous, IInv, NEW p \in Passes
    PROVE  /\ Interrupted(p) \/ VerifyFail(p) \/ KeepOriginal(p) => IInv'
           /\ Collect(p) => IInv'
           /\ VerifyOk(p) => IInv'
           /\ Record(p) => IInv'
           /\ DeleteOriginal(p) => IInv'
<1> USE DEF diskVars, slotVars, fileVars
<1>1. ASSUME Interrupted(p) \/ VerifyFail(p) \/ KeepOriginal(p) PROVE IInv'
  <2>1. TypeOK'
    BY <1>1, DecideTypeStep DEF IInv
  <2>2. CurSet' /\ StartingOff' /\ OwnFile' /\ FullRun' /\ EarlyEnded'
    BY <1>1, FinishKeeps DEF Interrupted, VerifyFail, KeepOriginal
  <2>3. ChosenPlayable'
    BY <1>1, FinishPicks DEF Interrupted, VerifyFail, KeepOriginal
  <2>4. QED BY <1>1, <2>1, <2>2, <2>3 DEF Interrupted, VerifyFail, KeepOriginal, IInv, NothingKept
<1>2. ASSUME Collect(p) PROVE IInv'
  <2>1. TypeOK'
    BY <1>2, DecideTypeStep DEF IInv
  <2>2. CASE FinishFile(p)
    <3>1. CurSet' /\ StartingOff' /\ OwnFile' /\ FullRun' /\ EarlyEnded'
      BY <1>2, <2>2, FinishKeeps DEF Collect, TakeNew
    <3>2. ChosenPlayable'
      BY <1>2, <2>2, FinishPicks DEF Collect, TakeNew
    <3>3. QED BY <1>2, <2>1, <3>1, <3>2 DEF Collect, TakeNew, IInv, NothingKept
  <2>3. CASE ~FinishFile(p)
    <3>1. CameraOutputs(cur[p]) \ before[p] # {} /\ pc' = [pc EXCEPT ![p] = "verify"]
      BY <1>2, <2>3 DEF Collect, TakeNew, Goto
    <3>2. p \notin early => own[p] # None /\ out[own[p]] = "full"
      BY <1>2, <3>1, CollectedIsFull
    <3>3. pc[p] = "encoded" /\ own' = own /\ cur' = cur /\ out' = out /\ stop' = stop
          /\ starting' = starting /\ early' = early /\ chosen' = chosen
          /\ new' = [new EXCEPT ![p] = CameraOutputs(cur[p]) \ before[p]]
      BY <1>2, <2>3 DEF Collect, TakeNew
    <3>4. CurSet' /\ StartingOff' /\ OwnFile' /\ FullRun' /\ NothingKept' /\ EarlyEnded'
      BY <3>1, <3>2, <3>3 DEF IInv, TypeOK, CurSet, StartingOff, OwnFile, FullRun, NothingKept,
                              Stopped, Working, EarlyEnded
    <3>5. cur[p] \in Sources
      BY <3>3 DEF IInv, CurSet, Working
    <3>6. \A o \in CameraOutputs(cur[p]) : o[1] = cur[p]
      BY <3>5 DEF CameraOutputs, Unambiguous, Outputs
    <3>7. ChosenPlayable'
      BY <3>1, <3>3, <3>6 DEF IInv, TypeOK, ChosenPlayable, Decodable
    <3>8. QED BY <2>1, <3>4, <3>7 DEF IInv
  <2>4. QED BY <2>2, <2>3
<1>3. ASSUME VerifyOk(p) PROVE IInv'
  <2>1. TypeOK'
    BY <1>3, DecideTypeStep DEF IInv
  <2>2. pc[p] = "verify" /\ pc' = [pc EXCEPT ![p] = "record"] /\ own' = own /\ cur' = cur
        /\ out' = out /\ stop' = stop /\ starting' = starting /\ early' = early
    BY <1>3 DEF VerifyOk, Goto
  <2>3. CurSet' /\ StartingOff' /\ OwnFile' /\ FullRun' /\ NothingKept' /\ EarlyEnded'
    BY <2>2 DEF IInv, TypeOK, CurSet, StartingOff, OwnFile, FullRun, NothingKept, Stopped, Working,
                EarlyEnded
  <2>4. PICK o \in new[p] : Decodable(o) /\ chosen' = [chosen EXCEPT ![p] = o]
    BY <1>3 DEF VerifyOk, Newest
  <2>5. o \in Outputs /\ o[1] = cur[p]
    BY <2>2, <2>4 DEF IInv, TypeOK, ChosenPlayable
  <2>6. new' = [new EXCEPT ![p] = {}]
    BY <1>3 DEF VerifyOk
  <2>7. ChosenPlayable'
    <3> SUFFICES ASSUME NEW q \in Passes
                 PROVE  /\ pc'[q] = "verify" => \A r \in new'[q] : r[1] = cur'[q]
                        /\ pc'[q] \in {"record", "delete"} =>
                              chosen'[q] \in Outputs /\ chosen'[q][1] = cur'[q] /\ out'[chosen'[q]] \in {"full", "cut"}
      BY DEF ChosenPlayable, Decodable
    <3>1. CASE q = p
      BY <2>2, <2>4, <2>5, <3>1 DEF IInv, TypeOK, Decodable
    <3>2. CASE q # p
      <4>1. pc'[q] = pc[q] /\ new'[q] = new[q] /\ chosen'[q] = chosen[q] /\ cur'[q] = cur[q]
        BY <2>2, <2>4, <2>6, <3>2 DEF IInv, TypeOK
      <4>2. QED BY <2>2, <4>1 DEF IInv, ChosenPlayable, Decodable
    <3>3. QED BY <3>1, <3>2
  <2>8. QED BY <2>1, <2>3, <2>7 DEF IInv
<1>4. ASSUME Record(p) PROVE IInv'
  <2>1. TypeOK'
    BY <1>4, DecideTypeStep DEF IInv
  <2>2. pc[p] = "record" /\ out' = out /\ stop' = stop /\ starting' = starting
    BY <1>4 DEF Record
  <2>3. CASE FinishFile(p)
    <3>1. ChosenPlayable'
      BY <2>2, <2>3, FinishPicks
    <3>2. QED BY <2>1, <2>2, <2>3, <3>1, FinishKeeps DEF IInv, NothingKept
  <2>4. CASE ~FinishFile(p)
    <3>1. /\ pc' = [pc EXCEPT ![p] = "delete"] /\ own' = own /\ cur' = cur
          /\ new' = new /\ chosen' = chosen /\ early' = early
      BY <1>4, <2>4 DEF Record, Goto
    <3>2. CurSet' /\ StartingOff' /\ OwnFile' /\ FullRun' /\ NothingKept' /\ EarlyEnded'
      BY <2>2, <3>1 DEF IInv, TypeOK, CurSet, StartingOff, OwnFile, FullRun, NothingKept,
                        Stopped, Working, EarlyEnded
    <3>3. ChosenPlayable'
      BY <2>2, <3>1 DEF IInv, TypeOK, ChosenPlayable, Decodable
    <3>4. QED BY <2>1, <3>2, <3>3 DEF IInv
  <2>5. QED BY <2>3, <2>4
<1>5. ASSUME DeleteOriginal(p) PROVE IInv'
  <2>1. TypeOK'
    BY <1>5, DecideTypeStep DEF IInv
  <2>2. CurSet' /\ StartingOff' /\ OwnFile' /\ FullRun' /\ EarlyEnded'
    BY <1>5, FinishKeeps DEF DeleteOriginal
  <2>3. ChosenPlayable'
    BY <1>5, FinishPicks DEF DeleteOriginal
  <2>4. QED BY <1>5, <2>1, <2>2, <2>3 DEF DeleteOriginal, IInv, NothingKept
<1>6. QED BY <1>1, <1>2, <1>3, <1>4, <1>5

LEMMA DaemonStep ==
    ASSUME IInv, NEW d \in Daemons
    PROVE  /\ StartCheck(d) => IInv'
           /\ StartThread(d) => IInv'
           /\ DaemonExit(d) => IInv'
           /\ Retain(d) => IInv'
<1> USE DEF diskVars, slotVars, fileVars, passVars
<1>0. d \in Passes
  BY DEF Passes
<1>1. ASSUME StartCheck(d) PROVE IInv'
  <2>1. TypeOK'
    BY <1>1, DaemonTypeStep DEF IInv
  <2>2. QED BY <1>1, <2>1 DEF StartCheck, IInv, CurSet, StartingOff, OwnFile, FullRun,
                              NothingKept, Stopped, EarlyEnded, ChosenPlayable, Decodable
<1>2. ASSUME StartThread(d) PROVE IInv'
  <2>1. TypeOK'
    BY <1>2, DaemonTypeStep DEF IInv
  <2>2. pc[d] = "off" /\ own[d] = None
    BY <1>0, <1>2 DEF StartThread, IInv, StartingOff, OwnFile, Working
  <2>3. \A q \in Passes \ {d} : pc'[q] = pc[q] /\ Stopped(q)' = Stopped(q)
    BY <1>2 DEF StartThread, Goto, Stopped, IInv, TypeOK
  <2>4. pc'[d] = "loop" /\ own' = own /\ cur' = cur /\ out' = out
        /\ starting' = starting \ {d} /\ new' = new /\ chosen' = chosen /\ early' = early
    BY <1>0, <1>2 DEF StartThread, Goto, IInv, TypeOK
  <2>5. CurSet' /\ OwnFile' /\ FullRun' /\ NothingKept' /\ EarlyEnded' /\ ChosenPlayable'
    BY <2>2, <2>3, <2>4 DEF IInv, CurSet, OwnFile, FullRun, NothingKept, Working, EarlyEnded,
                            ChosenPlayable, Decodable, TypeOK
  <2>6. StartingOff'
    BY <2>3, <2>4 DEF IInv, StartingOff, TypeOK, Passes
  <2>7. QED BY <2>1, <2>5, <2>6 DEF IInv
<1>3. ASSUME DaemonExit(d) PROVE IInv'
  <2>1. TypeOK'
    BY <1>3, DaemonTypeStep DEF IInv
  <2>2. own[d] = None
    BY <1>0, <1>3 DEF DaemonExit, IInv, OwnFile, Working
  <2>3. QED BY <1>0, <1>3, <2>1, <2>2 DEF DaemonExit, Goto, IInv, CurSet, StartingOff, OwnFile,
                                          FullRun, NothingKept, Stopped, Working, TypeOK,
                                          EarlyEnded, ChosenPlayable, Decodable
<1>4. ASSUME Retain(d) PROVE IInv'
  <2>1. TypeOK'
    BY <1>4, DaemonTypeStep DEF IInv
  <2>2. /\ NothingKept' /\ \A q \in Passes : own[q] # None => out'[own[q]] = out[own[q]]
        /\ \A o \in Outputs : (\E q \in Passes : chosen[q] = o) => out'[o] = out[o]
    BY <1>4, PurgeKeeps DEF Retain
  <2>3. own[d] = None /\ d \notin starting
    BY <1>0, <1>4 DEF Retain, IInv, OwnFile, Working, StartingOff
  <2>4. CurSet' /\ StartingOff' /\ OwnFile' /\ FullRun' /\ EarlyEnded'
    BY <1>0, <1>4, <2>2, <2>3 DEF Retain, Goto, IInv, CurSet, StartingOff, OwnFile, FullRun,
                                  Stopped, Working, TypeOK, EarlyEnded
  <2>5. ChosenPlayable'
    BY <1>0, <1>4, <2>2, PickKeeps DEF Retain, Goto, IInv, TypeOK
  <2>6. QED BY <2>1, <2>2, <2>4, <2>5 DEF IInv
<1>5. QED BY <1>1, <1>2, <1>3, <1>4

LEMMA ProcessStep ==
    ASSUME IInv
    PROVE  /\ StopDaemon => IInv'
           /\ PurgeNow => IInv'
           /\ Crash => IInv'
<1> USE DEF diskVars, slotVars, fileVars, passVars
<1>1. ASSUME StopDaemon PROVE IInv'
  <2>1. TypeOK'
    BY <1>1, ProcessTypeStep DEF IInv
  <2>2. QED BY <1>1, <2>1 DEF StopDaemon, IInv, CurSet, StartingOff, OwnFile, FullRun,
                              NothingKept, Stopped, EarlyEnded, ChosenPlayable, Decodable
<1>2. ASSUME PurgeNow PROVE IInv'
  <2>1. TypeOK'
    BY <1>2, ProcessTypeStep DEF IInv
  <2>2. /\ NothingKept' /\ \A q \in Passes : own[q] # None => out'[own[q]] = out[own[q]]
        /\ \A o \in Outputs : (\E q \in Passes : chosen[q] = o) => out'[o] = out[o]
    BY <1>2, PurgeKeeps DEF PurgeNow
  <2>3. CurSet' /\ StartingOff' /\ OwnFile' /\ FullRun' /\ EarlyEnded'
    BY <1>2, <2>2 DEF PurgeNow, IInv, CurSet, StartingOff, OwnFile, FullRun, Stopped, EarlyEnded
  <2>4. ChosenPlayable'
    BY <1>2, <2>2 DEF PurgeNow, IInv, ChosenPlayable, Decodable
  <2>5. QED BY <2>1, <2>2, <2>3, <2>4 DEF IInv
<1>3. ASSUME Crash PROVE IInv'
  <2>1. TypeOK'
    BY <1>3, ProcessTypeStep DEF IInv
  <2>2. CurSet' /\ StartingOff' /\ OwnFile' /\ FullRun' /\ EarlyEnded' /\ ChosenPlayable'
    BY <1>3 DEF Crash, CurSet, StartingOff, OwnFile, FullRun, Working, EarlyEnded, ChosenPlayable
  <2>3. NothingKept'
    BY <1>3 DEF Crash, IInv, NothingKept
  <2>4. QED BY <2>1, <2>2, <2>3 DEF IInv
<1>4. QED BY <1>1, <1>2, <1>3

LEMMA InitIInv == Init => IInv
BY EmptyIndexType, BoundAssumption
   DEF Init, IInv, TypeOK, CurSet, StartingOff, OwnFile, NothingKept, FullRun, Working,
       PassPCs, OutStates, EarlyEnded, ChosenPlayable

LEMMA NextIInv == Unambiguous /\ IInv /\ [Next]_vars => IInv'
<1> SUFFICES ASSUME Unambiguous, IInv, [Next]_vars PROVE IInv'
  OBVIOUS
<1>1. ASSUME NEW p \in Passes, PassStep(p) PROVE IInv'
  BY <1>1, ScanStep, EncodeStep, DecideStep, DaemonStep DEF PassStep, Retain
<1>2. CASE \E p \in Requests : ScanStart(p)
  BY <1>2, ScanStep DEF Passes
<1>3. CASE \E d \in Daemons : StartCheck(d) \/ StartThread(d)
  BY <1>3, DaemonStep
<1>4. CASE StopDaemon \/ PurgeNow \/ Crash
  BY <1>4, ProcessStep
<1>5. CASE UNCHANGED vars
  BY <1>5 DEF vars, diskVars, slotVars, passVars, fileVars, IInv, TypeOK, CurSet, StartingOff, OwnFile,
              NothingKept, FullRun, Stopped, EarlyEnded, ChosenPlayable, Decodable
<1>6. QED BY <1>1, <1>2, <1>3, <1>4, <1>5 DEF Next

-----------------------------------------------------------------------------
(* Theorems *)

\* The inductive invariant holds in every reachable state, for any set of clips,
\* daemons and requests.
THEOREM Invariance == ASSUME Unambiguous PROVE Spec => []IInv
<1>1. Init => IInv
  BY InitIInv
<1>2. IInv /\ [Next]_vars => IInv'
  BY NextIInv
<1>3. QED BY <1>1, <1>2, PTL DEF Spec

\* Every variable of the service keeps its type (TypeOK).
THEOREM TypeCorrect == ASSUME Unambiguous PROVE Spec => []TypeOK
<1>1. IInv => TypeOK
  BY DEF IInv
<1>2. QED BY <1>1, Invariance, PTL

LEMMA DeleteStep ==
    ASSUME IInv, [Next]_vars, NEW s \in Sources, s \in present, s \notin present'
    PROVE  \E p \in Passes : DeleteOriginal(p) /\ cur[p] = s
BY ZenonT(30) DEF Next, PassStep, vars, diskVars, slotVars, passVars, fileVars, ScanStart, SkipUnstable,
       AlreadyDone, Begin, EndScan, Escape, OpenOutput, EncodeEnd, EncodeStopped, EncodeFail,
       Interrupted, Collect, TakeNew, VerifyOk, VerifyFail, Record, DeleteOriginal,
       KeepOriginal, Retain, DaemonExit, StartCheck, StartThread, StopDaemon, PurgeNow, Crash

\* No original is ever unlinked without a playable copy of it on disk at that moment,
\* nor without a full one unless the reads of the pass that unlinks it ended early.
THEOREM FootageSafe == ASSUME Unambiguous PROVE Spec => DeleteOnlyWithCopy
<1> DEFINE WithCopy ==
      \A s \in Sources : s \in present /\ s \notin present' =>
          /\ HasPlayableCopy(s)
          /\ HasFullCopy(s) \/ \E p \in early : pc[p] = "delete" /\ cur[p] = s
<1>1. IInv /\ [Next]_vars => [WithCopy]_vars
  <2> SUFFICES ASSUME IInv, [Next]_vars, NEW s \in Sources, s \in present, s \notin present'
               PROVE  /\ HasPlayableCopy(s)
                      /\ HasFullCopy(s) \/ \E p \in early : pc[p] = "delete" /\ cur[p] = s
    OBVIOUS
  <2>1. PICK p \in Passes : DeleteOriginal(p) /\ cur[p] = s
    BY DeleteStep
  <2>2. HasPlayableCopy(s)
    BY <2>1 DEF DeleteOriginal, IInv, ChosenPlayable, HasPlayableCopy
  <2>3. CASE p \in early
    BY <2>1, <2>2, <2>3 DEF DeleteOriginal
  <2>4. CASE p \notin early
    <3>1. own[p] # None /\ out[own[p]] = "full"
      BY <2>1, <2>4 DEF DeleteOriginal, IInv, FullRun
    <3>2. own[p] \in Outputs /\ own[p][1] = s
      BY <2>1, <3>1 DEF IInv, OwnFile, TypeOK
    <3>3. QED BY <2>2, <3>1, <3>2 DEF HasFullCopy
  <2>5. QED BY <2>3, <2>4
<1>2. QED BY <1>1, Invariance, PTL DEF Spec, DeleteOnlyWithCopy

LEMMA IngestStep ==
    ASSUME IInv, [Next]_vars, NEW s \in Sources, s \notin ingested, s \in ingested'
    PROVE  \E p \in Passes : Collect(p) /\ cur[p] = s
BY ZenonT(30) DEF Next, PassStep, vars, diskVars, slotVars, passVars, fileVars, ScanStart, SkipUnstable,
       AlreadyDone, Begin, EndScan, Escape, OpenOutput, EncodeEnd, EncodeStopped, EncodeFail,
       Interrupted, Collect, TakeNew, VerifyOk, VerifyFail, Record, DeleteOriginal,
       KeepOriginal, Retain, DaemonExit, StartCheck, StartThread, StopDaemon, PurgeNow, Crash

\* A clip is hidden from later scans only by a run that neither failed nor was
\* stopped, and that read it to the end unless its reads ended early.
THEOREM IngestSafe == ASSUME Unambiguous PROVE Spec => IngestOnlyAfterRun
<1> DEFINE ByRun ==
      \A s \in Sources : s \notin ingested /\ s \in ingested' =>
          \E p \in Passes :
             /\ pc[p] = "encoded" /\ cur[p] = s /\ ~Stopped(p)
             /\ \/ p \in early
                \/ IF own[p] = None THEN <<p, s>> \in Empty ELSE out[own[p]] = "full"
<1>1. IInv /\ [Next]_vars => [ByRun]_vars
  <2> SUFFICES ASSUME IInv, [Next]_vars, NEW s \in Sources, s \notin ingested, s \in ingested'
               PROVE  \E p \in Passes :
                        /\ pc[p] = "encoded" /\ cur[p] = s /\ ~Stopped(p)
                        /\ \/ p \in early
                           \/ IF own[p] = None THEN <<p, s>> \in Empty ELSE out[own[p]] = "full"
    OBVIOUS
  <2>1. PICK p \in Passes : Collect(p) /\ cur[p] = s
    BY IngestStep
  <2>2. QED BY <2>1 DEF Collect, IInv, FullRun
<1>2. QED BY <1>1, Invariance, PTL DEF Spec, IngestOnlyAfterRun
=============================================================================
