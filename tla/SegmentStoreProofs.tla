------------------------- MODULE SegmentStoreProofs -------------------------
(***************************************************************************)
(* Proofs about SegmentStore.  A purge deletes what an old listing told it *)
(* to; the registry is asked again before each unlink.  A file is worked   *)
(* on outside the registry only between the start of FFmpeg and the mark,  *)
(* and no listing can know a file that young.                              *)
(* Two purges delete from listings of their own; both go by age, and what  *)
(* one of them has not listed is newer or marked, so the other's deletions *)
(* are the ones it would have made itself.                                 *)
(***************************************************************************)
EXTENDS SegmentStore, FiniteSetTheorems, TLAPS

LEMMA PathOf ==
    ASSUME NEW r \in Runs, NEW t \in Times
    PROVE  <<r, t>> \in Paths /\ <<r, t>> \in {r} \X (0..t) /\ <<r, t>>[1] = r /\ <<r, t>>[2] = t
BY TimeAssumption DEF Paths, Times

LEMMA PathParts ==
    ASSUME NEW p \in Paths
    PROVE  p[1] \in Runs /\ p[2] \in Times /\ p = <<p[1], p[2]>>
BY DEF Paths

LEMMA OwnPaths ==
    ASSUME now \in Times, NEW r \in Runs, NEW p \in {r} \X (0..now)
    PROVE  p \in Paths /\ p[1] = r /\ p[2] <= now
BY TimeAssumption DEF Paths, Times

-----------------------------------------------------------------------------
(* Types *)

LEMMA LocalsType ==
    ASSUME TypeOK, NEW r \in Runs, NEW label \in RunPCs, Locals(r, label)
    PROVE  /\ pc' \in [Runs -> RunPCs] /\ path' \in [Runs -> Paths \union {None}]
           /\ proc' \in [Runs -> BOOLEAN] /\ killed' \in [Runs -> BOOLEAN]
           /\ segOpen' \in [Runs -> BOOLEAN] /\ written' \in [Runs -> BOOLEAN]
           /\ stop' \in [Runs -> BOOLEAN] /\ ending' \in [Runs -> BOOLEAN]
BY DEF TypeOK, Locals, Set

LEMMA LoopType ==
    ASSUME TypeOK, OwnPath, NEW r \in Runs
    PROVE  /\ StartRun(r) => TypeOK'
           /\ StopRun(r) => TypeOK'
           /\ LeaveLoop(r) \/ LeaveWrite(r) \/ NextFrame(r) => TypeOK'
           /\ Popen(r) => TypeOK'
           /\ MarkActive(r) => TypeOK'
           /\ WriteFrame(r) => TypeOK'
<1> USE DEF fileVars, runVars, purgeVars, Set, RunPCs, FileStates
<1>1. StartRun(r) => TypeOK'
  BY LocalsType DEF StartRun, TypeOK
<1>2. StopRun(r) => TypeOK'
  BY DEF StopRun, TypeOK
<1>3. LeaveLoop(r) \/ LeaveWrite(r) \/ NextFrame(r) => TypeOK'
  BY DEF LeaveLoop, LeaveWrite, NextFrame, TypeOK
<1>4. Popen(r) => TypeOK'
  BY PathOf DEF Popen, TypeOK
<1>5. ASSUME MarkActive(r) PROVE TypeOK'
  BY <1>5, OwnPaths DEF MarkActive, TypeOK, OwnPath
<1>6. ASSUME WriteFrame(r) PROVE TypeOK'
  <2>1. path[r] \in Paths
    BY <1>6, OwnPaths DEF WriteFrame, OwnPath, TypeOK
  <2>2. mtime' \in [Paths -> Times] /\ pc' \in [Runs -> RunPCs] /\ written' \in [Runs -> BOOLEAN]
    BY <1>6, <2>1 DEF WriteFrame, TypeOK
  <2>3. QED BY <1>6, <2>2 DEF WriteFrame, TypeOK
<1>7. QED BY <1>1, <1>2, <1>3, <1>4, <1>5, <1>6

LEMMA CloseType ==
    ASSUME TypeOK, OwnPath, NEW r \in Runs
    PROVE  /\ Finish(r) => TypeOK'
           /\ FinishFail(r) => TypeOK'
           /\ PostDone(r) => TypeOK'
           /\ PostFail(r) => TypeOK'
<1> USE DEF fileVars, runVars, purgeVars, Set, RunPCs, FileStates, EndRun
<1>1. ASSUME Finish(r) PROVE TypeOK'
  <2>1. path[r] \in Paths
    BY <1>1, OwnPaths DEF Finish, OwnPath, TypeOK
  <2>2. file' \in [Paths -> FileStates] /\ mtime' \in [Paths -> Times]
    BY <1>1, <2>1 DEF Finish, TypeOK
  <2>3. proc' \in [Runs -> BOOLEAN] /\ killed' \in [Runs -> BOOLEAN] /\ pc' \in [Runs -> RunPCs]
    BY <1>1 DEF Finish, TypeOK
  <2>4. QED BY <1>1, <2>2, <2>3 DEF Finish, TypeOK
<1>2. ASSUME FinishFail(r) PROVE TypeOK'
  <2>1. CASE ending[r]
    BY <1>2, <2>1, LocalsType DEF FinishFail, TypeOK
  <2>2. CASE ~ending[r]
    BY <1>2, <2>2 DEF FinishFail, TypeOK
  <2>3. QED BY <2>1, <2>2
<1>3. ASSUME PostDone(r) PROVE TypeOK'
  <2>1. CASE ending[r]
    BY <1>3, <2>1, LocalsType DEF PostDone, TypeOK
  <2>2. CASE ~ending[r]
    BY <1>3, <2>2 DEF PostDone, TypeOK
  <2>3. QED BY <2>1, <2>2
<1>4. ASSUME PostFail(r) PROVE TypeOK'
  <2>1. CASE ending[r]
    BY <1>4, <2>1, LocalsType DEF PostFail, TypeOK
  <2>2. CASE ~ending[r]
    BY <1>4, <2>2 DEF PostFail, TypeOK
  <2>3. QED BY <2>1, <2>2
<1>5. QED BY <1>1, <1>2, <1>3, <1>4

LEMMA FinalType ==
    ASSUME TypeOK, NEW r \in Runs
    PROVE  /\ FinalFlush(r) => TypeOK'
           /\ FinalAbort(r) => TypeOK'
           /\ FinalNothing(r) => TypeOK'
<1> USE DEF fileVars, runVars, purgeVars, Set, RunPCs, FileStates, EndRun
<1>1. ASSUME FinalFlush(r) PROVE TypeOK'
  <2>1. CASE proc[r]
    BY <1>1, <2>1 DEF FinalFlush, TypeOK
  <2>2. CASE ~proc[r]
    BY <1>1, <2>2, LocalsType DEF FinalFlush, TypeOK
  <2>3. QED BY <2>1, <2>2
<1>2. FinalAbort(r) => TypeOK'
  BY LocalsType DEF FinalAbort, TypeOK
<1>3. FinalNothing(r) => TypeOK'
  BY LocalsType DEF FinalNothing, TypeOK
<1>4. QED BY <1>1, <1>2, <1>3

LEMMA PurgeType ==
    ASSUME TypeOK, NEW u \in Purgers
    PROVE  /\ ListFiles(u) => TypeOK'
           /\ \A p \in Paths : (AgeDelete(u) \/ SizeDelete(u)) /\ TryFile(u, p) => TypeOK'
           /\ AgeDone(u) => TypeOK'
           /\ PurgeDone(u) => TypeOK'
<1> USE DEF fileVars, runVars, purgeVars, Set, PurgePCs, FileStates
<1>1. ASSUME ListFiles(u) PROVE TypeOK'
  <2>1. Eligible \subseteq Paths
    BY DEF Eligible
  <2>2. QED BY <1>1, <2>1 DEF ListFiles, TypeOK
<1>2. ASSUME NEW p \in Paths, TryFile(u, p) PROVE TypeOK'
  <2>1. file' \in [Paths -> FileStates]
    BY <1>2 DEF TryFile, Delete, TypeOK
  <2>2. QED BY <1>2, <2>1 DEF TryFile, TypeOK
<1>3. AgeDone(u) => TypeOK'
  BY DEF AgeDone, TypeOK
<1>4. ASSUME PurgeDone(u) PROVE TypeOK'
  <2>1. 0 \in Times
    BY TimeAssumption DEF Times
  <2>2. QED BY <1>4, <2>1 DEF PurgeDone, TypeOK
<1>5. QED BY <1>1, <1>2, <1>3, <1>4

LEMMA TickType == TypeOK /\ Tick => TypeOK'
BY TimeAssumption DEF TypeOK, Tick, Times, runVars, purgeVars

-----------------------------------------------------------------------------
(* The rest of the invariant *)

Kept == OwnPath /\ Marked /\ JustCreated /\ Guarded /\ Dated /\ Listed

LEMMA LoopKept ==
    ASSUME IInv, NEW r \in Runs
    PROVE  /\ StartRun(r) => Kept'
           /\ StopRun(r) => Kept'
           /\ LeaveLoop(r) => Kept'
           /\ LeaveWrite(r) => Kept'
           /\ NextFrame(r) => Kept'
           /\ Popen(r) => Kept'
           /\ MarkActive(r) => Kept'
           /\ WriteFrame(r) => Kept'
<1> USE DEF fileVars, runVars, purgeVars, Set, EndRun, Locals, InFlight, OnDisk, IInv, Kept
<1>1. ASSUME StartRun(r) PROVE Kept'
  <2>1. OwnPath'
    BY <1>1, PathOf DEF StartRun, TypeOK, OwnPath, RunPCs
  <2>2. Marked'
    BY <1>1, OwnPaths DEF StartRun, TypeOK, OwnPath, Marked, RunPCs
  <2>3. JustCreated'
    BY <1>1 DEF StartRun, TypeOK, JustCreated
  <2>4. Guarded'
    BY <1>1, PathOf, OwnPaths DEF StartRun, TypeOK, OwnPath, Marked, JustCreated, Guarded
  <2>5. Dated'
    BY <1>1, PathParts, PathOf, OwnPaths DEF StartRun, TypeOK, OwnPath, Dated, Times
  <2>6. Listed'
    BY <1>1 DEF StartRun, Listed
  <2>7. QED BY <2>1, <2>2, <2>3, <2>4, <2>5, <2>6
<1>2. ASSUME StopRun(r) PROVE Kept'
  <2>1. OwnPath'
    BY <1>2, PathOf DEF StopRun, TypeOK, OwnPath, RunPCs
  <2>2. Marked'
    BY <1>2, OwnPaths DEF StopRun, TypeOK, OwnPath, Marked, RunPCs
  <2>3. JustCreated'
    BY <1>2 DEF StopRun, TypeOK, JustCreated
  <2>4. Guarded'
    BY <1>2, PathOf, OwnPaths DEF StopRun, TypeOK, OwnPath, Marked, JustCreated, Guarded
  <2>5. Dated'
    BY <1>2, PathParts, PathOf, OwnPaths DEF StopRun, TypeOK, OwnPath, Dated, Times
  <2>6. Listed'
    BY <1>2 DEF StopRun, Listed
  <2>7. QED BY <2>1, <2>2, <2>3, <2>4, <2>5, <2>6
<1>3. ASSUME LeaveLoop(r) PROVE Kept'
  <2>1. OwnPath'
    BY <1>3, PathOf DEF LeaveLoop, TypeOK, OwnPath, RunPCs
  <2>2. Marked'
    BY <1>3, OwnPaths DEF LeaveLoop, TypeOK, OwnPath, Marked, RunPCs
  <2>3. JustCreated'
    BY <1>3 DEF LeaveLoop, TypeOK, JustCreated
  <2>4. Guarded'
    BY <1>3, PathOf, OwnPaths DEF LeaveLoop, TypeOK, OwnPath, Marked, JustCreated, Guarded
  <2>5. Dated'
    BY <1>3, PathParts, PathOf, OwnPaths DEF LeaveLoop, TypeOK, OwnPath, Dated, Times
  <2>6. Listed'
    BY <1>3 DEF LeaveLoop, Listed
  <2>7. QED BY <2>1, <2>2, <2>3, <2>4, <2>5, <2>6
<1>4. ASSUME LeaveWrite(r) PROVE Kept'
  <2>1. OwnPath'
    BY <1>4, PathOf DEF LeaveWrite, TypeOK, OwnPath, RunPCs
  <2>2. Marked'
    BY <1>4, OwnPaths DEF LeaveWrite, TypeOK, OwnPath, Marked, RunPCs
  <2>3. JustCreated'
    BY <1>4 DEF LeaveWrite, TypeOK, JustCreated
  <2>4. Guarded'
    BY <1>4, PathOf, OwnPaths DEF LeaveWrite, TypeOK, OwnPath, Marked, JustCreated, Guarded
  <2>5. Dated'
    BY <1>4, PathParts, PathOf, OwnPaths DEF LeaveWrite, TypeOK, OwnPath, Dated, Times
  <2>6. Listed'
    BY <1>4 DEF LeaveWrite, Listed
  <2>7. QED BY <2>1, <2>2, <2>3, <2>4, <2>5, <2>6
<1>5. ASSUME NextFrame(r) PROVE Kept'
  <2>1. OwnPath'
    BY <1>5, PathOf DEF NextFrame, TypeOK, OwnPath, RunPCs
  <2>2. Marked'
    BY <1>5, OwnPaths DEF NextFrame, TypeOK, OwnPath, Marked, RunPCs
  <2>3. JustCreated'
    BY <1>5 DEF NextFrame, TypeOK, JustCreated
  <2>4. Guarded'
    BY <1>5, PathOf, OwnPaths DEF NextFrame, TypeOK, OwnPath, Marked, JustCreated, Guarded
  <2>5. Dated'
    BY <1>5, PathParts, PathOf, OwnPaths DEF NextFrame, TypeOK, OwnPath, Dated, Times
  <2>6. Listed'
    BY <1>5 DEF NextFrame, Listed
  <2>7. QED BY <2>1, <2>2, <2>3, <2>4, <2>5, <2>6
<1>6. ASSUME Popen(r) PROVE Kept'
  <2>1. OwnPath'
    BY <1>6, PathOf DEF Popen, TypeOK, OwnPath, RunPCs
  <2>2. Marked'
    BY <1>6, OwnPaths DEF Popen, TypeOK, OwnPath, Marked, RunPCs
  <2>3. JustCreated'
    BY <1>6 DEF Popen, TypeOK, JustCreated
  <2>4. Guarded'
    BY <1>6, PathOf, OwnPaths DEF Popen, TypeOK, OwnPath, Marked, JustCreated, Guarded
  <2>5. Dated'
    BY <1>6, PathParts, PathOf, OwnPaths DEF Popen, TypeOK, OwnPath, Dated, Times
  <2>6. Listed'
    BY <1>6 DEF Popen, Listed
  <2>7. QED BY <2>1, <2>2, <2>3, <2>4, <2>5, <2>6
<1>7. ASSUME MarkActive(r) PROVE Kept'
  <2>1. OwnPath'
    BY <1>7, PathOf DEF MarkActive, TypeOK, OwnPath, RunPCs
  <2>2. Marked'
    BY <1>7, OwnPaths DEF MarkActive, TypeOK, OwnPath, Marked, RunPCs
  <2>3. JustCreated'
    BY <1>7 DEF MarkActive, TypeOK, JustCreated
  <2>4. Guarded'
    BY <1>7, PathOf, OwnPaths DEF MarkActive, TypeOK, OwnPath, Marked, JustCreated, Guarded
  <2>5. Dated'
    BY <1>7, PathParts, PathOf, OwnPaths DEF MarkActive, TypeOK, OwnPath, Dated, Times
  <2>6. Listed'
    BY <1>7 DEF MarkActive, Listed
  <2>7. QED BY <2>1, <2>2, <2>3, <2>4, <2>5, <2>6
<1>8. ASSUME WriteFrame(r) PROVE Kept'
  <2>1. OwnPath'
    BY <1>8, PathOf DEF WriteFrame, TypeOK, OwnPath, RunPCs
  <2>2. Marked'
    BY <1>8, OwnPaths DEF WriteFrame, TypeOK, OwnPath, Marked, RunPCs
  <2>3. JustCreated'
    BY <1>8 DEF WriteFrame, TypeOK, JustCreated
  <2>4. Guarded'
    BY <1>8, PathOf, OwnPaths DEF WriteFrame, TypeOK, OwnPath, Marked, JustCreated, Guarded
  <2>5. Dated'
    BY <1>8, PathParts, PathOf, OwnPaths DEF WriteFrame, TypeOK, OwnPath, Dated, Times
  <2>6. Listed'
    BY <1>8 DEF WriteFrame, Listed
  <2>7. QED BY <2>1, <2>2, <2>3, <2>4, <2>5, <2>6
<1>9. QED BY <1>1, <1>2, <1>3, <1>4, <1>5, <1>6, <1>7, <1>8

LEMMA CloseKept ==
    ASSUME IInv, NEW r \in Runs
    PROVE  /\ Finish(r) => Kept'
           /\ FinishFail(r) => Kept'
           /\ PostDone(r) => Kept'
           /\ PostFail(r) => Kept'
<1> USE DEF fileVars, runVars, purgeVars, Set, EndRun, Locals, InFlight, OnDisk, IInv, Kept
<1>1. ASSUME Finish(r) PROVE Kept'
  <2>1. OwnPath'
    BY <1>1, PathOf DEF Finish, TypeOK, OwnPath, RunPCs
  <2>2. Marked'
    BY <1>1, OwnPaths DEF Finish, TypeOK, OwnPath, Marked, RunPCs
  <2>3. JustCreated'
    BY <1>1 DEF Finish, TypeOK, JustCreated
  <2>4. Guarded'
    BY <1>1, PathOf, OwnPaths, SMTT(20) DEF Finish, TypeOK, OwnPath, Marked, JustCreated, Guarded
  <2>5. Dated'
    BY <1>1, PathParts, PathOf, OwnPaths DEF Finish, TypeOK, OwnPath, Dated, Times
  <2>6. Listed'
    BY <1>1 DEF Finish, Listed
  <2>7. QED BY <2>1, <2>2, <2>3, <2>4, <2>5, <2>6
<1>2. ASSUME FinishFail(r) PROVE Kept'
  <2>1. OwnPath'
    BY <1>2, PathOf DEF FinishFail, TypeOK, OwnPath, RunPCs
  <2>2. Marked'
    BY <1>2, OwnPaths DEF FinishFail, TypeOK, OwnPath, Marked, RunPCs
  <2>3. JustCreated'
    BY <1>2 DEF FinishFail, TypeOK, JustCreated
  <2>4. Guarded'
    BY <1>2, PathOf, OwnPaths, SMTT(20) DEF FinishFail, TypeOK, OwnPath, Marked, JustCreated, Guarded
  <2>5. Dated'
    BY <1>2, PathParts, PathOf, OwnPaths DEF FinishFail, TypeOK, OwnPath, Dated, Times
  <2>6. Listed'
    BY <1>2 DEF FinishFail, Listed
  <2>7. QED BY <2>1, <2>2, <2>3, <2>4, <2>5, <2>6
<1>3. ASSUME PostDone(r) PROVE Kept'
  <2>1. OwnPath'
    BY <1>3, PathOf DEF PostDone, TypeOK, OwnPath, RunPCs
  <2>2. Marked'
    BY <1>3, OwnPaths DEF PostDone, TypeOK, OwnPath, Marked, RunPCs
  <2>3. JustCreated'
    BY <1>3 DEF PostDone, TypeOK, JustCreated
  <2>4. Guarded'
    BY <1>3, PathOf, OwnPaths, SMTT(20) DEF PostDone, TypeOK, OwnPath, Marked, JustCreated, Guarded
  <2>5. Dated'
    BY <1>3, PathParts, PathOf, OwnPaths DEF PostDone, TypeOK, OwnPath, Dated, Times
  <2>6. Listed'
    BY <1>3 DEF PostDone, Listed
  <2>7. QED BY <2>1, <2>2, <2>3, <2>4, <2>5, <2>6
<1>4. ASSUME PostFail(r) PROVE Kept'
  <2>1. OwnPath'
    BY <1>4, PathOf DEF PostFail, TypeOK, OwnPath, RunPCs
  <2>2. Marked'
    BY <1>4, OwnPaths DEF PostFail, TypeOK, OwnPath, Marked, RunPCs
  <2>3. JustCreated'
    BY <1>4 DEF PostFail, TypeOK, JustCreated
  <2>4. Guarded'
    BY <1>4, PathOf, OwnPaths, SMTT(20) DEF PostFail, TypeOK, OwnPath, Marked, JustCreated, Guarded
  <2>5. Dated'
    BY <1>4, PathParts, PathOf, OwnPaths DEF PostFail, TypeOK, OwnPath, Dated, Times
  <2>6. Listed'
    BY <1>4 DEF PostFail, Listed
  <2>7. QED BY <2>1, <2>2, <2>3, <2>4, <2>5, <2>6
<1>5. QED BY <1>1, <1>2, <1>3, <1>4

LEMMA FinalKept ==
    ASSUME IInv, NEW r \in Runs
    PROVE  /\ FinalFlush(r) => Kept'
           /\ FinalAbort(r) => Kept'
           /\ FinalNothing(r) => Kept'
<1> USE DEF fileVars, runVars, purgeVars, Set, EndRun, Locals, InFlight, OnDisk, IInv, Kept
<1>1. ASSUME FinalFlush(r) PROVE Kept'
  <2>1. OwnPath'
    BY <1>1, PathOf DEF FinalFlush, TypeOK, OwnPath, RunPCs
  <2>2. Marked'
    BY <1>1, OwnPaths DEF FinalFlush, TypeOK, OwnPath, Marked, RunPCs
  <2>3. JustCreated'
    BY <1>1 DEF FinalFlush, TypeOK, JustCreated
  <2>4. Guarded'
    BY <1>1, PathOf, OwnPaths DEF FinalFlush, TypeOK, OwnPath, Marked, JustCreated, Guarded
  <2>5. Dated'
    BY <1>1, PathParts, PathOf, OwnPaths DEF FinalFlush, TypeOK, OwnPath, Dated, Times
  <2>6. Listed'
    BY <1>1 DEF FinalFlush, Listed
  <2>7. QED BY <2>1, <2>2, <2>3, <2>4, <2>5, <2>6
<1>2. ASSUME FinalAbort(r) PROVE Kept'
  <2>1. OwnPath'
    BY <1>2, PathOf DEF FinalAbort, TypeOK, OwnPath, RunPCs
  <2>2. Marked'
    BY <1>2, OwnPaths DEF FinalAbort, TypeOK, OwnPath, Marked, RunPCs
  <2>3. JustCreated'
    BY <1>2 DEF FinalAbort, TypeOK, JustCreated
  <2>4. Guarded'
    BY <1>2, PathOf, OwnPaths DEF FinalAbort, TypeOK, OwnPath, Marked, JustCreated, Guarded
  <2>5. Dated'
    BY <1>2, PathParts, PathOf, OwnPaths DEF FinalAbort, TypeOK, OwnPath, Dated, Times
  <2>6. Listed'
    BY <1>2 DEF FinalAbort, Listed
  <2>7. QED BY <2>1, <2>2, <2>3, <2>4, <2>5, <2>6
<1>3. ASSUME FinalNothing(r) PROVE Kept'
  <2>1. OwnPath'
    BY <1>3, PathOf DEF FinalNothing, TypeOK, OwnPath, RunPCs
  <2>2. Marked'
    BY <1>3, OwnPaths DEF FinalNothing, TypeOK, OwnPath, Marked, RunPCs
  <2>3. JustCreated'
    BY <1>3 DEF FinalNothing, TypeOK, JustCreated
  <2>4. Guarded'
    BY <1>3, PathOf, OwnPaths DEF FinalNothing, TypeOK, OwnPath, Marked, JustCreated, Guarded
  <2>5. Dated'
    BY <1>3, PathParts, PathOf, OwnPaths DEF FinalNothing, TypeOK, OwnPath, Dated, Times
  <2>6. Listed'
    BY <1>3 DEF FinalNothing, Listed
  <2>7. QED BY <2>1, <2>2, <2>3, <2>4, <2>5, <2>6
<1>4. QED BY <1>1, <1>2, <1>3

LEMMA TickKept == IInv /\ Tick => Kept'
<1> SUFFICES ASSUME IInv, Tick PROVE Kept'
  OBVIOUS
<1> USE DEF IInv, Kept, Tick, runVars, purgeVars, TypeOK, Times
<1>1. OwnPath'
  BY DEF OwnPath
<1>2. Marked' /\ JustCreated' /\ Guarded' /\ Dated'
  BY DEF Marked, JustCreated, Guarded, Dated
<1>3. Listed'
  BY PathParts DEF Listed
<1>4. QED BY <1>1, <1>2, <1>3

\* What one attempt of a purge to delete a file leaves in place.
LEMMA TryKept ==
    ASSUME IInv, NEW u \in Purgers, NEW p \in todo[u], TryFile(u, p)
    PROVE  /\ \A q \in Paths : file[q] \in InFlight => file'[q] = file[q]
           /\ \A q \in Paths : file'[q] \in InFlight => file[q] \in InFlight
           /\ Listed'
<1>1. p \in Paths /\ p[2] < now
  BY DEF IInv, TypeOK, Listed
<1>2. file[p] \in InFlight => p \in active
  <2>1. ASSUME NEW r \in Runs, pc[r] = "popen", path[r] = p PROVE FALSE
    BY <1>1, <2>1, PathOf DEF IInv, TypeOK, JustCreated, Times
  <2>2. QED BY <1>1, <2>1 DEF IInv, Guarded
<1>3. file' = file \/ file' = [file EXCEPT ![p] = "none"]
  BY DEF TryFile, Delete, Set
<1>4. file[p] \in InFlight => file' = file
  BY <1>2 DEF TryFile, Delete
<1>5. Listed'
  BY DEF TryFile, Set, IInv, TypeOK, Listed
<1>6. QED BY <1>1, <1>3, <1>4, <1>5 DEF IInv, TypeOK, InFlight

LEMMA PurgeStepKept ==
    ASSUME IInv, NEW u \in Purgers
    PROVE  /\ ListFiles(u) => Kept'
           /\ \A p \in todo[u] : TryFile(u, p) => Kept'
           /\ AgeDone(u) \/ PurgeDone(u) => Kept'
<1> USE DEF IInv, Kept, fileVars, runVars, purgeVars, Set
<1>1. ASSUME ListFiles(u) PROVE Kept'
  <2>1. \A p \in Eligible : p[2] < now
    <3>1. TAKE p \in Eligible
    <3>2. mtime[p] \in Times /\ p[2] <= mtime[p] /\ now - mtime[p] >= Fresh /\ p[2] \in Times
      BY PathParts DEF Eligible, TypeOK, Dated
    <3>3. QED BY <3>2, TimeAssumption DEF Times, TypeOK
  <2>2. Listed'
    BY <1>1, <2>1 DEF ListFiles, Listed, TypeOK
  <2>3. OwnPath' /\ Marked' /\ JustCreated' /\ Guarded' /\ Dated'
    BY <1>1 DEF ListFiles, OwnPath, Marked, JustCreated, Guarded, Dated
  <2>4. QED BY <2>2, <2>3
<1>2. ASSUME NEW p \in todo[u], TryFile(u, p) PROVE Kept'
  <2>1. Guarded' /\ Listed'
    BY <1>2, TryKept DEF TryFile, Guarded
  <2>2. OwnPath' /\ Marked' /\ JustCreated' /\ Dated'
    BY <1>2 DEF TryFile, OwnPath, Marked, JustCreated, Dated
  <2>3. QED BY <2>1, <2>2
<1>3. AgeDone(u) \/ PurgeDone(u) => Kept'
  BY DEF AgeDone, PurgeDone, OwnPath, Marked, JustCreated, Guarded, Dated, Listed, TypeOK
<1>4. QED BY <1>1, <1>2, <1>3

LEMMA DeleteStep ==
    ASSUME TypeOK, NEW u \in Purgers, AgeDelete(u) \/ SizeDelete(u)
    PROVE  \E p \in todo[u] : p \in Paths /\ TryFile(u, p) /\ (AgeDelete(u) \/ SizeDelete(u))
BY DEF AgeDelete, SizeDelete, Oldest, TypeOK

-----------------------------------------------------------------------------
(* The theorems *)

LEMMA InitIInv == Init => IInv
<1> SUFFICES ASSUME Init PROVE IInv
  OBVIOUS
<1>1. TypeOK
  BY PathParts, TimeAssumption DEF Init, TypeOK, Times, FileStates, RunPCs, PurgePCs
<1>2. OwnPath /\ Marked /\ JustCreated
  BY DEF Init, OwnPath, Marked, JustCreated
<1>3. Guarded
  BY DEF Init, Guarded, InFlight
<1>4. Dated /\ Listed
  BY PathParts DEF Init, Dated, Listed, Times
<1>5. QED BY <1>1, <1>2, <1>3, <1>4 DEF IInv

LEMMA RunIInv ==
    ASSUME IInv, NEW r \in Runs, StartRun(r) \/ StopRun(r) \/ RunStep(r)
    PROVE  IInv'
<1> USE DEF IInv, Kept
<1>1. CASE StartRun(r) \/ StopRun(r) \/ LeaveLoop(r) \/ LeaveWrite(r) \/ NextFrame(r)
           \/ Popen(r) \/ MarkActive(r) \/ WriteFrame(r)
  BY <1>1, LoopType, LoopKept
<1>2. CASE Finish(r) \/ FinishFail(r) \/ PostDone(r) \/ PostFail(r)
  BY <1>2, CloseType, CloseKept
<1>3. CASE FinalFlush(r) \/ FinalAbort(r) \/ FinalNothing(r)
  BY <1>3, FinalType, FinalKept
<1>4. QED BY <1>1, <1>2, <1>3 DEF RunStep

LEMMA PurgeIInv ==
    ASSUME IInv, NEW u \in Purgers, PurgeStep(u)
    PROVE  IInv'
<1> USE DEF IInv, Kept
<1>1. CASE ListFiles(u) \/ AgeDone(u) \/ PurgeDone(u)
  BY <1>1, PurgeType, PurgeStepKept
<1>2. CASE AgeDelete(u) \/ SizeDelete(u)
  BY <1>2, DeleteStep, PurgeType, PurgeStepKept
<1>3. QED BY <1>1, <1>2 DEF PurgeStep

LEMMA NextIInv == IInv /\ [Next]_vars => IInv'
<1> SUFFICES ASSUME IInv, [Next]_vars PROVE IInv'
  OBVIOUS
<1>1. CASE Tick
  BY <1>1, TickType, TickKept DEF IInv, Kept
<1>2. CASE UNCHANGED vars
  BY <1>2 DEF IInv, TypeOK, OwnPath, Marked, JustCreated, Guarded, Dated, Listed, vars,
     fileVars, runVars, purgeVars
<1>3. QED BY <1>1, <1>2, RunIInv, PurgeIInv DEF Next

\* The registry, the runs' own state and the purges' listings agree in every
\* reachable state.
THEOREM Invariance == Spec => []IInv
<1>1. QED BY InitIInv, NextIInv, PTL DEF Spec

\* Every variable keeps its type (TypeOK).
THEOREM TypeCorrect == Spec => []TypeOK
<1>1. IInv => TypeOK
  BY DEF IInv
<1>2. QED BY <1>1, Invariance, PTL

\* A run leaves the file it works on in place or turns it into a file of another state.
LEMMA RunKeepsFiles ==
    ASSUME TypeOK, NEW r \in Runs, StartRun(r) \/ StopRun(r) \/ RunStep(r),
           NEW p \in Paths, file[p] # "none"
    PROVE  file'[p] # "none"
BY DEF RunStep, fileVars, TypeOK, Set, StartRun, StopRun, LeaveLoop, LeaveWrite, NextFrame, Popen,
   MarkActive, WriteFrame, Finish, FinishFail, PostDone, PostFail, FinalFlush, FinalAbort,
   FinalNothing

\* No purge deletes a file that is still worked on (active_outputs.py and _delete
\* in retention.py), however old its listing is.
THEOREM InFlightSafe == Spec => NeverPurgeInFlight
<1> DEFINE Safe == \A p \in Paths : file[p] \in InFlight => file'[p] # "none"
<1>1. IInv /\ [Next]_vars => [Safe]_vars
  <2> SUFFICES ASSUME IInv, [Next]_vars, NEW p \in Paths, file[p] \in InFlight
               PROVE  file'[p] # "none"
    OBVIOUS
  <2>1. file[p] # "none"
    BY DEF InFlight
  <2>2. CASE UNCHANGED file
    BY <2>1, <2>2
  <2>3. ASSUME NEW r \in Runs, StartRun(r) \/ StopRun(r) \/ RunStep(r) PROVE file'[p] # "none"
    BY <2>1, <2>3, RunKeepsFiles DEF IInv
  <2>4. ASSUME NEW u \in Purgers, PurgeStep(u) PROVE file'[p] # "none"
    <3>1. CASE ListFiles(u) \/ AgeDone(u) \/ PurgeDone(u)
      BY <2>1, <3>1 DEF ListFiles, AgeDone, PurgeDone, fileVars
    <3>2. CASE AgeDelete(u) \/ SizeDelete(u)
      BY <2>1, <3>2, DeleteStep, TryKept DEF IInv
    <3>3. QED BY <2>4, <3>1, <3>2 DEF PurgeStep
  <2>5. QED BY <2>2, <2>3, <2>4 DEF Next, Tick, vars, fileVars
<1>2. QED BY <1>1, Invariance, PTL DEF Spec, NeverPurgeInFlight

-----------------------------------------------------------------------------
(* Two purges at once: with one camera the names of the files give their order. *)

\* The runs are those of one camera, one after another.
OneCamera == \E r \in Runs : Runs = {r}

\* A run may yet write its file; it may yet finish it or drop the mark.
Writes(r) ==
    pc[r] \in {"popen", "opened", "closing", "post"} \/ (segOpen[r] /\ (proc[r] \/ pc[r] = "loop"))
Works(r) == pc[r] \in {"popen", "opened", "closing", "post"} \/ segOpen[r] \/ proc[r]

\* The files that are there, or that a purge believes to be there.
Known == {p \in Paths : OnDisk(p) \/ \E u \in Purgers : p \in left[u]}

InPlace == \A r \in Runs : Writes(r) => OnDisk(path[r])
Recent  == \A p \in Known : mtime[p] <= now
Ordered == \A p, q \in Known : p[2] < q[2] => mtime[p] <= q[2]
Newest  == \A r \in Runs : Works(r) => \A q \in Known : q[2] <= path[r][2]

\* What a purge counts is not being written; what it has tried is locked.
Held ==
    \A u \in Purgers :
        /\ todo[u] \subseteq left[u]
        /\ \A p \in left[u] : p \notin active /\ now - mtime[p] >= Fresh
        /\ \A p \in left[u] \ todo[u] : OnDisk(p) /\ p \in Locked

\* A file that another purge has deleted went after all that are older, and a file that a
\* purge has not listed is newer than all that it has.
GoneInOrder ==
    \A u \in Purgers : \A p \in left[u], x \in Paths :
        ~OnDisk(p) /\ OnDisk(x) /\ x[2] < p[2] => x \in Locked \union active
Unlisted ==
    \A u \in Purgers : \A p \in left[u], x \in Paths :
        OnDisk(x) /\ x \notin left[u] /\ x \notin active => p[2] < x[2]

PurgeInv == InPlace /\ Recent /\ Ordered /\ Newest /\ Held /\ GoneInOrder /\ Unlisted

LEMMA OneName ==
    ASSUME OneCamera, NEW p \in Paths, NEW q \in Paths
    PROVE  p[1] = q[1] /\ (p[2] = q[2] => p = q)
BY DEF OneCamera, Paths

LEMMA KnownPast ==
    ASSUME IInv, Recent, NEW p \in Known
    PROVE  /\ p \in Paths /\ p[2] \in Int /\ mtime[p] \in Int /\ now \in Int
           /\ p[2] <= mtime[p] /\ p[2] <= now
<1>1. p \in Paths /\ p[2] \in Times
  BY PathParts DEF Known
<1>2. mtime[p] \in Times /\ now \in Times /\ p[2] <= mtime[p] /\ mtime[p] <= now
  BY <1>1 DEF IInv, TypeOK, Dated, Recent
<1> QED BY <1>1, <1>2 DEF Times

\* A purge takes the files in the order of their names.
LEMMA BeforeIsOlder ==
    ASSUME OneCamera, IInv, Recent, Ordered, NEW p \in Known, NEW q \in Known
    PROVE  Before(p, q) <=> p[2] <= q[2]
<1>1. /\ p \in Paths /\ p[2] \in Int /\ mtime[p] \in Int /\ p[2] <= mtime[p]
      /\ q \in Paths /\ q[2] \in Int /\ mtime[q] \in Int /\ q[2] <= mtime[q]
  BY KnownPast
<1>2. p[1] = q[1] /\ (p[2] = q[2] => p = q)
  BY <1>1, OneName
<1>3. ~(Rank[p[1]] < Rank[q[1]])
  BY <1>1, <1>2, PathParts, RankAssumption
<1>4. Before(p, q) <=> mtime[p] < mtime[q] \/ (mtime[p] = mtime[q] /\ p[2] <= q[2])
  BY <1>2, <1>3 DEF Before, ListedBefore
<1>5. CASE p[2] < q[2]
  <2>1. mtime[p] <= q[2]
    BY <1>5 DEF Ordered
  <2> QED BY <1>1, <1>4, <1>5, <2>1
<1>6. CASE q[2] < p[2]
  <2>1. mtime[q] <= p[2]
    BY <1>6 DEF Ordered
  <2> QED BY <1>1, <1>4, <1>6, <2>1
<1>7. CASE p = q
  BY <1>1, <1>4, <1>7
<1> QED BY <1>1, <1>2, <1>5, <1>6, <1>7

\* What a step of a run does to the folder, the registry and its own file.
Effect(r) ==
    /\ now' = now /\ todo' = todo /\ left' = left
    /\ \A p \in Paths : /\ OnDisk(p) => file'[p] # "none"
                        /\ file'[p] # "none" => OnDisk(p) \/ (Popen(r) /\ p = <<r, now>>)
    /\ \A p \in Paths : \/ mtime'[p] = mtime[p]
                        \/ mtime'[p] = now /\ Popen(r) /\ p = <<r, now>>
                        \/ mtime'[p] = now /\ Writes(r) /\ p = path[r] /\ p \in active
    /\ \A p \in active' : p \in active \/ (pc[r] = "popen" /\ p = path[r])
    /\ \A p \in active : p \in active' \/ (Works(r) /\ p = path[r])
    /\ \A s \in Runs : Works(s)' => \/ Popen(r) /\ path'[s] = <<r, now>>
                                    \/ Works(s) /\ path'[s] = path[s]
    /\ \A s \in Runs : Writes(s)' => \/ Popen(r) /\ path'[s] = <<r, now>>
                                     \/ Writes(s) /\ path'[s] = path[s]
    /\ Popen(r) => /\ file'[<<r, now>>] # "none" /\ mtime'[<<r, now>>] = now
                   /\ path'[r] = <<r, now>>

LEMMA RunEffect ==
    ASSUME IInv, InPlace, NEW r \in Runs, StartRun(r) \/ StopRun(r) \/ RunStep(r)
    PROVE  Effect(r)
<1> USE DEF IInv, TypeOK, fileVars, runVars, purgeVars, Set, Effect, Writes, Works, OnDisk, InFlight
<1>a. Works(r) => path[r] \in Paths
  BY OwnPaths DEF OwnPath
<1>b. Writes(r) => file[path[r]] # "none"
  BY DEF InPlace
<1>1. CASE StartRun(r)
  BY <1>1 DEF StartRun, Locals, Popen
<1>2. CASE StopRun(r)
  BY <1>2 DEF StopRun, Popen
<1>3. CASE LeaveLoop(r)
  BY <1>3 DEF LeaveLoop, Popen
<1>4. CASE LeaveWrite(r)
  BY <1>4 DEF LeaveWrite, Popen
<1>5. CASE NextFrame(r)
  BY <1>5 DEF NextFrame, Popen
<1>6. CASE Popen(r)
  <2>1. <<r, now>> \in Paths
    BY DEF Paths
  <2> QED BY <1>6, <2>1 DEF Popen
<1>7. CASE MarkActive(r)
  BY <1>7 DEF MarkActive, Popen
<1>8. CASE WriteFrame(r)
  BY <1>8, <1>a DEF WriteFrame, Popen, Marked
<1>9. CASE Finish(r)
  BY <1>9, <1>a, <1>b DEF Finish, Popen, Marked
<1>10. CASE FinishFail(r)
  BY <1>10, <1>a, <1>b DEF FinishFail, Popen, Marked, EndRun, Locals
<1>11. CASE PostDone(r)
  BY <1>11, <1>a, <1>b DEF PostDone, Popen, Marked, EndRun, Locals
<1>12. CASE PostFail(r)
  BY <1>12, <1>a, <1>b DEF PostFail, Popen, Marked, EndRun, Locals
<1>13. CASE FinalFlush(r)
  BY <1>13 DEF FinalFlush, Popen, EndRun, Locals
<1>14. CASE FinalAbort(r)
  BY <1>14, <1>a, <1>b DEF FinalAbort, Popen, EndRun, Locals, Marked
<1>15. CASE FinalNothing(r)
  BY <1>15 DEF FinalNothing, Popen, EndRun, Locals
<1> QED BY <1>1, <1>2, <1>3, <1>4, <1>5, <1>6, <1>7, <1>8, <1>9, <1>10, <1>11, <1>12, <1>13, <1>14, <1>15
        DEF RunStep

\* A run keeps the order of the files, whatever becomes of its own.
LEMMA RunPurgeInv ==
    ASSUME OneCamera, IInv, IInv', PurgeInv, NEW r \in Runs, Effect(r)
    PROVE  PurgeInv'
<1> DEFINE new == <<r, now>>
<1>1. /\ now' = now /\ todo' = todo /\ left' = left
      /\ \A p \in Paths : OnDisk(p) => OnDisk(p)'
      /\ \A p \in Paths : OnDisk(p)' => OnDisk(p) \/ (Popen(r) /\ p = new)
  BY DEF Effect, OnDisk
<1>2. \A s \in Runs : s = r
  BY DEF OneCamera
<1>3. new \in Paths /\ new[2] = now /\ now \in Int
  BY DEF Paths, IInv, TypeOK, Times
<1>4. \A p \in Known' : p \in Paths /\ (p \in Known \/ (Popen(r) /\ p = new))
  BY <1>1 DEF Known
<1>5. \A p \in Known : p \in Paths /\ p[2] \in Int /\ p[2] <= now
  BY KnownPast DEF PurgeInv
<1>6. \A u \in Purgers : \A p \in left[u] : p \in Paths /\ p \in Known /\ p[2] < now /\ p[2] \in Int
  <2> TAKE u \in Purgers
  <2> TAKE p \in left[u]
  <2>1. p \in Paths /\ p \in Known /\ p[2] < now
    BY DEF IInv, TypeOK, Listed, Known
  <2> QED BY <2>1, <1>5
<1>7. \A p \in Paths : \/ mtime'[p] = mtime[p]
                       \/ mtime'[p] = now /\ Popen(r) /\ p = new
                       \/ mtime'[p] = now /\ Writes(r) /\ p = path[r] /\ p \in active
  BY DEF Effect
<1>8. Popen(r) => OnDisk(new)' /\ mtime'[new] = now /\ path'[r] = new
  BY DEF Effect, OnDisk
<1>9. Works(r) => \A q \in Known : q[2] <= path[r][2]
  BY DEF PurgeInv, Newest
<1>10. Writes(r) => Works(r)
  BY DEF Writes, Works
<1>11. InPlace'
  <2> SUFFICES ASSUME NEW s \in Runs, Writes(s)' PROVE OnDisk(path[s])'
    BY DEF InPlace
  <2>1. s = r
    BY <1>2
  <2>2. CASE Popen(r)
    BY <1>8, <1>1, <2>1, <2>2 DEF OnDisk
  <2>3. CASE ~Popen(r)
    <3>1. Writes(s) /\ path'[s] = path[s]
      BY <2>3 DEF Effect
    <3>2. OnDisk(path[s]) /\ path[s] \in Paths
      BY <3>1, OwnPaths DEF PurgeInv, InPlace, IInv, OwnPath, Writes, TypeOK
    <3> QED BY <3>1, <3>2, <1>1
  <2> QED BY <2>2, <2>3
<1>12. Recent'
  <2> SUFFICES ASSUME NEW p \in Known' PROVE mtime'[p] <= now
    BY <1>1 DEF Recent
  <2>1. CASE p \in Known
    BY <2>1, <1>4, <1>7, <1>3 DEF PurgeInv, Recent
  <2>2. CASE Popen(r) /\ p = new
    BY <2>2, <1>8, <1>3
  <2> QED BY <2>1, <2>2, <1>4
<1>13. Ordered'
  <2> SUFFICES ASSUME NEW p \in Known', NEW q \in Known', p[2] < q[2] PROVE mtime'[p] <= q[2]
    BY DEF Ordered
  <2>1. p[2] \in Int /\ q[2] \in Int /\ q[2] <= now
    BY <1>3, <1>4, <1>5
  <2>2. p # new /\ p \in Known /\ p \in Paths
    BY <1>3, <1>4, <2>1
  <2>3. CASE q \in Known
    <3>1. mtime[p] <= q[2]
      BY <2>2, <2>3 DEF PurgeInv, Ordered
    <3>2. ~(Writes(r) /\ p = path[r])
      BY <1>9, <1>10, <2>1, <2>3
    <3> QED BY <1>7, <2>2, <3>1, <3>2
  <2>4. CASE Popen(r) /\ q = new
    BY <1>12, <1>1, <1>3, <2>4 DEF Recent
  <2> QED BY <1>4, <2>3, <2>4
<1>14. Newest'
  <2> SUFFICES ASSUME NEW s \in Runs, Works(s)', NEW q \in Known' PROVE q[2] <= path'[s][2]
    BY DEF Newest
  <2>1. s = r
    BY <1>2
  <2>2. CASE Popen(r)
    BY <1>3, <1>4, <1>5, <1>8, <2>1, <2>2
  <2>3. CASE ~Popen(r)
    <3>1. Works(s) /\ path'[s] = path[s]
      BY <2>3 DEF Effect
    <3> QED BY <1>4, <1>9, <2>1, <2>3, <3>1
  <2> QED BY <2>2, <2>3
<1>15. Held'
  <2> SUFFICES ASSUME NEW u \in Purgers
               PROVE  /\ todo[u] \subseteq left[u]
                      /\ \A p \in left[u] : p \notin active' /\ now - mtime'[p] >= Fresh
                      /\ \A p \in left[u] \ todo[u] : OnDisk(p)' /\ p \in Locked
    BY <1>1 DEF Held
  <2>1. \A p \in left[u] : p \notin active /\ now - mtime[p] >= Fresh
    BY DEF PurgeInv, Held
  <2>2. \A p \in left[u] : ~(pc[r] = "popen" /\ p = path[r])
    BY <1>3, <1>6 DEF IInv, JustCreated
  <2>3. \A p \in left[u] : p \notin active'
    BY <2>1, <2>2 DEF Effect
  <2>4. \A p \in left[u] : mtime'[p] = mtime[p]
    BY <1>3, <1>6, <1>7, <2>1
  <2> QED BY <1>1, <1>6, <2>1, <2>3, <2>4 DEF PurgeInv, Held
<1>16. \A p \in Known, x \in active : x \in active' \/ p[2] <= x[2]
  BY <1>9 DEF Effect
<1>17. GoneInOrder'
  <2> SUFFICES ASSUME NEW u \in Purgers, NEW p \in left[u], NEW x \in Paths,
                      ~OnDisk(p)', OnDisk(x)', x[2] < p[2]
               PROVE  x \in Locked \/ x \in active'
    BY <1>1 DEF GoneInOrder
  <2>1. OnDisk(x) /\ ~OnDisk(p) /\ x \in Known /\ p \in Known
    BY <1>1, <1>3, <1>6 DEF Known
  <2>2. x \in Locked \/ x \in active
    BY <2>1 DEF PurgeInv, GoneInOrder
  <2>3. x[2] \in Int /\ p[2] \in Int
    BY <1>5, <2>1
  <2> QED BY <1>16, <2>1, <2>2, <2>3
<1>18. Unlisted'
  <2> SUFFICES ASSUME NEW u \in Purgers, NEW p \in left[u], NEW x \in Paths,
                      OnDisk(x)', x \notin left[u], x \notin active'
               PROVE  p[2] < x[2]
    BY <1>1 DEF Unlisted
  <2>1. CASE Popen(r) /\ x = new
    BY <1>3, <1>6, <2>1
  <2>2. CASE OnDisk(x) /\ x \notin active
    BY <2>2 DEF PurgeInv, Unlisted
  <2>3. CASE OnDisk(x) /\ x \in active
    <3>1. p[2] <= x[2] /\ p \in Paths /\ p # x
      BY <1>6, <1>16, <2>3
    <3>2. p[2] # x[2] /\ p[2] \in Int /\ x[2] \in Int
      BY <1>5, <1>6, <2>3, <3>1, OneName DEF Known
    <3> QED BY <3>1, <3>2
  <2> QED BY <1>1, <2>1, <2>2, <2>3
<1> QED BY <1>11, <1>12, <1>13, <1>14, <1>15, <1>17, <1>18 DEF PurgeInv

LEMMA TickPurgeInv ==
    ASSUME IInv, PurgeInv, Tick
    PROVE  PurgeInv'
<1> USE DEF Tick, runVars, purgeVars, IInv, TypeOK
<1>1. Known' = Known /\ \A p \in Known : p \in Paths
  BY DEF Known, OnDisk
<1>2. InPlace' /\ Ordered' /\ Newest' /\ GoneInOrder' /\ Unlisted'
  BY <1>1 DEF PurgeInv, InPlace, Ordered, Newest, GoneInOrder, Unlisted, OnDisk, Writes, Works
<1>3. now \in Int /\ \A p \in Paths : mtime[p] \in Int
  BY DEF Times
<1>4. Recent'
  BY <1>1, <1>3 DEF PurgeInv, Recent
<1>5. Held'
  <2>1. \A u \in Purgers : \A p \in left[u] : p \in Paths
    OBVIOUS
  <2>2. Fresh \in Int
    BY TimeAssumption
  <2> QED BY <1>3, <2>1, <2>2 DEF PurgeInv, Held, OnDisk
<1> QED BY <1>2, <1>4, <1>5 DEF PurgeInv

\* A listing holds what is not being written and has not been for a while.
LEMMA ListPurgeInv ==
    ASSUME OneCamera, IInv, PurgeInv, NEW u \in Purgers, ListFiles(u)
    PROVE  PurgeInv'
<1> USE DEF fileVars, runVars, Set
<1>1. /\ UNCHANGED <<now, file, mtime, active, pc, path, proc, segOpen>>
      /\ todo' = [todo EXCEPT ![u] = Eligible] /\ left' = [left EXCEPT ![u] = Eligible]
  BY DEF ListFiles
<1>2. \A v \in Purgers : todo'[v] = (IF v = u THEN Eligible ELSE todo[v])
                      /\ left'[v] = (IF v = u THEN Eligible ELSE left[v])
  BY <1>1 DEF IInv, TypeOK
<1>3. Known' \subseteq Known
  BY <1>1, <1>2 DEF Known, Eligible, OnDisk
<1>4. InPlace' /\ Recent' /\ Ordered' /\ Newest'
  BY <1>1, <1>3 DEF PurgeInv, InPlace, Recent, Ordered, Newest, OnDisk, Writes, Works
<1>5. Held'
  <2> SUFFICES ASSUME NEW v \in Purgers
               PROVE  /\ todo'[v] \subseteq left'[v]
                      /\ \A p \in left'[v] : p \notin active /\ now - mtime[p] >= Fresh
                      /\ \A p \in left'[v] \ todo'[v] : OnDisk(p) /\ p \in Locked
    BY <1>1 DEF Held, OnDisk
  <2>1. CASE v = u
    BY <1>2, <2>1 DEF Eligible
  <2>2. CASE v # u
    BY <1>2, <2>2 DEF PurgeInv, Held
  <2> QED BY <2>1, <2>2
<1>6. GoneInOrder'
  <2> SUFFICES ASSUME NEW v \in Purgers, NEW p \in left'[v], NEW x \in Paths,
                      ~OnDisk(p), OnDisk(x), x[2] < p[2]
               PROVE  x \in Locked \union active
    BY <1>1 DEF GoneInOrder, OnDisk
  <2>1. v # u
    BY <1>2 DEF Eligible
  <2> QED BY <1>2, <2>1 DEF PurgeInv, GoneInOrder
<1>7. Unlisted'
  <2> SUFFICES ASSUME NEW v \in Purgers, NEW p \in left'[v], NEW x \in Paths,
                      OnDisk(x), x \notin left'[v], x \notin active
               PROVE  p[2] < x[2]
    BY <1>1 DEF Unlisted, OnDisk
  <2>1. CASE v # u
    BY <1>2, <2>1 DEF PurgeInv, Unlisted
  <2>2. CASE v = u
    <3>1. p \in Eligible /\ x \notin Eligible /\ p \in Paths /\ p # x
      BY <1>2, <2>2 DEF Eligible
    <3>2. p \in Known /\ x \in Known
      BY <3>1 DEF Known, Eligible
    <3>3. /\ p[2] \in Int /\ mtime[p] \in Int /\ now \in Int /\ p[2] <= mtime[p]
          /\ x[2] \in Int /\ mtime[x] \in Int
      BY <3>2, KnownPast DEF PurgeInv
    <3>4. mtime[p] < mtime[x]
      BY <3>1, <3>3, TimeAssumption DEF Eligible
    <3>5. x[2] < p[2] => mtime[x] <= p[2]
      BY <3>2 DEF PurgeInv, Ordered
    <3>6. p[2] # x[2]
      BY <3>1, OneName
    <3> QED BY <3>3, <3>4, <3>5, <3>6
  <2> QED BY <2>1, <2>2
<1> QED BY <1>4, <1>5, <1>6, <1>7 DEF PurgeInv

LEMMA PhasePurgeInv ==
    ASSUME IInv, PurgeInv, NEW u \in Purgers, AgeDone(u) \/ PurgeDone(u)
    PROVE  PurgeInv'
<1> USE DEF fileVars, runVars, Set
<1>1. UNCHANGED <<now, file, mtime, active, pc, path, proc, segOpen>>
  BY DEF AgeDone, PurgeDone
<1>2. \A v \in Purgers : /\ left'[v] \subseteq left[v] /\ (left'[v] = left[v] \/ left'[v] = {})
                         /\ \/ todo'[v] = left'[v]
                            \/ todo'[v] = todo[v] /\ left'[v] = left[v]
  <2>1. CASE AgeDone(u)
    BY <2>1 DEF AgeDone, IInv, TypeOK
  <2>2. CASE PurgeDone(u)
    BY <2>2 DEF PurgeDone, IInv, TypeOK
  <2> QED BY <2>1, <2>2
<1>3. Known' \subseteq Known
  BY <1>1, <1>2 DEF Known, OnDisk
<1>4. InPlace' /\ Recent' /\ Ordered' /\ Newest'
  BY <1>1, <1>3 DEF PurgeInv, InPlace, Recent, Ordered, Newest, OnDisk, Writes, Works
<1>5. Held' /\ GoneInOrder' /\ Unlisted'
  BY <1>1, <1>2 DEF PurgeInv, Held, GoneInOrder, Unlisted, OnDisk
<1> QED BY <1>4, <1>5 DEF PurgeInv

\* A phase takes the oldest file that is left to it, also in the age phase, whose files are
\* older than all the others.
LEMMA TakesOldest ==
    ASSUME IInv, PurgeInv, NEW u \in Purgers, AgeDelete(u) \/ SizeDelete(u)
    PROVE  \E p \in todo[u] : TryFile(u, p) /\ \A x \in todo[u] : Before(p, x)
<1>1. CASE SizeDelete(u)
  BY <1>1 DEF SizeDelete, Oldest
<1>2. CASE AgeDelete(u)
  <2>1. PICK p \in Oldest({q \in todo[u] : OverAge(u, q)}) : TryFile(u, p)
    BY <1>2 DEF AgeDelete
  <2>2. p \in todo[u] /\ OverAge(u, p) /\ \A x \in todo[u] : OverAge(u, x) => Before(p, x)
    BY <2>1 DEF Oldest
  <2>3. ASSUME NEW x \in todo[u], ~OverAge(u, x) PROVE Before(p, x)
    <3>1. mtime[p] \in Int /\ mtime[x] \in Int /\ started[u] \in Int /\ MaxAge \in Int
      BY <2>2, <2>3, TimeAssumption DEF IInv, TypeOK, Times
    <3>2. mtime[p] < mtime[x]
      BY <2>2, <2>3, <3>1 DEF OverAge
    <3> QED BY <3>2 DEF Before
  <2> QED BY <2>1, <2>2, <2>3
<1> QED BY <1>1, <1>2

\* What a purge deletes, nobody writes, and what is older is locked or still marked.
LEMMA DeletesOldest ==
    ASSUME OneCamera, IInv, PurgeInv, NEW u \in Purgers, NEW p \in todo[u],
           \A x \in todo[u] : Before(p, x)
    PROVE  /\ p \in left[u] /\ p \in Paths /\ p \notin active
           /\ \A x \in Paths : OnDisk(x) /\ x[2] < p[2] => x \in Locked \union active
<1>1. p \in left[u] /\ p \in Paths /\ p \notin active /\ p \in Known /\ p[2] \in Int
  <2>1. p \in left[u] /\ p \notin active
    BY DEF PurgeInv, Held
  <2>2. p \in Paths
    BY DEF IInv, TypeOK
  <2> QED BY <2>1, <2>2, PathParts DEF Known, Times
<1>2. ASSUME NEW x \in Paths, OnDisk(x), x[2] < p[2] PROVE x \in Locked \union active
  <2>1. x \in Known /\ x[2] \in Int
    BY <1>2, PathParts DEF Known, Times
  <2>2. CASE x \in todo[u]
    BY <1>1, <1>2, <2>1, <2>2, BeforeIsOlder DEF PurgeInv
  <2>3. CASE x \in left[u] \ todo[u]
    BY <2>3 DEF PurgeInv, Held
  <2>4. CASE x \notin left[u]
    <3>1. x \notin active => p[2] < x[2]
      BY <1>1, <1>2, <2>4 DEF PurgeInv, Unlisted
    <3> QED BY <1>1, <1>2, <2>1, <3>1
  <2> QED BY <2>2, <2>3, <2>4
<1> QED BY <1>1, <1>2

LEMMA TryPurgeInv ==
    ASSUME OneCamera, IInv, PurgeInv, NEW u \in Purgers, NEW p \in todo[u], TryFile(u, p),
           \A x \in todo[u] : Before(p, x)
    PROVE  PurgeInv'
<1>1. /\ p \in left[u] /\ p \in Paths /\ p \notin active
      /\ \A x \in Paths : OnDisk(x) /\ x[2] < p[2] => x \in Locked \union active
  BY DeletesOldest
<1>2. /\ UNCHANGED <<now, mtime, active, pc, path, proc, segOpen>>
      /\ todo' = [todo EXCEPT ![u] = @ \ {p}]
      /\ left' = IF file'[p] = "none" THEN [left EXCEPT ![u] = @ \ {p}] ELSE left
      /\ file' = IF p \in Locked THEN file ELSE [file EXCEPT ![p] = "none"]
  BY <1>1 DEF TryFile, Delete, Set, runVars
<1>3. \A x \in Paths : /\ OnDisk(x)' => OnDisk(x)
                       /\ OnDisk(x) /\ ~OnDisk(x)' => x = p /\ p \notin Locked
  BY <1>2 DEF OnDisk, IInv, TypeOK
<1>4. ~OnDisk(p)' \/ (OnDisk(p) /\ p \in Locked)
  BY <1>1, <1>2 DEF OnDisk, IInv, TypeOK
<1>5. \A v \in Purgers :
          /\ todo'[v] = (IF v = u THEN todo[v] \ {p} ELSE todo[v])
          /\ left'[v] \subseteq left[v]
          /\ \A x \in left[v] : x \in left'[v] \/ (v = u /\ x = p /\ ~OnDisk(p)')
          /\ v = u /\ ~OnDisk(p)' => p \notin left'[v]
  BY <1>2 DEF OnDisk, IInv, TypeOK
<1>6. \A v \in Purgers : left[v] \subseteq Paths
  BY DEF IInv, TypeOK
<1>7. Known' \subseteq Known
  BY <1>3, <1>5 DEF Known
<1>8. Recent' /\ Ordered' /\ Newest'
  BY <1>2, <1>7 DEF PurgeInv, Recent, Ordered, Newest, Works
<1>9. InPlace'
  <2> SUFFICES ASSUME NEW s \in Runs, Writes(s) PROVE OnDisk(path[s])'
    BY <1>2 DEF InPlace, Writes
  <2>1. path[s] \in Paths /\ OnDisk(path[s])
    BY OwnPaths DEF PurgeInv, InPlace, IInv, OwnPath, Writes, TypeOK
  <2>2. path[s] # p
    <3>1. p[2] < now /\ now \in Int
      BY <1>1 DEF IInv, TypeOK, Listed, Times
    <3>2. CASE pc[s] = "popen"
      BY <3>1, <3>2 DEF IInv, JustCreated
    <3>3. CASE pc[s] # "popen"
      BY <1>1, <3>3 DEF IInv, Marked, Writes
    <3> QED BY <3>2, <3>3
  <2>3. OnDisk(path[s])' <=> file'[path[s]] # "none"
    BY <1>2 DEF OnDisk
  <2>4. file'[path[s]] = file[path[s]]
    BY <1>2, <2>1, <2>2 DEF IInv, TypeOK
  <2> QED BY <2>1, <2>3, <2>4 DEF OnDisk
<1>10. Held'
  <2> SUFFICES ASSUME NEW v \in Purgers
               PROVE  /\ todo'[v] \subseteq left'[v]
                      /\ \A x \in left'[v] : x \notin active /\ now - mtime[x] >= Fresh
                      /\ \A x \in left'[v] \ todo'[v] : OnDisk(x)' /\ x \in Locked
    BY <1>2 DEF Held
  <2>1. todo'[v] \subseteq left'[v]
    BY <1>5 DEF PurgeInv, Held
  <2>2. \A x \in left'[v] : x \notin active /\ now - mtime[x] >= Fresh
    BY <1>5 DEF PurgeInv, Held
  <2>3. ASSUME NEW x \in left'[v] \ todo'[v] PROVE OnDisk(x)' /\ x \in Locked
    <3>1. x \in left[v] \ todo[v] \/ (v = u /\ x = p /\ OnDisk(p)')
      BY <1>5, <2>3
    <3>2. x \in left[v] \ todo[v] => OnDisk(x) /\ x \in Locked
      BY DEF PurgeInv, Held
    <3> QED BY <1>3, <1>4, <1>6, <3>1, <3>2
  <2> QED BY <2>1, <2>2, <2>3
<1>11. GoneInOrder'
  <2> SUFFICES ASSUME NEW v \in Purgers, NEW q \in left'[v], NEW x \in Paths,
                      ~OnDisk(q)', OnDisk(x)', x[2] < q[2]
               PROVE  x \in Locked \union active
    BY <1>2 DEF GoneInOrder
  <2>1. q \in left[v] /\ q \in Paths /\ OnDisk(x)
    BY <1>3, <1>5, <1>6
  <2>2. CASE OnDisk(q)
    BY <1>1, <1>3, <2>1, <2>2
  <2>3. CASE ~OnDisk(q)
    BY <2>1, <2>3 DEF PurgeInv, GoneInOrder
  <2> QED BY <2>2, <2>3
<1>12. Unlisted'
  <2> SUFFICES ASSUME NEW v \in Purgers, NEW q \in left'[v], NEW x \in Paths,
                      OnDisk(x)', x \notin left'[v], x \notin active
               PROVE  q[2] < x[2]
    BY <1>2 DEF Unlisted
  <2>1. q \in left[v] /\ OnDisk(x) /\ x \notin left[v]
    BY <1>3, <1>5
  <2> QED BY <2>1 DEF PurgeInv, Unlisted
<1> QED BY <1>8, <1>9, <1>10, <1>11, <1>12 DEF PurgeInv

LEMMA StartPurgeInv == ASSUME Init PROVE PurgeInv
<1>1. /\ \A r \in Runs : ~Writes(r) /\ ~Works(r)
      /\ \A u \in Purgers : todo[u] = {} /\ left[u] = {}
  BY DEF Init, Writes, Works
<1>2. \A p \in Known : p \in Old /\ p \in Paths /\ mtime[p] = p[2] /\ p[2] \in Times /\ p[2] < Start
  <2> TAKE p \in Known
  <2>1. p \in Paths /\ p \in Old
    BY <1>1 DEF Known, OnDisk, Init
  <2> QED BY <2>1, PathParts, OldAssumption DEF Init
<1>3. now = Start /\ Start \in Int
  BY TimeAssumption DEF Init
<1>4. Recent
  BY <1>2, <1>3 DEF Recent, Times
<1>5. Ordered
  BY <1>2 DEF Ordered, Times
<1> QED BY <1>1, <1>4, <1>5 DEF PurgeInv, InPlace, Newest, Held, GoneInOrder, Unlisted

LEMMA NextPurgeInv ==
    ASSUME OneCamera, IInv, IInv', PurgeInv, [Next]_vars
    PROVE  PurgeInv'
<1>1. ASSUME NEW r \in Runs, StartRun(r) \/ StopRun(r) \/ RunStep(r) PROVE PurgeInv'
  BY <1>1, RunEffect, RunPurgeInv DEF PurgeInv
<1>2. ASSUME NEW u \in Purgers, PurgeStep(u) PROVE PurgeInv'
  <2>1. CASE ListFiles(u)
    BY <2>1, ListPurgeInv
  <2>2. CASE AgeDone(u) \/ PurgeDone(u)
    BY <2>2, PhasePurgeInv
  <2>3. CASE AgeDelete(u) \/ SizeDelete(u)
    BY <2>3, TakesOldest, TryPurgeInv
  <2> QED BY <1>2, <2>1, <2>2, <2>3 DEF PurgeStep
<1>3. CASE Tick
  BY <1>3, TickPurgeInv
<1>4. CASE UNCHANGED vars
  BY <1>4 DEF vars, fileVars, runVars, purgeVars, PurgeInv, InPlace, Recent, Ordered, Newest, Held,
     GoneInOrder, Unlisted, Known, OnDisk, Writes, Works
<1> QED BY <1>1, <1>2, <1>3, <1>4 DEF Next

LEMMA PathsFinite == ASSUME OneCamera PROVE IsFiniteSet(Paths)
<1>1. PICK r \in Runs : Runs = {r}
  BY DEF OneCamera
<1>2. IsFiniteSet(Times) /\ IsFiniteSet(Runs)
  <2>1. MaxTime \in Int /\ 0 \in Int
    BY TimeAssumption
  <2> QED BY <1>1, <2>1, FS_Interval, FS_Singleton DEF Times
<1> QED BY <1>2, FS_Product DEF Paths

\* What a purge counts is there as long as what it deletes is: nothing newer has gone.
LEMMA CountsWhatIsThere ==
    ASSUME OneCamera, IInv, PurgeInv, NEW u \in Purgers, NEW p \in todo[u],
           \A x \in todo[u] : Before(p, x), OnDisk(p), p \notin Locked
    PROVE  left[u] \subseteq Eligible
<1> SUFFICES ASSUME NEW q \in left[u] PROVE q \in Eligible
  OBVIOUS
<1>1. q \in Paths /\ q \notin active /\ now - mtime[q] >= Fresh
  BY DEF PurgeInv, Held, IInv, TypeOK
<1>2. p \in left[u] /\ p \in Paths /\ p \notin active
  BY DeletesOldest
<1>3. CASE q \notin todo[u]
  BY <1>1, <1>3 DEF PurgeInv, Held, Eligible
<1>4. CASE q \in todo[u] /\ ~OnDisk(q)
  <2>1. p \in Known /\ q \in Known /\ Before(p, q)
    BY <1>1, <1>2, <1>4 DEF Known
  <2>2. p[2] <= q[2] /\ p # q /\ p[2] \in Int /\ q[2] \in Int
    BY <1>4, <2>1, BeforeIsOlder, KnownPast DEF PurgeInv
  <2>3. p[2] < q[2]
    BY <1>1, <1>2, <2>2, OneName
  <2> QED BY <1>2, <1>4, <2>3 DEF PurgeInv, GoneInOrder
<1>5. CASE OnDisk(q)
  BY <1>1, <1>5 DEF Eligible
<1> QED BY <1>3, <1>4, <1>5

\* Two purges at once, each deleting from a listing of its own, never go below the budget and
\* never take a newer file before an older one, however runs begin and end meanwhile.
THEOREM PurgesStopInTime == OneCamera => (Spec => NoOverPurge)
<1> DEFINE Fair(u, p) ==
        upc[u] = "size" /\ upc'[u] = "size" /\ todo'[u] # todo[u] /\ file'[p] # file[p] =>
              /\ Cardinality(Eligible) > Budget
              /\ \A q \in Eligible : q \in Locked \/ Before(p, q)
<1> DEFINE Step == \A u \in Purgers, p \in Paths : Fair(u, p)
<1> SUFFICES ASSUME OneCamera PROVE Spec => NoOverPurge
  OBVIOUS
<1>1. Init => PurgeInv
  BY StartPurgeInv
<1>2. IInv /\ IInv' /\ PurgeInv /\ [Next]_vars => PurgeInv'
  BY NextPurgeInv
<1>3. IInv /\ PurgeInv /\ [Next]_vars => [Step]_vars
  <2> SUFFICES ASSUME IInv, PurgeInv, Next, NEW u \in Purgers, NEW p \in Paths,
                      upc[u] = "size", upc'[u] = "size", todo'[u] # todo[u], file'[p] # file[p]
               PROVE  /\ Cardinality(Eligible) > Budget
                      /\ \A q \in Eligible : q \in Locked \/ Before(p, q)
    OBVIOUS
  <2>1. SizeDelete(u)
    <3>1. ASSUME NEW r \in Runs, StartRun(r) \/ StopRun(r) \/ RunStep(r) PROVE FALSE
      <4>1. todo' = todo
        BY <3>1, RunEffect DEF Effect, PurgeInv
      <4> QED BY <4>1
    <3>2. ~Tick
      BY DEF Tick
    <3>3. PICK v \in Purgers : PurgeStep(v)
      BY <3>1, <3>2 DEF Next
    <3>4. ~ListFiles(v) /\ ~AgeDone(v) /\ ~PurgeDone(v)
      BY DEF ListFiles, AgeDone, PurgeDone, fileVars
    <3>5. AgeDelete(v) \/ SizeDelete(v)
      BY <3>3, <3>4 DEF PurgeStep
    <3>6. v = u
      BY <3>5 DEF AgeDelete, SizeDelete, TryFile, Set, IInv, TypeOK
    <3> QED BY <3>5, <3>6 DEF AgeDelete
  <2>2. PICK q \in todo[u] : TryFile(u, q) /\ \A x \in todo[u] : Before(q, x)
    BY <2>1, TakesOldest
  <2>3. q = p /\ OnDisk(p) /\ p \notin Locked
    BY <2>2 DEF TryFile, Delete, Set, OnDisk, IInv, TypeOK
  <2>4. left[u] \subseteq Eligible
    BY <2>2, <2>3, CountsWhatIsThere
  <2>5. Cardinality(Eligible) > Budget
    <3>1. IsFiniteSet(Eligible) /\ Cardinality(left[u]) <= Cardinality(Eligible)
      BY <2>4, PathsFinite, FS_Subset DEF Eligible
    <3>2. Cardinality(left[u]) > Budget
      BY <2>1 DEF SizeDelete
    <3>3. Cardinality(left[u]) \in Nat /\ Cardinality(Eligible) \in Nat
      BY <2>4, <3>1, FS_Subset, FS_CardinalityType
    <3> QED BY <3>1, <3>2, <3>3, BudgetAssumption
  <2>6. ASSUME NEW x \in Eligible, x \notin Locked PROVE Before(p, x)
    <3>1. x \in Paths /\ OnDisk(x) /\ x \notin active /\ x \in Known
      BY <2>6 DEF Eligible, Known
    <3>2. p \in Known
      BY <2>3 DEF Known
    <3>3. ~(x[2] < p[2])
      BY <2>2, <2>3, <2>6, <3>1, DeletesOldest
    <3>4. x[2] \in Int /\ p[2] \in Int
      BY <3>1, <3>2, KnownPast DEF PurgeInv
    <3> QED BY <3>1, <3>2, <3>3, <3>4, BeforeIsOlder DEF PurgeInv
  <2> QED BY <2>5, <2>6
<1>4. QED BY <1>1, <1>2, <1>3, Invariance, PTL DEF Spec, NoOverPurge
=============================================================================
