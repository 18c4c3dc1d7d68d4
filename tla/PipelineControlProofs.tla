------------------------ MODULE PipelineControlProofs ------------------------
(***************************************************************************)
(* Proofs about PipelineControl.  One run at a time is in thread, and it   *)
(* holds running until its history entry is written; so the shared error   *)
(* it reads for that entry is its own.                                     *)
(***************************************************************************)
EXTENDS PipelineControl, TLAPS

-----------------------------------------------------------------------------
(* Types *)

LEMMA StartType ==
    ASSUME TypeOK, NEW x \in Starts
    PROVE  /\ StartCheck(x) \/ Refuse(x) \/ WorkerStart(x) => TypeOK'
           /\ Claim(x) => TypeOK'
<1> USE DEF TypeOK, Goto, RunPCs, statusVars, slotVars, runVars, stopVars, policyVars
<1>1. StartCheck(x) \/ Refuse(x) \/ WorkerStart(x) => TypeOK'
  BY DEF StartCheck, Refuse, WorkerStart
<1>2. Claim(x) => TypeOK'
  <2> SUFFICES ASSUME Claim(x) PROVE TypeOK'
    OBVIOUS
  <2>1. pc' \in [Starts -> RunPCs]
    BY DEF Claim, TakeSlot
  <2>2. /\ running' \in BOOLEAN /\ error' \in BOOLEAN /\ job' \in Starts \union {None}
        /\ event' \in Starts \union {None} /\ thread' \in Starts \union {None}
    BY Zenon DEF Claim, TakeSlot
  <2> QED BY <2>1, <2>2, Zenon DEF Claim, TakeSlot
<1>3. QED BY <1>1, <1>2

LEMMA WorkerType ==
    ASSUME TypeOK, NEW x \in Starts
    PROVE  /\ Reset(x) \/ Snapshot(x) => TypeOK'
           /\ SaveState(x) => TypeOK'
           /\ Patch(x) => TypeOK'
           /\ Segment(x) => TypeOK'
           /\ RunEnd(x) => TypeOK'
           /\ Record(x) => TypeOK'
           /\ Release(x) \/ ClearEncoder(x) \/ ThreadEnd(x) => TypeOK'
<1> USE DEF TypeOK, Goto, RunPCs, Policies, statusVars, slotVars, runVars, stopVars, policyVars
<1>1. Reset(x) \/ Snapshot(x) => TypeOK'
  BY ZenonT(30) DEF Reset, Snapshot
<1>2. SaveState(x) => TypeOK'
  BY DEF SaveState
<1>3. Patch(x) => TypeOK'
  BY DEF Patch
<1>4. Segment(x) => TypeOK'
  BY DEF Segment
<1>5. RunEnd(x) => TypeOK'
  BY DEF RunEnd
<1>6. Record(x) => TypeOK'
  BY DEF Record
<1>7. Release(x) \/ ClearEncoder(x) \/ ThreadEnd(x) => TypeOK'
  BY ZenonT(30) DEF Release, ClearEncoder, ThreadEnd
<1>8. QED BY <1>1, <1>2, <1>3, <1>4, <1>5, <1>6, <1>7

LEMMA OtherType ==
    ASSUME TypeOK, SnapTaken
    PROVE  /\ \A y \in Stops : StopCheck(y) => TypeOK'
           /\ \A y \in Stops : StopSet(y) \/ StopAbort(y) => TypeOK'
           /\ AutoOpen \/ AutoSegment \/ AutoClose => TypeOK'
           /\ \A z \in Setters : SetPolicy(z) \/ PolicySnapshot(z) => TypeOK'
           /\ \A z \in Setters : PolicySave(z) => TypeOK'
<1> USE DEF TypeOK, Policies, statusVars, slotVars, runVars, stopVars, policyVars
<1>1. ASSUME NEW y \in Stops, StopCheck(y) PROVE TypeOK'
  BY <1>1 DEF StopCheck
<1>2. ASSUME NEW y \in Stops, StopSet(y) \/ StopAbort(y) PROVE TypeOK'
  BY <1>2 DEF StopSet, StopAbort
<1>3. AutoOpen \/ AutoSegment \/ AutoClose => TypeOK'
  BY DEF AutoOpen, AutoSegment, AutoClose
<1>4. ASSUME NEW z \in Setters, SetPolicy(z) \/ PolicySnapshot(z) PROVE TypeOK'
  BY <1>4 DEF SetPolicy, PolicySnapshot
<1>5. ASSUME NEW z \in Setters, PolicySave(z) PROVE TypeOK'
  BY <1>5 DEF PolicySave, SnapTaken
<1>6. QED BY <1>1, <1>2, <1>3, <1>4, <1>5

-----------------------------------------------------------------------------
(* The slot, the error field and the history *)

Kept == SlotOwner /\ SlotHeld /\ Recorded /\ ErrorOwn /\ SnapTaken /\ HistoryTruthful

\* In a slot that is free, no run is under way.
LEMMA SlotFree ==
    ASSUME SlotOwner, SlotHeld, ~running, ~ThreadAlive, NEW y \in Starts
    PROVE  pc[y] \notin HoldPCs \union AlivePCs
BY DEF SlotOwner, SlotHeld, ThreadAlive, Alive, HoldPCs, AlivePCs

LEMMA StartKept ==
    ASSUME IInv, NEW x \in Starts
    PROVE  /\ StartCheck(x) \/ Refuse(x) => Kept'
           /\ Claim(x) => Kept'
           /\ WorkerStart(x) => Kept'
<1> USE DEF IInv, TypeOK, Goto, RunPCs, HoldPCs, AlivePCs, Done, statusVars, slotVars, Kept,
            SlotOwner, SlotHeld, Recorded, ErrorOwn, SnapTaken, HistoryTruthful, policyVars
<1>1. StartCheck(x) \/ Refuse(x) => Kept'
  BY DEF StartCheck, Refuse
<1>2. ASSUME Claim(x) PROVE Kept'
  <2>1. \A y \in Starts : pc[y] \notin HoldPCs \union AlivePCs
    BY <1>2, SlotFree DEF Claim
  <2>2. QED BY <1>2, <2>1 DEF Claim, TakeSlot
<1>3. WorkerStart(x) => Kept'
  BY DEF WorkerStart
<1>4. QED BY <1>1, <1>2, <1>3

LEMMA WorkerKept ==
    ASSUME IInv, NEW x \in Starts
    PROVE  /\ Reset(x) => Kept'
           /\ Snapshot(x) \/ SaveState(x) \/ Patch(x) => Kept'
           /\ Segment(x) => Kept'
           /\ RunEnd(x) => Kept'
           /\ Record(x) => Kept'
           /\ Release(x) => Kept'
           /\ ClearEncoder(x) \/ ThreadEnd(x) => Kept'
<1> USE DEF IInv, TypeOK, Goto, RunPCs, HoldPCs, AlivePCs, Done, statusVars, slotVars, runVars,
            Kept, SlotOwner, SlotHeld, Recorded, ErrorOwn, SnapTaken, HistoryTruthful, policyVars
<1>1. Reset(x) => Kept'
  BY ActorAssumption DEF Reset
<1>2. Snapshot(x) \/ SaveState(x) \/ Patch(x) => Kept'
  BY ActorAssumption DEF Snapshot, SaveState, Patch
<1>3. Segment(x) => Kept'
  BY DEF Segment
<1>4. RunEnd(x) => Kept'
  BY DEF RunEnd
<1>5. Record(x) => Kept'
  BY DEF Record
<1>6. Release(x) => Kept'
  BY DEF Release
<1>7. ClearEncoder(x) \/ ThreadEnd(x) => Kept'
  BY DEF ClearEncoder, ThreadEnd
<1>8. QED BY <1>1, <1>2, <1>3, <1>4, <1>5, <1>6, <1>7

LEMMA OtherKept ==
    ASSUME IInv
    PROVE  /\ \A y \in Stops : StopCheck(y) \/ StopSet(y) \/ StopAbort(y) => Kept'
           /\ AutoOpen \/ AutoSegment \/ AutoClose => Kept'
           /\ \A z \in Setters : SetPolicy(z) \/ PolicySnapshot(z) \/ PolicySave(z) => Kept'
<1> USE DEF IInv, Kept, SlotOwner, SlotHeld, Recorded, ErrorOwn, SnapTaken, HistoryTruthful,
            statusVars, slotVars, runVars, policyVars
<1>1. ASSUME NEW y \in Stops, StopCheck(y) \/ StopSet(y) \/ StopAbort(y) PROVE Kept'
  BY <1>1 DEF StopCheck, StopSet, StopAbort
<1>2. AutoOpen \/ AutoSegment \/ AutoClose => Kept'
  BY DEF AutoOpen, AutoSegment, AutoClose
<1>3. ASSUME NEW z \in Setters, SetPolicy(z) \/ PolicySnapshot(z) \/ PolicySave(z) PROVE Kept'
  BY <1>3, ActorAssumption DEF TypeOK, Policies, SetPolicy, PolicySnapshot, PolicySave
<1>4. QED BY <1>1, <1>2, <1>3

-----------------------------------------------------------------------------
(* The theorems *)

LEMMA InitIInv == Init => IInv
<1> SUFFICES ASSUME Init PROVE IInv
  OBVIOUS
<1>1. TypeOK
  BY DEF Init, TypeOK, Policies, RunPCs
<1>2. SlotOwner /\ SlotHeld /\ Recorded
  BY DEF Init, HoldPCs, AlivePCs, Done, SlotOwner, SlotHeld, Recorded
<1>3. ErrorOwn /\ SnapTaken /\ HistoryTruthful
  BY DEF Init, ErrorOwn, SnapTaken, HistoryTruthful
<1>4. QED BY <1>1, <1>2, <1>3 DEF IInv

LEMMA NextIInv == IInv /\ [Next]_vars => IInv'
<1> SUFFICES ASSUME IInv, [Next]_vars PROVE IInv'
  OBVIOUS
<1>1. ASSUME NEW x \in Starts, StartCheck(x) \/ Claim(x) \/ Refuse(x) \/ RunStep(x) PROVE IInv'
  BY <1>1, StartType, WorkerType, StartKept, WorkerKept DEF IInv, Kept, RunStep
<1>2. ASSUME NEW y \in Stops, StopCheck(y) \/ StopStep(y) PROVE IInv'
  BY <1>2, OtherType, OtherKept DEF IInv, Kept, StopStep
<1>3. CASE AutoOpen \/ AutoSegment \/ AutoClose
  BY <1>3, OtherType, OtherKept DEF IInv, Kept
<1>4. ASSUME NEW z \in Setters, SetPolicy(z) \/ PolicySnapshot(z) \/ PolicySave(z) PROVE IInv'
  BY <1>4, OtherType, OtherKept DEF IInv, Kept
<1>5. CASE UNCHANGED vars
  BY <1>5 DEF IInv, TypeOK, SlotOwner, SlotHeld, Recorded, ErrorOwn, SnapTaken, HistoryTruthful, vars,
     statusVars, slotVars, runVars, stopVars, policyVars
<1>6. QED BY <1>1, <1>2, <1>3, <1>4, <1>5 DEF Next

\* The job slot, the error field and the history agree in every reachable state.
THEOREM Invariance == Spec => []IInv
<1>1. QED BY InitIInv, NextIInv, PTL DEF Spec

\* Every variable keeps its type (TypeOK).
THEOREM TypeCorrect == Spec => []TypeOK
<1>1. IInv => TypeOK
  BY DEF IInv
<1>2. QED BY <1>1, Invariance, PTL

\* However start requests overlap, one run at a time is under way (api_start's
\* re-check under the lock).
THEOREM OneRunAtATime == Spec => []OneRun
<1>1. IInv => OneRun
  BY DEF IInv, SlotOwner, OneRun
<1>2. QED BY <1>1, Invariance, PTL

\* A status that reports that nothing runs is never ahead of the record of the job.
THEOREM HistoryBeforeRelease == Spec => []RecordedWhenStopped
<1>1. IInv => RecordedWhenStopped
  BY DEF IInv, SlotHeld, Recorded, Done, RecordedWhenStopped, Alive, HoldPCs, AlivePCs
<1>2. QED BY <1>1, Invariance, PTL

\* The entry of a run in the job history is about that run, and says that it failed when
\* it raised an exception that has a text.
THEOREM HistoryIsOwn == Spec => []HistoryTruthful
<1>1. IInv => HistoryTruthful
  BY DEF IInv
<1>2. QED BY <1>1, Invariance, PTL

\* A run whose stop event was set first is not recorded as an error.
THEOREM StopBeatsError == Spec => StopWins
<1> DEFINE Wins == \A x \in Starts : history[x] = "none" /\ x \in stopped => history'[x] # "error"
<1>1. IInv /\ [Next]_vars => [Wins]_vars
  <2> SUFFICES ASSUME IInv, [Next]_vars, NEW x \in Starts, history[x] = "none", x \in stopped
               PROVE  history'[x] # "error"
    OBVIOUS
  <2>1. CASE UNCHANGED history
    BY <2>1
  <2>2. ASSUME NEW w \in Starts, Record(w) PROVE history'[x] # "error"
    BY <2>2 DEF Record, IInv, TypeOK
  <2>3. UNCHANGED history \/ \E w \in Starts : Record(w)
    BY DEF Next, RunStep, StopStep, StartCheck, Claim, TakeSlot, Refuse, WorkerStart, Reset,
       Snapshot, SaveState, Patch, Segment, RunEnd, Release, ClearEncoder, ThreadEnd,
       StopCheck, StopSet, StopAbort, AutoOpen, AutoSegment, AutoClose, SetPolicy,
       PolicySnapshot, PolicySave, vars, runVars
  <2>4. QED BY <2>1, <2>2, <2>3
<1>2. QED BY <1>1, Invariance, PTL DEF Spec, StopWins
=============================================================================
