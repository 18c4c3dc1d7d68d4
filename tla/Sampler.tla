------------------------------ MODULE Sampler ------------------------------
(***************************************************************************)
(* The CPU sampler (gui/services/cpu_sampler.py): a thread per run of the  *)
(* pipeline, told to stop by one event that all of them share and that the *)
(* next start clears.  The thread of a run is waited for four seconds: a   *)
(* sample takes one and its pause ends with the event, so that only the    *)
(* writing of the results may outlast the wait.                            *)
(*                                                                         *)
(* The runs are those of the dashboard (pipeline_runner.py) and of the     *)
(* demo, one per mode (demo_runner.py); a demo that fails while a mode     *)
(* runs stops no sampler.                                                  *)
(***************************************************************************)
EXTENDS Naturals, FiniteSets, FiniteSetsExt

CONSTANTS
    Runs, ModeOf,   \* runs, and the mode each is in
    Overlap,        \* whether a demo may run next to the pipeline
    MaxSamples      \* bound: samples per thread

VARIABLES
    stop,       \* _cpu_sampler_stop
    thread,     \* _cpu_sampler_thread: the run it was started for, or none
    run,        \* where each run is: waiting, going, stopping, over, failed
    at,         \* where its thread is: none, loop, sample, pause, fold, persist, stats, ended
    taken,      \* the samples its thread holds: for each, the runs that were going
    avgs, disk, \* samples counted per mode, in memory and in mode_cpu_avgs.json
    snapshot,   \* what a thread is about to persist
    stats       \* cpu_stats.json of each run

vars == <<stop, thread, run, at, taken, avgs, disk, snapshot, stats>>

Modes == {ModeOf[r] : r \in Runs}
Zero == [m \in Modes |-> 0]
Step(r, from, to) == at[r] = from /\ at' = [at EXCEPT ![r] = to]
InLoop == {"loop", "sample", "pause"}

-----------------------------------------------------------------------------
\* _start_cpu_sampler.
StartSampler(r) ==
    /\ run[r] = "waiting" /\ (Overlap \/ \A q \in Runs : run[q] \in {"waiting", "over", "failed"})
    /\ run' = [run EXCEPT ![r] = "going"] /\ stop' = FALSE /\ thread' = {r}
    /\ at' = [at EXCEPT ![r] = "loop"]
    /\ UNCHANGED <<taken, avgs, disk, snapshot, stats>>

\* _stop_cpu_sampler, and its wait for the thread started last: for its end, or until
\* it is past the loop.
SetStop(r) ==
    /\ run[r] = "going" /\ run' = [run EXCEPT ![r] = "stopping"] /\ stop' = TRUE
    /\ UNCHANGED <<thread, at, taken, avgs, disk, snapshot, stats>>
JoinNothing(r) ==
    /\ run[r] = "stopping" /\ run' = [run EXCEPT ![r] = "over"]
    /\ UNCHANGED <<stop, thread, at, taken, avgs, disk, snapshot, stats>>
Join(r) ==
    /\ run[r] = "stopping" /\ (\A t \in thread : at[t] \notin InLoop)
    /\ run' = [run EXCEPT ![r] = "over"]
    /\ UNCHANGED <<stop, thread, at, taken, avgs, disk, snapshot, stats>>

\* A demo that fails while a mode runs.
RunFails(r) ==
    /\ run[r] = "going" /\ run' = [run EXCEPT ![r] = "failed"]
    /\ UNCHANGED <<stop, thread, at, taken, avgs, disk, snapshot, stats>>

\* _cpu_sampler_loop: the event is tested before each sample, and cuts the pause after
\* it short; a reading that fails is left out.
TestStop(r) ==
    /\ at[r] = "loop" /\ (Cardinality(taken[r]) < MaxSamples \/ stop)
    /\ at' = [at EXCEPT ![r] = IF ~stop THEN "sample" ELSE IF taken[r] = {} THEN "ended" ELSE "fold"]
    /\ UNCHANGED <<stop, thread, run, taken, avgs, disk, snapshot, stats>>
Sample(r) ==
    /\ Step(r, "sample", "pause")
    /\ \/ taken' = [taken EXCEPT ![r] =
              @ \union {[n |-> Cardinality(@) + 1, during |-> {q \in Runs : run[q] \in {"going", "stopping"}}]}]
       \/ UNCHANGED taken
    /\ UNCHANGED <<stop, thread, run, avgs, disk, snapshot, stats>>
Pause(r) ==
    /\ Step(r, "pause", "loop")
    /\ UNCHANGED <<stop, thread, run, taken, avgs, disk, snapshot, stats>>

\* The results: the mode's average under the lock, the file of all modes, the run's own.
Fold(r) ==
    /\ Step(r, "fold", "persist")
    /\ avgs' = [avgs EXCEPT ![ModeOf[r]] = @ + Cardinality(taken[r])]
    /\ snapshot' = [snapshot EXCEPT ![r] = avgs']
    /\ UNCHANGED <<stop, thread, run, taken, disk, stats>>
Persist(r) ==
    /\ Step(r, "persist", "stats") /\ disk' \in {disk, snapshot[r]}
    /\ UNCHANGED <<stop, thread, run, taken, avgs, snapshot, stats>>
WriteStats(r) ==
    /\ Step(r, "stats", "ended") /\ stats' \in {stats, [stats EXCEPT ![r] = taken[r]]}
    /\ UNCHANGED <<stop, thread, run, taken, avgs, disk, snapshot>>

Init ==
    /\ stop = FALSE /\ thread = {} /\ run = [r \in Runs |-> "waiting"] /\ at = [r \in Runs |-> "none"]
    /\ taken = [r \in Runs |-> {}] /\ avgs = Zero /\ disk = Zero
    /\ snapshot = [r \in Runs |-> Zero] /\ stats = [r \in Runs |-> {}]

Next == \E r \in Runs :
    \/ StartSampler(r) \/ SetStop(r) \/ Join(r) \/ RunFails(r)
    \/ TestStop(r) \/ Sample(r) \/ Pause(r) \/ Fold(r) \/ Persist(r) \/ WriteStats(r)
Spec == Init /\ [][Next]_vars
-----------------------------------------------------------------------------
\* What a run's file and its mode's average are made of was sampled while that run went
\* on (_start_cpu_sampler: "the metrics tab can show CPU% for THIS clip rather than a
\* global rolling average"), though the event a sampler is stopped by is cleared for the
\* next one, and another run may have failed without.  Runs do not overlap.
OwnSamples == \A r \in Runs : run[r] # "failed" => \A s \in taken[r] : s.during = {r}

\* The average of a mode counts every sample of its runs, and each once.
AveragesCount ==
    \A m \in Modes :
        avgs[m] = MapThenSumSet(LAMBDA r : Cardinality(taken[r]),
                                {r \in Runs : ModeOf[r] = m /\ at[r] \in {"persist", "stats", "ended"}})
=============================================================================
