------------------------------ MODULE MCKept --------------------------------
(***************************************************************************)
(* The parts of MCParts whose promises PartProofs proves, each with        *)
(* variables of its own.  A behaviour runs at most one of them.            *)
(*   vault:    one segment, two requests, one key, one fault               *)
(*   files:    two saves and a load of every store, with two faults        *)
(*   setup:    three settings on machines with and without cloud folders   *)
(*   config:   four starts, exports and imports                            *)
(*   usage:    two encodes while the user answers twice                    *)
(*   rtsp:     requests one at a time, four processes that may exit        *)
(*   sampler:  two runs in the same mode, of two samples each              *)
(*   enhancer: every choice of model, scale, device and machine, 3 frames  *)
(***************************************************************************)
EXTENDS Integers, Sequences, TLC

CONSTANTS
    Segs, Requests, MaxKeys, MaxRows, MaxFaults,                \* of Vault
    Entries, Writers, Loads, Stores, MaxMishaps,                     \* of StateFiles
    Homes, Custom, Policies, MaxSlips, MaxChanges,              \* of Setup
    RunSettings, HandWritten, Lo, Hi, CrfMax, KnownModes, KnownPresets, MaxStarts,  \* of RunConfig
    Encodes, Details, MaxAnswers,                               \* of Usage
    Calls, CallsOverlap, MaxSpawned,                            \* of Rtsp
    SampledRuns, ModeOf, RunsOverlap, MaxSamples,                   \* of Sampler
    Models, Ships, Rrdb, Scales, FramesMax,                     \* of Enhancer
    Nil                                        \* no value, and the value of what rests

\* The part that runs, and the state of each.
VARIABLES
    which,
    plain, enc, copy, keyFile, keys, rows, job, failures, purged, stale, faults,
    store, file, pc, op, cfg, lock, acked, got, mishaps,
    there, config, saved, writing, chosen, slips, changes,
    last, from, running, exported, told, starts,
    disabled, url, consent, answers, saving, recording, wished, detail, local, sent,
    binary, loader, downloading, progress, servers, pushers, server, up, exited, pusher, pushing, spawned,
    doing, saw,
    stop, thread, run, at, taken, avgs, disk, snapshot, stats,
    wanted, machine, loading, model, using, active, opened, written, background, clean, count

V == INSTANCE Vault
I == INSTANCE StateFiles WITH
        Keys <- Entries, Saves <- Writers, None <- Nil, MaxFaults <- MaxMishaps, faults <- mishaps
S == INSTANCE Setup WITH
        MaxFaults <- MaxSlips, MaxRequests <- MaxChanges,
        file <- saved, faults <- slips, requests <- changes
K == INSTANCE RunConfig WITH
        Runs <- RunSettings, MaxRequests <- MaxStarts, files <- exported, requests <- starts
G == INSTANCE Usage WITH pc <- recording
R == INSTANCE Rtsp WITH Requests <- Calls, Overlap <- CallsOverlap
C == INSTANCE Sampler WITH Runs <- SampledRuns, Overlap <- RunsOverlap
H == INSTANCE Enhancer

vaultVars    == <<plain, enc, copy, keyFile, keys, rows, job, failures, purged, stale, faults>>
storeVars    == <<store, file, pc, op, cfg, lock, acked, got, mishaps>>
setupVars    == <<there, config, saved, writing, chosen, slips, changes>>
configVars   == <<last, from, running, exported, told, starts>>
usageVars    == <<disabled, url, consent, answers, saving, recording, wished, detail, local, sent>>
rtspVars     == <<binary, loader, downloading, progress, servers, pushers, server, up, exited, pusher,
                  pushing, spawned, doing, saw>>
samplerVars  == <<stop, thread, run, at, taken, avgs, disk, snapshot, stats>>
enhancerVars == <<wanted, machine, loading, model, using, active, opened, written, background, clean, count>>
keptVars     == <<which, vaultVars, storeVars, setupVars, configVars, usageVars, rtspVars, samplerVars, enhancerVars>>

Kept == {"vault", "files", "setup", "config", "usage", "rtsp", "sampler", "enhancer"}

VaultRests ==
    /\ plain = Nil /\ enc = Nil /\ copy = Nil /\ keyFile = Nil /\ keys = Nil /\ rows = Nil /\ job = Nil
    /\ failures = Nil /\ purged = Nil /\ stale = Nil /\ faults = Nil
StoresRest ==
    /\ store = Nil /\ file = Nil /\ pc = Nil /\ op = Nil /\ cfg = Nil /\ lock = Nil /\ acked = Nil
    /\ got = Nil /\ mishaps = Nil
SetupRests ==
    /\ there = Nil /\ config = Nil /\ saved = Nil /\ writing = Nil /\ chosen = Nil /\ slips = Nil /\ changes = Nil
ConfigRests ==
    /\ last = Nil /\ from = Nil /\ running = Nil /\ exported = Nil /\ told = Nil /\ starts = Nil
UsageRests ==
    /\ disabled = Nil /\ url = Nil /\ consent = Nil /\ answers = Nil /\ saving = Nil /\ recording = Nil /\ wished = Nil
    /\ detail = Nil /\ local = Nil /\ sent = Nil
RtspRests ==
    /\ binary = Nil /\ loader = Nil /\ downloading = Nil /\ progress = Nil /\ servers = Nil /\ pushers = Nil /\ server = Nil
    /\ up = Nil /\ exited = Nil /\ pusher = Nil /\ pushing = Nil /\ spawned = Nil /\ doing = Nil /\ saw = Nil
SamplerRests ==
    /\ stop = Nil /\ thread = Nil /\ run = Nil /\ at = Nil /\ taken = Nil /\ avgs = Nil /\ disk = Nil
    /\ snapshot = Nil /\ stats = Nil
EnhancerRests ==
    /\ wanted = Nil /\ machine = Nil /\ loading = Nil /\ model = Nil /\ using = Nil /\ active = Nil /\ opened = Nil
    /\ written = Nil /\ background = Nil /\ clean = Nil /\ count = Nil

KeptInit ==
    /\ IF which = "vault" THEN V!Init ELSE VaultRests
    /\ IF which = "files" THEN I!Init ELSE StoresRest
    /\ IF which = "setup" THEN S!Init ELSE SetupRests
    /\ IF which = "config" THEN K!Init ELSE ConfigRests
    /\ IF which = "usage" THEN G!Init ELSE UsageRests
    /\ IF which = "rtsp" THEN R!Init ELSE RtspRests
    /\ IF which = "sampler" THEN C!Init ELSE SamplerRests
    /\ IF which = "enhancer" THEN H!Init ELSE EnhancerRests

\* One part makes a step, the others rest.
RunVault ==
    /\ which = "vault" /\ V!Next
    /\ UNCHANGED <<storeVars, setupVars, configVars, usageVars, rtspVars, samplerVars, enhancerVars>>
RunFiles ==
    /\ which = "files" /\ I!Next
    /\ UNCHANGED <<vaultVars, setupVars, configVars, usageVars, rtspVars, samplerVars, enhancerVars>>
RunSetup ==
    /\ which = "setup" /\ S!Next
    /\ UNCHANGED <<vaultVars, storeVars, configVars, usageVars, rtspVars, samplerVars, enhancerVars>>
RunConfig ==
    /\ which = "config" /\ K!Next
    /\ UNCHANGED <<vaultVars, storeVars, setupVars, usageVars, rtspVars, samplerVars, enhancerVars>>
RunUsage ==
    /\ which = "usage" /\ G!Next
    /\ UNCHANGED <<vaultVars, storeVars, setupVars, configVars, rtspVars, samplerVars, enhancerVars>>
RunRtsp ==
    /\ which = "rtsp" /\ R!Next
    /\ UNCHANGED <<vaultVars, storeVars, setupVars, configVars, usageVars, samplerVars, enhancerVars>>
RunSampler ==
    /\ which = "sampler" /\ C!Next
    /\ UNCHANGED <<vaultVars, storeVars, setupVars, configVars, usageVars, rtspVars, enhancerVars>>
RunEnhancer ==
    /\ which = "enhancer" /\ H!Next
    /\ UNCHANGED <<vaultVars, storeVars, setupVars, configVars, usageVars, rtspVars, samplerVars>>
KeptNext ==
    /\ UNCHANGED which
    /\ \/ RunVault \/ RunFiles \/ RunSetup \/ RunConfig
       \/ RunUsage \/ RunRtsp \/ RunSampler \/ RunEnhancer

KeptSpec == KeptInit /\ [][KeptNext]_keptVars

-----------------------------------------------------------------------------
\* A segment's footage is lost to no failure, clash or crash, nothing is shown as decrypted
\* that was not authenticated, and what the counter of failures and the index say is so.
FootageKept ==
    which = "vault" => V!TypeOK /\ V!FootageKept /\ V!DecryptedAuthentic /\ V!VaultTruthful

\* No save undoes another, no fault loses a paired device, no reader of the webhook's
\* settings or of the tokens meets a half-written file, and no save keeps its lock.
SavesKept == which = "files" => I!TypeOK /\ I!SavesKept /\ I!DevicesKept /\ I!LoadsWhole /\ I!LockGivenBack

\* What the user chose is kept to: the destination is the one chosen, before and after a
\* restart or a reset that deleted its file, no encode is counted without the user's yes,
\* and the settings of a run travel through files without its password or key and without a
\* further change.
ChoicesKept ==
    /\ which = "setup" => S!DefaultIsChosen /\ S!ChoiceLasts
    /\ which = "config" => K!NoKeyTravels /\ K!SettingsTravel
    /\ which = "usage" => G!UsageConsented

\* What was started is within reach of what stops it, and what a run reports is its own:
\* no process of the RTSP server is orphaned, no CPU sample goes to another run.
HelpersOwned ==
    /\ which = "rtsp" => R!NoOrphans /\ R!DoneIsReady
    /\ which = "sampler" => C!OwnSamples

\* What the enhancer says of itself is so, every frame that is not composed on a background
\* of another size fits the pipe it is written to, and its boxes fit it unless the model
\* runs at another scale than the one asked for.
EnhancedAsSaid == which = "enhancer" => H!BackendTruthful /\ H!PipeFits /\ H!BoxesFit
=============================================================================
