# TLA+ models of SVCS, the surveillance video compression system

SVCS records cameras, keeps only the frames that matter, encodes them with FFmpeg
and stores the segments; a Flask dashboard controls it, and a phone app compresses
clips of its own and uploads clips to it. This directory holds TLA+ models of the
parts of it that keep state, the TLC configurations that check them on small
instances, and theorems about them checked by TLAPS.

Paths below are relative to the repository: `src/` is its Python source, `mobile/`
the Android app. `PROJECT.json` "map" gives the source lines of every definition.

## 1. The system

| component | state | operations | talks to |
|---|---|---|---|
| Auto-compress service (`gui/services/autocompress_runner.py`, `utils/compressed_index.py`) | clips, `.ingested` sentinels, `compressed/`, the index; `_ac_thread`, `_ac_stop` | start, stop, `scan_now`, verify, delete the original | encoder, retention, manifest, job history |
| Watch folder (`utils/watchfolder.py`) | files that grow, `.processing` and `.ingested` markers | stability poll, scan, the daemon's loop | pipeline |
| Pipeline loop and frame source (`pipeline/pipeline.py`, `pipeline/modes.py`, `utils/frame_source.py`) | counters, streaks, the clean background, a reader thread and its queue | read, decide, cut, write, stop | detector, encoder, enhancer |
| Segment encoder (`compression/roi_encoder.py`, `compression/layer_encoder.py`) | FFmpeg process, open segment, activity grid, files, rows | begin, write, finish, abort a segment; mux the sound | in-flight registry, database, encryption |
| In-flight registry and retention (`utils/active_outputs.py`, `gui/services/retention.py`) | a process-wide set of paths; the folder | `mark_active`, `mark_done`, `purge_once` | auto-compress, `/api/retention/purge_now` |
| Pipeline control (`gui/routes/pipeline_bp.py`, `services/pipeline_runner.py`) | `_status`, `_pipeline_thread`, `_stop_event`, `_active_encoder`, the patched encoder class | `/api/start`, `/api/stop`, the worker | pipeline, job history, saved state |
| Persisted GUI state, setup, import and export (`gui_state_persist.py`, `setup_bp.py`, `cloud_detection.py`, `presets_bp.py`) | `_status["config"]`, `last_config`, `gui_state.json` | choose, save, load, reset, import, export | every run start |
| HLS live stream (`routes/hls_bp.py`, `services/hls_runner.py`) | `_hls_state`, thread, event, process | start, stop, fetch, annotate, watch | FFmpeg |
| Chunked upload (`routes/ingest_bp.py`, `mobile/.../upload/*.kt`) | server: `<id>.json`, `<id>.part`, locks; phone: WorkManager's record, staged copy, checkpoint | begin, status, chunk, finish, sweep; engine and worker | HTTP |
| Job history, event log (`services/job_history.py`, `utils/event_log.py`) | JSON files | append | notifications |
| Notifications (`utils/event_webhook.py`, `utils/push_notify.py`) | two bounded queues, two workers, in-flight counts, the process's resolver | publish, post, test, flush | HTTP receivers |
| JSON stores (`device_tokens.py`, webhook, push, zones, VMAF cache) | a file each, some with a lock | read, change and write | the routes |
| Update managers (`update_manager.py`, `UpdateManager.kt`) | phase, `.part` and installer files | check, download, verify, install | GitHub, installer |
| Encryption (`utils/encryption.py`, `encryption_bp.py`), index rows (`files_bp.py`) | recordings, `.enc`, copies, key, rows | encrypt, decrypt, generate, hide, clean up | encoder, retention |
| Integrity manifest (`utils/integrity.py`) | a hash chain in a file | append, verify | auto-compress |
| Phone compression (`mobile/.../compress/*.kt`) | WorkManager's record, cache file, gallery rows, history | calibrate, analyse, encode, check, show | gallery |
| Demo (`demo_bp.py`, `demo_runner.py`, `demo/*.py`), CPU sampler (`cpu_sampler.py`) | state, folders, manifests, rows; shared event and handle | run, render, list; start, stop, average | pipeline, dashboard |
| Several cameras (`utils/multi_source.py`) | a thread and a buffer per camera | read, take, release | cameras |
| RTSP server (`utils/rtsp_server.py`, `rtsp_bp.py`) | binary, MediaMTX and FFmpeg processes | download, start, push, stop, status | external processes |
| Object filter, events, plates (`detection/object_filter.py`, `utils/track_events.py`, `enhancement/plate_reader.py`) | grid of suppressed cells; tracks and debounce; reads and votes | step per frame | pipeline |
| Quality search, content detection (`compression/vmaf_target.py`, `pipeline/content_detect.py`) | window, cache; fractions | search, advise | pipeline, dashboard |
| Enhancer (`enhancement/enhancer.py`) | the model in use and its scale | load, retry, enhance | pipeline, encoder |
| Library (`library_bp.py`) | cached listing, remembered folder | list, open | clients |
| Usage statistics (`utils/usage_stats.py`) | consent, event file | answer, record | pipeline worker |

### What is hard

* Two passes over one folder. The daemon and any number of `scan_now` requests work on
  the same clips and nothing keeps them apart; either may delete originals.
* Retention lists a folder and deletes from that list while encoders write there.
* A worker thread shares `_status` with requests that check and then act; the encoder
  class is patched for the whole process while a run lasts.
* The live stream's start checks and claims the slot in two critical sections and binds
  its handles without the lock; the watchdog polls what a new start rewrites.
* The network loses and delays requests whose handler still runs; either side of an
  upload may die between any two steps; WorkManager repeats a run.
* The loop of a run cuts segments, warms up and learns a background with counters that
  depend on each other; its reader may block on a full queue when it is stopped.
* Whole files are read, changed and written by several threads, some without a lock, some
  without a rename; a crash may come in the middle.
* A recording is deleted once its encrypted form is in place; so is what is downloaded for
  installation once it fails its check; so is a temporary file of the phone. Each of these deletes
  may fail, and the code goes on.
* `run_pipeline` returns in the same way at the end of a file, after a failed read and after a
  stall: who deletes or hides a clip after it cannot tell them apart.
* Many small protocols recover from what fails (a GPU, an OCR engine, a VMAF sample, a
  mux, a codec) and must afterwards say truthfully what they did.

## 2. The modules

| module | models | run |
|---|---|---|
| `AutoCompress`, `AutoCompressProofs` | auto-compress, index, sentinels, retention of outputs, crashes | `AutoCompress`, `AutoCompressPrefix` |
| `SegmentStore`, `SegmentStoreProofs` | encoder and `run_pipeline` control flow, registry, `purge_once`, composed over one folder | `SegmentStore` |
| `PipelineControl`, `PipelineControlProofs` | start, stop, worker, class patch, saved policy | `PipelineControl` |
| `HlsStream` | live stream requests, annotator, watchdog | `Background` |
| `Notify` | history and event log to push and webhook: queues, workers, address pinning | `Background` |
| `BackgroundProofs` | proofs of these two | |
| `Upload`, `UploadPromise`, `UploadProofs` | upload over the network with crashes on both sides; refines the abstract promise | `Upload` |
| `Frames`, `FramesProofs` | the two decoders, the frame loop, modes, cuts, clean background | `Frames` |
| `Streams`, `Demo`, `Update`, `Watchfolder` | cameras read together; demos; self-update; watched folder | `Services`, `DemoRows` |
| `ObjectFilter`, `TrackEvents`, `Plates`, `VmafSearch`, `ContentDetect`, `Enhancer`, `Encoder`, `Layers`, `Vault`, `PhoneCompress`, `Rtsp`, `Sampler`, `Library`, `Manifest`, `Setup`, `RunConfig`, `Usage`, `StateFiles` | one part each, see below | `Parts`, `FilteredCrossings`, `UpscaledBackground` |
| `MCKept`, `PartProofs` | eight of these parts together, and the proofs about them | `Parts` |
| `MCClips`, `ServiceProofs` | six more of them together, and the proofs about these and the four services | `Parts`, `Services` |
| `MC...` | the composition of parts into a run, and definitions that the cfgs give to CONSTANTS | |

Parts that share no state share a run: `which` is chosen once and says which part a
behaviour is about. `MCBackground` has `hls`, `batch` and `test` (the last two are one
instance of `Notify`, with a crash and with a test request), `MCServices` has four services,
`MCParts` eighteen parts. Eight of them (`Vault`, `StateFiles`, `Setup`, `RunConfig`, `Usage`,
`Rtsp`, `Sampler`, `Enhancer`) are composed in `MCKept` and six (`ObjectFilter`, `VmafSearch`,
`Encoder`, `Layers`, `Library`, `PhoneCompress`) in `MCClips`, where `making` chooses, each with
variables and constants of its own; `MCParts` extends both by the other four (`TrackEvents`,
`Plates`, `ContentDetect`, `Manifest`), whose state is in the variables `v1` to `v10`, in the order
of each module's VARIABLES. Each behaviour of `MCParts` is one of `MCKept` and one of `MCClips`
(`Init` has `KeptInit` and `ClipsInit` as conjuncts, and a step is `KeptNext` or leaves `keptVars`
alone, and the same of `ClipsNext` and `clipVars`): that is where the theorems of `PartProofs` and
`ServiceProofs` apply. An invariant of such a run says
`which = "x" =>` (or `making = "x" =>`) what part x promises. Nothing is lost by this: interleaving parts that do not
interact adds no behaviour of any of them.

Next to some definitions stands a variant with one plausible mistake that no action
uses (`CollectInterrupted`, `FinishEarly`, `LockNothing`, ...). Put in place of the
definition it must break a named property of a run ("mutants" in `PROJECT.json`), which
shows that the property depends on that line of the code.

### AutoCompress

A pass `p` has a program counter that follows `scan_once` and `_process_one`:
`ScanStart` takes the candidates; `AlreadyDone` is the index shortcut; `Begin`,
`OpenOutput`, `EncodeEnd`, `EncodeStopped`, `EncodeFail` are the run of the pipeline
over one clip (`EncodeEnd` is a return that nobody asked for: at the end of the clip, or, for
the pairs in `ShortReads`, at a read that failed or stalled, which leaves a shorter output);
`TakeNew` picks the newest output that was not there before (by name prefix, as the code does); `VerifyOk` and `VerifyFail` are ffprobe; `Record` is the
sentinel and the index; `DeleteOriginal` and `KeepOriginal` the end. Daemons also have
`StartCheck`, `StartThread`, `StopDaemon`, `DaemonExit` and `Retain`; `PurgeNow` is a
retention request; `Crash` ends every pass and keeps the disk. An output is `full`
(all of the clip), `cut` (decodable but short), `broken` or `purged`: the code can
tell the last two from the others and can not tell `cut` from `full`. `early` remembers the
passes whose run had its reads end early.

Kept simple: a clip gives at most one output per pass (in the code, one per hour of
footage; only the newest is verified), two passes never choose the same output name
within one second, and the stability poll is trusted (`Watchfolder` is about it). The
batch display with its owner token is left out: no property reads it.

### SegmentStore

A path is a run and the second its segment was begun in. `Popen`, `MarkActive`,
`WriteFrame`, `Finish`, `FinishFail`, `PostDone`, `PostFail` are the encoder's
methods at the points where other threads see a difference; `FinalFlush`, `FinalAbort`
and `FinalNothing` are the three ways through the `finally` block. A purger lists once
(`ListFiles`), deletes over-age files, then the oldest until the budget is met, and asks
the registry again before each `unlink` (`Delete`).

Kept simple: files have one size; no two segments of a run begin in one second; no clock
second passes between FFmpeg's start and `mark_active` (in the code the freshness
window of minutes covers that gap); a `.mp4.enc` file being written is part of the
segment in `post`, although its own name is protected in the code by freshness only;
`begin_segment` failing before it starts FFmpeg leaves no state and is left out.

### PipelineControl

`StartCheck`, `TakeSlot`/`Claim`, `Refuse`, `WorkerStart` are `/api/start`; `Reset`,
`Snapshot`, `SaveState`, `Patch`, `Segment`, `RunEnd`, `Record`, `Release`,
`ClearEncoder`, `ThreadEnd` the worker thread; `StopCheck`, `StopSet`, `StopAbort`
`/api/stop`, which lets go of the lock after the first. `AutoOpen`, `AutoSegment` and
`AutoClose` are an encoder of auto-compress that meets the patched class. `SetPolicy`,
`PolicySnapshot` and `PolicySave` are `set_retention_config`. What a run does inside
`run_pipeline` is the subject of `SegmentStore` and `Frames`: here it ends in one of the
ways the worker tells apart, or in an exception without text, which the worker takes for none
(`mute`). `Record` may write nothing, since `record_job` swallows its errors. Starting a thread is
assumed not to raise. `MCPipelineControl` checks behaviours in which either the encoder of
auto-compress or the policy change takes part; the proofs cover both at once.

### HlsStream

A session has a request counter and a thread counter, because the request starts
whatever `_hls_thread` refers to by then. The stream's source may fail in any of the
early returns, end, or break the pipe. Opening an RTSP source has a time-out of ten
seconds in the code; a webcam or a file is assumed to open or fail. The latency watchers
and the cleaning of stale segments change nothing the control reads.

### Notify

A reporter records its entry and then publishes to the push topic and the webhook
(`Record`, `Report`); a full queue drops (`Drop`). A worker takes a message (`Get`) and
posts it: it validates the address, waits for `_dns_pin_lock`, saves and replaces the
process's resolver, connects, and puts the saved one back, in steps of their own
(`PostStep`), because `pin_resolution` reads the resolver before it waits. A test request
posts from its own thread. The pin is kept under the name without its trailing dot: for a host
of `Dotted`, which its URL spells with one, `ConnectAnswers` does not meet it. `Crash` ends the process with its queues. `StateFiles` models
how the configuration is stored; here publishing may also be switched off.

### Upload and UploadPromise

A call is a request together with its handler, advancing from `sent` to the reply in
the steps between which the handler holds no lock. The phone waits for one call at most;
after `Timeout` the call stays with the server and is executed late. `AskDamaged`
damages one block on the way. `SweepStale` is the sweep inside `begin` for any set of
stale uploads, `OtherBegin` the sweep of somebody else's `begin`. `ServerCrash` drops
the handlers and the locks; `SystemStop`, `PhoneDies` and `UserCancel` interrupt the
phone. Making the private copy (`ServerUploads.start`) is the initial state.
Any calls overlap, a finish beside a finish or a chunk too. `UploadPromise` has four actions: the
whole file lands, success is told (only after it landed), the upload is given up, or it is excused.
`Upload` refines it with `outcome` computed from the state of the work and `excused` as `stray`: a
chunk was stored while a finish of the same upload was between its hash and its move. Only then may
something else land, and that is what the code does then (section 4).

Kept simple: one upload is followed, so two landed files that compete for a name are
not modelled; chunk size limits and malformed requests end in the same `refused`;
the handler of a phone-side stop is immediate.

### Frames

A picture is the number of the frame it shows. `ReadOpenCV` and `ReadFFmpeg` are the two
branches of `FrameSource.read`, with the frame that the probe consumed and the reader
thread (`Fill`, `Publish`, `ReaderStops`), which `Wedge` holds in a read while FFmpeg gives nothing
and which `Unwedge` lets go on, perhaps never; either source may end before its last frame; `WarmFrame`, `Decide`, `OpenSegment`, `Write`
follow one turn of the loop; `Final` is the `finally` block, `Release` and `Close` the release of
the source, whose close waits for a read that is stuck. With enhancement (`EveryN > 0`) the picture
written is the last enhanced one, of an earlier frame (`Enhance`, `EnhanceDone`, `Picture`). What
the detector finds in a frame is chosen when it is read. `Backdrop` is
the search for a clean background: a streak, a lag, a quarantine.

### Streams, Demo, Update, Watchfolder

`Streams`: a reader thread per camera keeps the newest frames of a bounded buffer
(`ReadFrame`), the caller goes round and takes the oldest (`GetFrame`, `Take`); `Hang`
blocks a reader inside the read. A stall is counted in the caller's rounds that find
nothing, not in seconds.

`Demo`: the request claims the state, the worker runs each mode, places what was kept on
the source's time line (`Missing` computes the gap, held frames and cards fill it), puts
the split screen together, writes rows and the manifest; `Fail` is the error path. The
listing of segments reads the rows.

`Update`: `Check`, the download with its `.part` file, the move, the sums, the hash and
the verdict, the installer. Desktop and phone do the steps in different orders and one
`phone` flag chooses. `Crash` and `Restart` end and begin the process. Any downloads and installs
overlap; `rivals` remembers that a download began beside another one or an installation, `left`
that a file which was to be discarded is still there.

`Watchfolder`: a writer that pauses (`Grow`), the scan, `Poll` by `Poll` until the size
has been stable, the encode and its markers, a dry run, which sets the marker alone (`MarkDry`),
`Interrupt` (Ctrl-C), failures (`MarkFails` ends the daemon, `EncodeFails` does not) and crashes;
`how` and `taken` remember what set the marker and how much it had read.

### The parts of MCParts

| module | one step is | what it answers |
|---|---|---|
| `ObjectFilter` | a frame with its boxes | may a place be masked; do a segment's classes come from its frames |
| `TrackEvents` | a frame | do events happen for objects that did it, once per debounce |
| `Plates` | a frame looked at, then the ranking | does a verdict rest on enough frames, spread over the clip |
| `VmafSearch` | a sampled measurement, or its failure | is the answer the CRF that the search narrowed down to |
| `ContentDetect` | a frame read | does the advice rest on the right frames, and is it monotone |
| `Enhancer` | a step of loading, a frame | does it say which model ran; do sizes fit |
| `Encoder` | a frame, a death of the pipe, the end of a segment with its sound | is no seen box degraded; has every row its frames |
| `Layers` | a frame of objects, the end of a segment | does the row of a segment count its objects |
| `Vault` | a file operation of an encryption or decryption | is there always a way back to the footage; is what is said of it true |
| `PhoneCompress` | a phase of `doWork`, a write of gallery or history | is a video over its limit, or half copied, ever shown |
| `Rtsp` | one access to the manager's fields | does every live process have somebody who can stop it |
| `Sampler` | one access to the event, the handle or the averages | do samples belong to their run |
| `Library` | a request's read, walk or answer | is a listing recent; can its clips be opened |
| `Manifest` | a step of an append, a change from outside, a verification | does the report name what was changed, and nothing else |
| `Setup` | a request, a write, a reset, a restart | where do the outputs go |
| `RunConfig` | a start, an import, an export | what survives a round trip |
| `Usage` | an answer, a step of a record | is anything recorded or sent without consent |
| `StateFiles` | a step of a save or a load of one of five stores | is an acknowledged save ever lost |

Each module's header says what is left of the data. Numbers keep their arithmetic where it
matters: `VmafSearch` rounds halves to even as Python does, `Encoder` scales its grid to the
picture with the same floors, `PhoneCompress` divides as Kotlin does.

`MCBackground`, `MCServices`, `MCKept`, `MCClips` and `MCParts` also hold the properties of their runs, each the
conjunction of the named properties of the parts.

## 3. The runs

On two workers every run ends within four minutes.

| run | instance | shows |
|---|---|---|
| `AutoCompress` | 2 clips, a daemon and a `scan_now`, both deleting; 2 outputs per clip, 1 crash; an index write that empties the file; one mode that keeps no frame of one clip; the daemon's reads of the other may end early | `DeleteOnlyWithCopy`, `IngestOnlyAfterRun`, `StopHonoured` |
| `AutoCompressPrefix` | the same without early ends, with one camera id a prefix of the other | **violated**: `OutputIsOwn` |
| `SegmentStore` | runs one after another in one camera, 2 purges, clock 2..4 with two older files (one locked), freshness 1, age limit 1, budget 2 files | `NeverPurgeInFlight`, `NoOverPurge`, `StopEndsRun` |
| `PipelineControl` | 2 starts, 1 stop, and auto-compress or 1 setter | `OneRun`, `RecordedWhenStopped`, `HistoryTruthful`, `StopWins`, `StopTakesEffect` |
| `Background` | `hls`: 2 starts, 1 stop, any number of fetches; a reporter of 2 messages and queues of 1, with a restart (`batch`) or beside a test request (`test`); two addresses; the webhook's host spelt with a trailing dot | `SlotNotLeaked`, `FfmpegReaped`, `SlotFreed`, `StopHonoured`; `Accounted`, `ConnectsToValidated`, `Drained` |
| `Upload` | 2 blocks, 3 requests under way, 2 runs, 1 inner retry, 3 faults | `PartIsPrefix`, `KeepsPromise` |
| `Frames` | 7 frames, both decoders, 3 modes, warm-up 1, segments of 2, queue of 1, 1 stall, every second frame enhanced | `EncodedAndCut`, `BackgroundClear`, `RunEnds` |
| `Services` | see the header of `MCServices` | `FramesInOrder`, `KeepsTime`, `InstalledVerified`, `IngestedWhole`, `ResultIsOwn`, `Settles` |
| `DemoRows` | the demos of `Services` | **violated**: `OneRow` |
| `Parts` | see the headers of `MCKept`, `MCClips` and `MCParts` | `FilterFaithful`, `ReportsEarned`, `AnswersFounded`, `EnhancedAsSaid`, `EncodingFaithful`, `FootageKept`, `PhoneKeepsItsWord`, `HelpersOwned`, `FilesTold`, `ChoicesKept`, `SavesKept` |
| `UpscaledBackground` | the enhancer of `Parts` | **violated**: `ComposedFits` |
| `FilteredCrossings` | the events of `Parts` | **violated**: `FilteredCrossingsReported` |

**Why the bounds are enough.** A conflict on a clip needs two passes and one clip; the
second clip is there for the candidates that are left when a pass is stopped and for the
prefix question; two outputs per clip let each pass write one; one crash can fall between any
two steps, and a second one starts from a disk state the first can leave. In
`SegmentStore` one tick lets a file lose its freshness while it is open and two make it
over age, so both phases reach files that are still open; with the locked file counted, the
budget keeps one file that a second purge might delete too many. Two starts contend for a
slot; a third finds it as the second did. For an upload, a late chunk beside its retry needs
two calls, and a third is the call in progress; two blocks distinguish a repeated block from
the next one; three faults combine a time-out with a crash and a stop. `MaxIds` follows from
the other bounds: a run begins one upload at most.

A queue of one overflows with two messages; two workers contend for the resolver. Seven frames
reach past the warm-up, through a full segment into the next one, with a clean streak on either
side of the cut and two enhanced pictures; a queue of one blocks its reader; one stall that may
last for ever is at any frame. Saves clash in twos, and a third reads what
the second left; one fault falls between any two steps, and stores that keep no second copy
get two. Three misses and four frames are past every debounce of `TrackEvents` because its
limits are two. A search over six CRFs narrows from both ends and is searched twice for its
cache. Detection, votes and presets depend on thresholds: the bounds put values on both sides
of each. Where a part's interesting case needs a history (the phone learns from three jobs) it
starts from one.

**Deadlock.** `AutoCompress` and `SegmentStore` are checked for it. The other instances really
stop, when every request has been served and the work has ended, and are checked without.

**Fairness.** Only threads that already run are fair: a pass, the thread of a run, the annotator,
the watchdog, the loop and its reader, a worker of a queue, a demo's thread, a download's thread,
the camera readers and their caller, the watch daemon. A request that has begun is served.
WorkManager runs queued work (its contract), a helper that was launched installs. In `Watchfolder` the writer
finishes its file, with pauses shorter than the checks. A click, a crash, a lost or damaged
message, a system stop, a hang, the return of a read that FFmpeg holds, and a fetch are never fair. `StopEndsRun` rests on the encoder's
30 second time-out and kill; `SlotFreed` on the watchdog's polling; `RunEnds` on the time-outs
of the reader's `put` and leaves out a read that FFmpeg holds for ever; `Drained` on the request time-outs of the workers; a camera that hangs
is not assumed ever to return.

### What the runs assume

These are preconditions on the use of the code that it does not enforce; what happens without
them is in section 4.

* `Unambiguous` (`AutoCompress`, its proofs): see section 5.
* `OneCamera` (`SegmentStore`'s run, the proof of `NoOverPurge`): the runs over a folder are those of
  one camera. With several, a segment of another camera may fail after a purge has listed the folder,
  with a time of change older than that of a file the purge then deletes; it waits for the next purge.
* `Overlap = FALSE` (`Demo`, `Rtsp`, `Sampler`; their proofs): requests of one kind come one
  after the other.
* `Checks > PauseMax` (`Watchfolder`, its proofs): a writer never pauses for as long as the
  daemon watches the size.
* `RunConfig.SettingsTravel` is about settings in range; `Setup` changes settings one request
  at a time.
* `Frames` is stopped by its event, not by a failing encoder (that is `SegmentStore`'s).

These cases are in the models, and the property excuses them by name, because the code does not do
what it should there; section 4 has each.

* Reads that end early: if those of the pass that deletes did, `DeleteOnlyWithCopy` claims a playable
  copy instead of a full one; if those of the pass that marks did, `IngestOnlyAfterRun` claims that it
  neither failed nor was stopped, not that it read everything.
* `IngestedWhole`: files whose reads ended early, whose encode Ctrl-C cut, or that a dry run marked.
* `HistoryTruthful`: an entry that could not be written, and an exception without text (`mute`),
  which is recorded as `completed`.
* `ConnectsToValidated`: hosts that their URL spells with a trailing dot (`Dotted`).
* `PartIsPrefix` and `KeepsPromise`: after a chunk was stored under a finish (`stray`).
* `InstalledVerified`: after a download began beside another one or an installation (`rivals`).
* `PicturesTold`: an enhanced picture of an earlier frame; `BoxesFit`: a model whose scale is not
  the one asked for; `BackendTruthful`: the scale after a torch model that could not be built.
* `RunEnds`: an FFmpeg that holds the reader for ever.
* `DecryptedAuthentic`: a copy that is torn while it is poured over a held one, or after a fault.
* `NoKeyTravels`: the address of the source, with what it contains.

## 4. Where code and documentation differ

Shown by a run:

1. `OutputIsOwn`: outputs are attributed to a clip by name prefix, so the output of
   `clip_2` can be taken for one of `clip` (`autocompress_runner.py:255`), against the
   comment at lines 249-252.
2. `FilteredCrossingsReported`: `run_pipeline` hands the event engine boxes without labels
   (`pipeline.py:772`), so with a class filter no event is raised at all
   (`track_events.py:109`: "only these labels raise events").
3. `ComposedFits`: with an upscaled output, the background learnt while a segment is open
   keeps the size of the source (`pipeline.py:900`, against lines 626-627).
4. `OneRow`: the table made for a demo's composite lacks a column that the listing selects
   (`run_demo.py:239`, `files_bp.py:213`), so the composite is not listed and the modes' own
   rows are (`run_demo.py:218-219`: "one demo run shows up as one row").

Met while modelling, and built into the models as the code has them:

*Recording and control.* `abort_segment` does not clear the in-flight mark (`roi_encoder.py:1037`
against `active_outputs.py:14-16`): the file cannot be purged until the process ends. An
auto-compress encoder built while a run has the class patched overwrites the run's count of
encryption failures (`pipeline_runner.py:91`). Starting a run replaces the configuration that
holds the retention policy, the encrypted folder and the library settings, and saves the loss
(`pipeline_runner.py:155`, `167`); after a factory reset the next save writes old settings back;
the snapshot of a save is written outside the lock it was taken under. Two start requests can
both stream (`hls_bp.py:85`, against "ONE process-wide stream slot", `hls_runner.py:345`). Every segment of a run gets the sound from the start of its source (`roi_encoder.py:1339-1347`;
`index.html:4381`: "Audio is preserved"). A file whose encode was
cut by Ctrl-C is marked as ingested (`pipeline.py:974`, `watchfolder.py:409-412`, against
`watchfolder.py:59-61`). Reads that end early are not told from the end of the file: after a stall,
a failed read or a read that raises (`frame_source.py:376-383`, `414`) `run_pipeline` returns
normally, the auto-compress pass marks the clip and, when it deletes originals, unlinks it with a
shortened copy left (`autocompress_runner.py:263`, `293-325`), and the watch folder marks it
(`watchfolder.py:412`). A dry run of the watch folder "detects files but skips encoding", yet marks
them, so that no later run encodes them (`watchfolder.py:390-394`; `test_watchfolder.py:277-280`
wants it so). `_mark_processing` is outside the `try` block: when it fails, the daemon ends
(`watchfolder.py:400`). An exception whose text is empty (`MemoryError()`, `TimeoutError()`) is
recorded as a completed run, because the text is what is tested (`pipeline_runner.py:275`,
`399-402`); and `record_job` returns None for any error, so that a run may have no entry. With
enhancement the last enhanced picture replaces the whole of every later frame with activity until
the next one is ready (`pipeline.py:866-868`, "Use cached enhanced frame if we have one"): what
moved in between is not in the video. `release` says that "closing stdout unblocks any in-flight
read" (`frame_source.py:423-430`), but the close waits for the lock that the read holds, and FFmpeg
is terminated only after it: a run whose FFmpeg hangs does not end.

*Upload and update.* A finish that overlaps a chunk can land a file that is not the
verified one (`ingest_bp.py:258`, against lines 17-19): once the `.part` has gone from under a finish
that has hashed it, by a second finish, which the phone asks for when the first takes more than 15
seconds, or by a sweep, a late chunk begins it anew, and the first finish moves what is there. A
worker stopped by the system deletes the copy its next run needs (`UploadWorker.kt:183`, against
"Terminal states only", line 200). `install_and_restart` "can never launch an unverified download"
(`update_manager.py:383-385`), but `start_download` tests the phase under its lock, asks GitHub
without it and sets the phase later (279-289), so that two downloads write the same file while one
of them is verified or installed. A file that fails its check "has been discarded", but the error of
the `unlink` is swallowed (351-354, 367-370; `UpdateManager.kt` ignores the result of `delete`): it
stays, though neither offers it.

*Notifications.* `_check_url` strips a trailing dot from the host and pins the name without it
(`push_notify.py:286`), the request asks for the name with it, and the comparison at line 393 misses
the pin: such a URL connects to whatever the second resolution answers.

*Detection and events.* A masked place is skipped before the classifier sees it, so a
person who walks into it is not detected and the mask is not reset (`object_filter.py:30-31`:
"they get detected"). The ONNX back end answers a failed inference with no class, which drops
the box, although errors are to pass (`on error pass through`). Two reads of one frame count as
two votes in a plate's verdict (`plate_reader.py:165`: "until at least two frames agree").

*Quality.* `find_crf_for_target` "returns the LARGEST CRF" that meets the target, but the ends of
the window are never probed, and its break for an already probed CRF cannot happen. The docstring
of content detection names a generic default; the code's is `continuous_cctv`.

*Settings.* A run's own settings are not normalised, so values out of range are exported and
change when they are imported; credentials and the knobs only a start knows are lost in a round
trip, and a `background_crf` of none becomes 45; an import during a run changes what export returns.
The source is exported as it is (`presets_bp.py:191`), although it "can be an RTSP URL carrying the
camera's password" (`pipeline_bp.py:110`), for which the status redacts it. A factory reset passes
over a state file that it cannot delete (`paths.py:187-194`), and the next start loads it.

*Enhancer.* `active_scale` is "the scale actually in effect", but stays 4 after a torch model that
could not be built, while bicubic runs at the scale asked for (`enhancer.py:572-577`). Boxes are
multiplied by the scale asked for, the picture grows by the one the model has
(`pipeline.py:924`, `939-941`).

*Footage and files.* The dashboard says that encrypting replaces the original and that playing
saves no decrypted copy (`index.html:3963`, `4392`, `4396`); the original stays and the copy is
saved. `encrypt_file` promises never to leave a truncated `.enc`, but its fallback
copies; so does that of `decrypt_file` (`encryption.py:111-114`, called at 306), which may leave a
torn clip in `Decrypted/`, where an old one may stay as well (`encryption_bp.py:211-216`); a crash leaves a `.part`; generating a key overwrites `camera.key`; encrypting twice
inserts two rows. The manifest does not detect an edit of `bytes`, `ts` or `prev`, nor the removal
of the last lines, and it reports a torn line for good; what retention purges is reported missing.
Layers of an aborted or empty segment stay on disk, and a write that fails after its objects were
counted would count them twice if its caller flushed.

*Demo, sampler, cameras, RTSP.* Two demo requests may pass the check together
(`demo_runner.py:153-154`). The split screen puts the frames with the same number side by side,
and a mode's video starts with the first frame it kept, so the modes may be out of step
(`demo.py:20`: "Aligns frames using source timestamps"). A demo that fails never stops its sampler; a pipeline and a demo at once
share one event and one handle; a writer that stalls may overwrite newer averages.
`get_frame` says "latest" and returns the oldest buffered frame (`multi_source.py`); the loop in
its usage note ends before the first frame, and the loop on `any_alive` loses up to two last
frames. Overlapping starts or pushes of the RTSP server, or a status poll across a stop and a
start, orphan a process; a failed extraction leaves a partial binary that counts as present, and
a start during the extraction runs it.

*Library and statistics.* When another client browses elsewhere, the desktop's bare paths are
refused; an error listing is cached like any other; `_reset_library_cache` says it serves a
factory reset, but nothing calls it there. `read_consent` "never raises", but does for a JSON
value that is not an object.

*Phone.* Smart Compress may raise the rate above the one that fits, because of its floor of
300 kbit/s (`CompressionWorker.kt:254-256` against 240-242); an unknown duration plans for one
second; an `IOException` in the history's append reports a failure for a video that is visible;
its lock is per instance; a cancelled job leaves its file in the cache, and a run repeated after
a death inserts a second row.

The properties that touch these are stated for what remains true, and say which case they leave
out; the "assumptions" of section 3 name the wider ones.

## 5. The proofs

The proof modules prove `Spec => []IInv` from three steps (initial states, every action,
stuttering), then take the properties from it. No bound of the models is used: the theorems
hold for any finite or infinite set of actors and any values of the bounds. What a proof needs
of the constants is a definition at its head (`FrameConstants`, `NotifyConstants`, ...): that a
bound is a number, that a size is positive, that names are apart. The few that restrict the
use of the code (`Unambiguous`, `OneCamera`, `~Overlap`, `Checks > PauseMax`) are
those of section 3.

**AutoCompress.** `Invariance`, `TypeCorrect`, `FootageSafe` (`DeleteOnlyWithCopy`) and
`IngestSafe` (`IngestOnlyAfterRun`), for reads of any clip by any pass that may end early. The deletion depends on facts established many
steps before, in the pass's locals: that the output it holds is its own (`OwnFile`), that
it was written by a run nobody stopped (`FullRun`), that only a run which has ended is noted as one whose reads
ended early (`EarlyEnded`), that what a pass picked is of its clip and plays (`ChosenPlayable`), that a
pass which kept nothing has no output (`NothingKept`), that the clip it holds is one of its candidates' (`CurSet`). These
and `StartingOff` are the strengthening. `Invariance` and the three theorems assume
`Unambiguous`: no camera id is a prefix of another clip's, and whether a mode keeps a frame
of a clip depends on the clip. Both are needed. `AutoCompressPrefix`
shows the first: an output of the other clip gates the delete. Without the second, a
`scan_now` in a mode that keeps no frame of a clip, running beside a daemon in another mode
that is stopped in the middle of that clip, takes the daemon's short output for its own,
verifies it and deletes the original (set `MCEmpty` to `{<<r1, s1>>}` to see the 14 states).
The code enforces neither: it is a precondition on how the service is used.

**SegmentStore.** `Invariance`, `TypeCorrect`, `InFlightSafe` (`NeverPurgeInFlight`). A file
in flight is in the registry or was created this very second (`Guarded`, `JustCreated`);
what a purge has listed is from an earlier second (`Listed`, with `Dated`), so the second
case is never in its list and the first is caught by the look before `unlink`. `OwnPath`
and `Marked` say that no run clears the mark of another. `PurgesStopInTime` (`NoOverPurge`), for
any number of purges at once, under `OneCamera`: with one camera names and times of change agree
in their order (`Ordered`), since only the newest file is ever written (`Newest`). What a purge
counts and no longer tries is locked (`Held`), what it has not listed is newer or marked
(`Unlisted`), and where another purge has deleted a file of its list, everything older has gone,
is locked or is marked (`GoneInOrder`): each purge's deletions keep this for all the others, because
it takes the oldest itself. So when the oldest file it has left is still there, all it counts is, and
the count that it compares with the budget is not stale (`CountsWhatIsThere`).

**PipelineControl.** `Invariance`, `TypeCorrect`, `OneRunAtATime`, `HistoryBeforeRelease`,
`HistoryIsOwn`, `StopBeatsError`. The strengthening says who owns the slot in every stage
(`SlotOwner`, `SlotHeld`), that a run past `Record` has its entry (`Recorded`), and that the
shared error field belongs to the run that holds the slot (`ErrorOwn`), which is what makes
the entry truthful although the field is shared; `SnapTaken` is a type fact of the savers.

**HlsStream** (`BackgroundProofs`). `Invariance`, `TypeCorrect`, `SlotSafe` (`SlotNotLeaked`), `FfmpegSafe`
(`FfmpegReaped`). While the slot is taken there is somebody who will give it back: a request
between its claim and its thread, a live thread, or a request about to start the thread in
`_hls_thread` (`SlotUsed`). For the last, the thread must not have been started before
(`NotBefore`), must exist and have its event (`ThreadMade`, `EventMade`), and a thread that
runs has one (`Started`), or its first look at the event would end it outside its `finally`.

**Upload.** `Inductive`, `TypeCorrect`, `PartSafe` (`PartIsPrefix`) and `PromiseKept`, for any calls
at once. A chunk is appended only where its offset is the size read under the lock; so the
strengthening has to say that this size is still the size there is, for every handler in the
critical section of an upload that can be resumed, and that it is alone there (`Locked`). The
sweep makes that delicate: it forgets the lock, and a handler that comes later makes a new one
beside the old. It is true because the sweep also removes the upload, and the number of an upload is
never given twice (`KnownThere`). `Blocks` ties a block to its offset. What is said of the
bytes is excused by `stray`, and by it alone; who holds the lock and which answer answers what is
not. `PromiseKept` is the safety part of the refinement (`Promise!Safety`):
each step of `Upload` is a step of `UploadPromise` or leaves the folder and the outcome alone.
It rests on the chain from the hash to the report: what was hashed is the file or has been swept
(`Hashed`), what was moved landed (`Moved`), and an `ok` the engine is waiting for answers the
question it asked (`Waits`, `Replies`), so a late `ok` for a chunk cannot end the upload.

**Notify** (`BackgroundProofs`). `NotifyIsInductive`, `ConnectionsAreValidated`
(`ConnectsToValidated`), `MessagesAreAccounted` (`Accounted`). `pin_resolution` saves a resolver,
puts its own before it and puts the saved one back, so pins of several threads could nest or be
undone in the wrong order; `PinInv` says that who is between pin and unpin holds the lock and that
the resolver is exactly that one's pin on top of what it saved. `CountInv` is the count of
messages in flight: what reporters are about to put, what is queued and what is being posted,
summed over a finite set that changes with every step. For the order, each channel is a line
(sent, in hand, queued) that must rise for each reporter, with what the reporter has left behind
its end (`LineInv`, `OrderInv`); nothing enters the line before it is recorded. `BothRun` takes
these to `MCBackground`.

**Frames.** `FramesIsInductive`, `WantedFramesAreEncoded` (`EncodedAndCut`), `BackgroundsAreClear`
(`BackgroundClear`), for a video of any length and every queue, warm-up, gap and segment size.
`SourceInv` follows the numbers from the decoder through the queue and the probed frame to the
loop. `WrittenInv` says of the frames decided about which of them are in the segments and that
these are in order, for every point of the loop between reading and writing; `CutInv` that only
the last segment may be short. The background rests on `GapInv`: the streak counts frames without
activity that end at the last one decided about and begin after the quarantine, and the buffer holds the
newest of them; so its first is clear by the time the code takes it. `PictureInv` follows the
enhanced pictures: the one in work is newer than the one at hand (`EnhInv`), and those written stand
in their order (`PiecesFollow`) for frames in which something was found (`PiecesStand`). None of it
needs the reader to come back from a read.

**Streams, Demo, Update, Watchfolder** (`ServiceProofs`). `EachRuns` takes a behaviour of
`MCServices` apart. `FramesComeInOrder` (`FramesInOrder`): buffer and hand-outs of each camera
rise, whatever is dropped between them. `DemoShowsItsOwnResult` (the action property
`ResultIsOwn`): one demo is busy at a time and the newest manifest is its own.
`OnlyVerifiedIsInstalled` (`InstalledVerified`): the offer is withdrawn before a download touches
the file (`Withdrawn`), what is offered, launched or given to the helper is good (`Vouched`), and
a bad file is under verification (`UnderVerification`) or was `left`; all of it as long as one
download at a time is under way and no installation (`OneAtATime`), and `rivals` says when that
ended.
`IngestedFilesAreWhole` (`IngestedWhole`): a file that has not grown since the poll began has been
paused for every check since (`Settled`), so with `Checks > PauseMax` one that passes them all
has ended; a marker is set by a step that says how (`how`), never by a failed encode.

**Parts** (`PartProofs`). For each of the eight parts of `MCKept` an inductive invariant of the
part alone, then the property of `MCKept`, `KeptSpec => []...`.
`FootageIsKept` (`FootageKept`): step by step of an encryption, which of the recording, its `.enc`
and its copy can be opened (`SegInv`), so the recording goes only after the file that replaces it
is whole and its key is known; a request works on the locked copy (`ReqInv`); a locked
copy has a row that no clean-up hides, or one is due (`ListInv`).
`SavesAreKept` (`SavesKept`): a save at the file of a store with a lock holds the lock (`LockInv`),
therefore what it is about to write differs from what was acknowledged in its own keys only
(`KeptInv`); that is claimed where the code gives a lock, and through failures only for the tokens,
whose store refuses to start from a file it could not read. `TornInv` tells apart the stores that
replace their file and those that write in place.
`ChoicesAreKept` (`ChoicesKept`): memory, the file and every copy being written name a local or a
chosen destination (`SetupInv`); that the first candidate is one of the list and that the local
default is no cloud folder are lemmas (`FirstIsOne`, by a least index; `LocalIsNoCloud`);
`ConfigInv` says that what was normalised once is a fixed point of exporting and importing;
`UsageInv` that who is about to record agreed while the switch was off.
`HelpersAreOwned` (`HelpersOwned`): processes that live are on record except in the step between
launching one and recording it, when a single request holds it (`ProcInv`, `CallInv`); the thread
of the sampler that loops is that of the run that is on (`SamplerInv`). Both need requests that do
not overlap; section 4 says what happens otherwise.
`EnhancerTellsTheTruth` (`EnhancedAsSaid`): a model is used exactly when one is loaded, its scale is
one it ships (`NearestIsShipped`), and the open segment has one size.

**Clips** (`ServiceProofs`). For each of the six parts of `MCClips` an inductive invariant of the
part alone, then the property of `MCClips`, `ClipsSpec => []...`.
`AnswersFoundedHolds` (`AnswersFounded`): the window of the search is bounded by the closest CRFs
that met the target and that did not (`Window` in `SearchInv`), so nothing between the best and the
end of the window is left when the search stops by itself.
`FilterFaithfulHolds` (`FilterFaithful`): a cell has fewer dismissals than the boxes of the frames
since it was confirmed (`CellInv`), so a closed cell was dismissed in enough of them.
`EncodingFaithfulHolds` (`EncodingFaithful`): a cell of a box seen in this segment holds a sighting
and one of the segment before at least half of it (`BoxesInv`), so no rectangle that is degraded
touches it; that a picture scaled to the grid with floors keeps them apart is `SharedPixel` and
`RunsAvoid`: a pixel of the box lies in a cell that the box has touched, and a rectangle is a run
of cells that are not. `FilesInv` says that a row's file has the frames of the row as long as its
name is its own and the sound, if it has any, lasts. For the layers, records rise with the frames,
each has its files on disk, and the count is that of all their objects (`RecordsInv`) unless a
write failed after its objects were counted, after which no row is written for the segment.
`FilesToldHolds` (`FilesTold`): what a request walks or takes from the cache is a listing of the
folder it was asked for, taken no longer ago than the cache lives (`LibraryInv`).
`PhoneKeepsItsWordHolds` (`PhoneKeepsItsWord`): the rate asked for, without what earlier jobs make
it ask for on top, is within the budget of the limit in every pass, and a file past the check keeps
the limit (`WorkInv`); a row is shown only with the whole of its file (`RowsInv`); what is or will be
in the history names an earlier row and how it was made (`NotesInv`).
The assumptions are at the head of each part. Those that are more than types and signs: an
encoder's sighting is an even number of units of the grid (`Sighting`: the code halves a weight as
a fraction, and half a sighting is exact here too), the frames' regions are finitely many, a
cached listing lives for some time, and a clip of the phone lasts a second at least (the code
plans for one where the duration is unknown), of which its encoder uses at most the rate asked for
(`Shares`).

**Model-checked only.** Every liveness property (`StopHonoured`, `StopEndsRun`,
`StopTakesEffect`, `SlotFreed`, `Drained`, `RunEnds`, `Settles`, the liveness of
`KeepsPromise`): liveness under fairness is out of the prover's reach.
`KeepsTime` and `ReportsEarned` say what recursion and folds over data compute (the time
line of a demo; `TrackEvents`, `Plates`, `ContentDetect`, `Manifest`): induction over data is out of
reach too. `PartProofs` extends `MCKept`, and `ServiceProofs` extends `MCClips`, and not `MCParts`,
since with the definitions of all the other parts in scope the proofs take four times as long; that a
behaviour of `MCParts` is one of both can be read off the modules (section 2).

## 6. Not modelled

* The networks, codecs and cryptography themselves (libraries): each is the choice of what it
  may answer. Pixels, drawing and the flags of FFmpeg are data.
* The check of a single request (sign-in, CSRF, throttle, routes that only read), the metrics
  page, searches by words (`nl_query.py`), statistics: single transactions or queries over one
  snapshot. The throttle of failed sign-ins is a table in memory under one lock.
* `camera_frame_cache` and its shared temporary name: one writer at a time in the dashboard.
* The cap of the job history and reading it back; `ServerUploads.start`; the report at the end of `run_pipeline`.
* Rendering: templates, phone screens, the web site; the installer and scripts.

What the next steps would be: the phone's compression and its upload composed, with two uploads of
one display name; a purge over the files of several cameras, for which `NoOverPurge` has to name the
segments that fail after the listing.

## 7. Running

    tlc -workers 2 -config Parts.cfg MCParts.tla
    tlapm PartProofs.tla

The module and the configuration of each run are in `PROJECT.json`.
