# AudioCpp-Bindings: a TLA+ verification project

AudioCpp-Bindings puts .NET around the audio.cpp speech engine: P/Invoke
bindings, an OpenAI-compatible HTTP server that keeps several models in memory,
a package installer, a small C library for the microphone and the loudspeaker,
and a desktop application ("Studio").  The engine is external.  What this
repository adds, and what this project models, is the *coordination* around
it: who may use a session and when, who may free it, who writes which file, and
which thread owns which buffer.

Paths below are relative to the repository's root.

## 1. Inventory

| Component | State it keeps | Operations | Hard behaviour | What makes it correct | Status |
|---|---|---|---|---|---|
| **Model pool** `src/AudioCpp.Server/ModelPool.cs` | `_specs`, `_entries` (gate, model, session, last use), `_languageRefused` | `UseAsync`/`UseStreamingAsync`, `MakeRoomAsync`, `RegisterAsync`, `UnloadAsync`, `UnloadAllAsync`, `ForgetAsync`, `NoteLanguageRefused`, `WarmAsync`, `Dispose` | every operation awaits a gate in the middle; eviction takes a second gate; loads fail; clients disconnect | one request per session, nothing freed in use, no gate left held, limit kept, reconfiguration takes effect | modelled |
| **Install jobs** `src/AudioCpp.Server/InstallJobs.cs` | `_jobs`: id to job; a job's state and token; `ModelsRoot` | `Start`, the task body, `Stop`, `CleanPartial`, `Remove`, set root | a stop against an end, a start against a removal, two spellings of an id, a crash | one writer, nothing half written passes for whole, a stop ends | modelled |
| **Package installer** `src/AudioCpp.Packages/PackageInstaller.cs` | files on disk: final names and `.part` names | `InstallAsync`, `ProbeAsync`, `CleanPartials`, `Delete`, `StateOf` | failure, cancellation and death between create and rename | as above | modelled |
| **UI routes** `src/AudioCpp.Server/UiRoutes.cs` | models folder (in the jobs) | set root, upload, preview, browse | the root changes while a job runs | a job's root holds still | the root route |
| **HTTP routes** `src/AudioCpp.Server/Routes.cs` | none of its own | run with language retry, load with rollback, unload, live routes, one-shot routes | a load fails after it registered; a refusal arrives after a reconfiguration; a live request fails after its first event | the list of models says what can be served, what is remembered is true of it, an answer says how it ended | partly: not the one-shot routes |
| **Server lifecycle** `src/AudioCpp.Server/AudioCppServer.cs` | state, application, pool | `StartAsync` with bind and warm-up, `StopAsync`, `TearDownAsync` | a bind or a warm-up fails half way; a command during another; `Dispose` waits for every gate | the state tells what is up, a stop ends | modelled |
| **Server page** `src/AudioCpp.Bindings.Gui/ServerViewModel.cs` | the state last shown, a form, a log | start, stop, refresh | commands offered by a state that has moved on | as above | the two commands |
| **Streaming, live ingest** `src/AudioCpp.Server/Streaming.cs`, `Sse.cs` | one request's buffers and clocks | ingest loop, event pump, closing delta | frames split anywhere, limits, two timeouts, client gone | every byte used once, text sent is the final text, the gate comes back | partly: the two live routes |
| **Server configuration** `ServerConfig.cs`, `ServerConfigFile.cs` | a JSON file | load, save | a save must keep what it does not know | unknown keys survive | not modelled |
| **Request parsing** `TaskRunRequest.cs` and siblings | none | parse, format | - | - | not modelled |
| **Native audio** `native/audioio/audioio.c` | ring, overruns, started; clip, playhead, playing; context and device list | open, start, stop, read, close; play, pause, seek; enumerate | the device's real-time thread shares the first two through atomics; the list is memory the library rewrites | no frame lost uncounted, nothing read after free, one user of the list | partly: not the level meter |
| **miniaudio** `native/audioio/miniaudio.h` (vendored) | ring offsets; a device's state and three events; the list | acquire and commit; worker thread, start, stop, uninit; enumerate | no lock in the ring; a handshake over auto-reset events | the ring is a queue; who returned knows what the worker does | what `audioio.c` depends on |
| **Capture, playback** `src/AudioCpp.Audio/*.cs` | a handle under a lock | as above | a read against a stop or a close | the handle is live in every native call | modelled |
| **Live transcription** `src/AudioCpp.Bindings.Gui/LiveTranscription.cs` | session, capture, stop token, pump task | `Start`, pump, `StopAsync`, `Dispose` | the pump runs while the recording is stopped and disposed | one call in the engine at a time, a stop ends | modelled |
| **Studio view model** `MainWindowViewModel.cs`, `TaskResult.cs`, `RelayCommand.cs` | model, session and its key, VAD, recording, `Busy`, cancellation source; the panel and the results kept per task | load, run, record, cancel, unload, install; switch task | commands interleave at every `await`; unload and record do not set `Busy`; run bodies write the panel's fields from the thread pool | one owner per recording, one job per `Busy`, the offered model is there, results stay with their task | partly: not settings, voices, options, transport |
| **Text chunking** `TextChunker.cs`, `GroupSegments` of `MainWindowViewModel.cs` | none | cut a text, cut a recording | budgets, speaker marks, words too long, spans past the end | nothing lost or said twice, budgets kept | partly: not subtitles and diffs |
| **Bindings** `src/AudioCpp/*.cs` | handles | session, model, registry | - | - | streaming calls, inside LiveCapture |
| **Arena** `Arena.cs`, `ArenaViewModel.cs` | two slots with a model each | load, run, unload, compare | one busy flag over both | as Studio | not modelled |
| Request builder, WAV, catalogue, settings, voices, media, window, harnesses | files, layout | - | - | - | not modelled: marshalling, file I/O, layout |

How they interact.  An HTTP request runs on a thread-pool thread; the routes
call the pool, which runs the request's `work()` while it holds the entry's
gate.  Management routes call the pool's other methods on other threads.  The
server's start and stop run on the window's thread and own the pool the routes
were mapped with.  A download runs in a task of its own; clients only touch its job through the
table, its token and its state, and both sides touch the disk.  In the desktop
application commands run on the UI thread and interleave only at `await`;
the pump of a recording runs on the thread pool and the device calls
`on_frames`/`on_playback` on miniaudio's worker thread.

Every hazard found while surveying the code is in `PROJECT.json` with its line,
the properties that cover it, or why none does.

## 2. Modules

| Module | Models | Proofs |
|---|---|---|
| `ExclusiveSessions` | the pool's promise, abstractly | refined by `ModelPool` |
| `ModelPool` | `ModelPool.cs` (2.1) | `ModelPool_proofs` |
| `InstallJobs` | `InstallJobs.cs`, `PackageInstaller.cs`, the root route (2.2) | `InstallJobs_proofs` |
| `LiveCapture` | callback and reader in C, `CaptureSession`, `LiveTranscription` (2.3) | `LiveCapture_proofs` |
| `AudioPlayer` | player and callback in C, `AudioPlayer` in C# (2.4) | `NativeAudio_proofs` |
| `Studio` | the commands of `MainWindowViewModel.cs` (2.5) | `Desktop_proofs` |
| `StudioResults` | the panel, the kept results, the output of a run, a live recording's text (2.6) | `Desktop_proofs` |
| `ServerLifecycle` | `AudioCppServer.cs`, `WarmAsync` and `Dispose` of the pool, the page's commands (2.7) | `Server_proofs` |
| `ModelRoutes` | the run with its retry and the load with its rollback in `Routes.cs` (2.8) | `Server_proofs` |
| `LiveIngest` | the live routes of `Routes.cs` and `Streaming.cs` (2.9) | `Server_proofs` |
| `FrameQueue` | a bounded queue, abstractly | refined by `MaRing` |
| `MaRing` | `ma_rb`/`ma_pcm_rb` of `miniaudio.h` (2.10) | `MaRing_proofs` |
| `MaDevice` | worker thread, start, stop, uninit of `miniaudio.h` (2.11) | `NativeAudio_proofs` |
| `DeviceList` | context, lock and list of `audioio.c`, `AudioCapture.Devices` (2.12) | `NativeAudio_proofs` |
| `TextPieces` | `TextChunker.Split`, `GroupSegments` (2.13) | `TextPieces_proofs` |
| `MCModelPool`, `MCInstallJobs` | instances for TLC | - |
| `Scene` | the part that a behaviour of the desktop application is about | - |
| `MCServer`, `MCAudio`, `MCDesktop` | several modules for TLC, one part to a behaviour | `Server_proofs`, `NativeAudio_proofs`, `Desktop_proofs` |
| `MCApplication` | `MCAudio` and `MCDesktop` in one run | - |

The last two rows have a variable `about`, chosen at the start: a behaviour is about
one part, and the others stand still.  The parts of such a module share no state in
the code either except through what each already has as an action (the pool's
calls seen from a route, the ring seen from a recording).  So a run of it is as many
instances as it has parts, under one set of constants, and checks nothing that runs of
the parts alone would not.

A definition introduced by a comment that starts with
"Mutant:" is not part of a model: it is a plausible bug that shows the
property named in `PROJECT.json` can be violated.

### 2.1 ModelPool

A *thread* is one call in progress.  Its `pc` names the `await` or `lock` it
stands at, so an action is the code between two points where another thread can
run: `wait` is `entry.Gate.WaitAsync`, `room`/`scan`/`evict` are the points of
`MakeRoomAsync`, `load` and `create` are the two calls into the engine that may
throw, `run` is `work()`, `free`/`next`/`swap`/`clear`/`unlist`... are the
points of the management methods.  `Entry` objects are elements of `Entries`:
forgetting an id and using it again creates another one, and threads keep
references to the old.  `model[e]` and `session[e]` hold the description they were
made from, which is how a stale description shows.  `older` is the order of
`UsedAtTicks`, the only thing the eviction reads of the clock.  `Collect` is the
finalizer, for entries nothing refers to.

A gate (`SemaphoreSlim(1,1)`) is the thread that holds it.  `TakeGate` is a
wait that succeeds, `GiveUp` one that times out (`busy_timeout_ms`), `CancelWait`
one whose client left.

### 2.2 InstallJobs

Jobs are objects, `slot` is the table, keyed by the *spelling* of the id the
client used.  `task` walks through `InstallAsync` file by file: probe, next,
open, write, move, and the two ways out (`failing`, `stopping`) that delete the
`.part`.  A file on disk is identified by the `<<job, file>>` that created it; `final`
and `part` say what each name holds, and `whole` which were read to the end.  The
disk is POSIX: an open file can be deleted or renamed, and `File.Create`, with
`FileShare.None`, refuses a file somebody has open (.NET takes an advisory
lock).  Windows, where a delete of an open file fails, is not modelled.
Routes have their check and their effect as separate actions wherever the code
does not hold a lock across them.  `Crash` kills the process and starts a new
one that finds the disk as it was.

The checks of `Start`, of a removal and of the root route are such routes: each looks
(`InstallJobs.cs:103`, `238`, `UiRoutes.cs:169`), and acts later (`130`, `245`, `187`).
Any number of clients may do so at once, and the history `raced` says that two have
*crossed*: one passed its check between another's check and its effect.  Then two tasks write
one file, a root moves under a download or a removal meets a download that began
after it had looked; `install_two_starts` is that in the code.  What is said of
one writer is said until then, that is, of requests that queue, stop, clean up,
remove, fail and crash around each other in every other way.

### 2.3 LiveCapture

Three threads: the device's (`callback`), the pump (`pump`), and whoever starts
and stops the recording (`owner`; the two callers, `ToggleRecordingCoreAsync`
and `StopRecordingAsync`, make the same calls in the same order).  A frame is
its number among those delivered, so loss, duplication and reordering all
show.  `on_frames` takes one action per pass of its loop, because the reader can
make room between two passes; a pass copies at most up to the end of the ring
(`Writable`), and so does a read (`Readable`).  `gate` is `CaptureSession._gate`.
Every engine call may fail: `PolicyFails` faults the pump's task (the call is
outside its `try`), `PushFails` ends it through the `catch`; the device may refuse
to stop.

### 2.4 AudioPlayer

`position` and `playing` are C atomics, so each access is a step: `on_playback`
loads `playing`, loads `position`, copies, stores `position`, and clears `playing`
at the end.  The store and the copy are one action (`CopyOut`), and so are the store
and the decision that follows, since it is taken on a local; `EndClip` is the
store of `playing`.  The managed wrapper's lock makes the callers one, but `Play`
is three accesses that the audio thread can fall between.  A close
joins the audio thread before it frees.

### 2.5 Studio

A command is an async method of the UI thread.  An action is the code between two
awaits; `pc` says which await a command stands at, and a continuation is an entry of
`posted`, the dispatcher's queue, which it runs in order together with the reports
of a pump's error (`Dispatcher.UIThread.Post`).  The bodies given to `Task.Run`
(`FreeReplaced`/`LoadWeights`, `ReuseSession`/`ReplaceSession`/`SessionMade`/`RunCalls`, `UnloadSession`/`UnloadModel`/`UnloadFields`)
are steps of the thread pool, so that an unload, which does not set `Busy`, and a
run or a load meet between any two of them.  A stop of a recording
has two awaits, that of `CancelAsync` (`cancelling`) and that of the pump
(`stopping`); `held` is the local that keeps the recording taken from `_live`.
`alive` and a session's `open` tell what was disposed; a null `_model` or `_session` is
0 or `NoSession`.  What the user picked (task, backend, threads, options) is read by the
run's body on the thread pool, hence `\E setting \in Settings` there.  A load that fails may have set `_model` already: the
detector of speech is loaded after it (`VadLoadFails`, lines 1649-1652).  A download may throw what its
`catch` does not name (line 2419); its `finally` runs all the same.  `LiveTranscription`
is reduced to what `LiveCapture` shows of it: a pump that runs, ends,
perhaps with an error, or faults, and a stop that waits for it.

### 2.6 StudioResults

Output is the set of tasks it came from, so an audio kept under another task shows.
`ranAs` is the local of `RunAsync`; the body reads `task` again where the code
does (the session's task, `ShowTextChunking`), and writes `panel` where it writes
`_outputSamples` and `_segments`, on the thread pool.  Rows, words, streams, artifacts and the JSON are
written with the transcript and stand with it.

The setter of `Task` is not one step: it changes `_task` (`SwitchTask`), keeps the panel under the task
it leaves (`StashResult`), and restores the other task's result and then its segments (`RestoreResult`,
`RestoreSegments`), and the body of a run writes before, between and after these.  The stash is one step: it
reads the segments and then the audio, and a write between the two reads has the outcome
of a write before both or of one after both, except that a long text's audio may be kept without the
last of the segments it was joined from, which are of the same task.

A recording (`hearing`, `closing`, `shown`) posts texts and errors (`due`) to the window's thread, which puts
them in the panel of *whatever* task is on screen by then.

The comment at `MainWindowViewModel.cs:1805-1807` says that a result belongs to the task that asked for it.
The code does not keep that (`ResultsStayWithTheirTask`), in these ways, which the history `tangled` marks:

- a switch during a recording: its text is shown and kept under the other task (line 2808);
- a switch before a run's session was made: the session is one for the other task (line 1881);
- a switch during a run to a task that has results, or a second switch: what the body writes meets the
  other task's audio, segments or rows, which the run publishes as its own (lines 1988, 2056-2057);
- a run that fails after a switch: the audio and the segments of its pieces stay with the other task.

A write that falls between the stash and the restore is overwritten by the restore: the audio is lost
from both results.  `OwnResultsUnlessTangled` is what is left: one switch, of a run that has its session, to a
task with nothing to show, at any moment and between any two steps of the setter, leaves every result
with its task.  `PublishedWordsStay` makes no exception: `owed` has the tasks with the words of a
finished run, and these stay through any switches, runs of other tasks and recordings, until
the task's own panel is cleared or written.

### 2.7 ServerLifecycle

A *call* is one press of Start or Stop.  All calls run on the window's thread, so a step is
what happens between two awaits (`binding`, `warming`, `draining`), except
`disposing`, the synchronous wait in `ModelPool.Dispose` that keeps every other
call from running (`WindowFree`).  A pool and its application are named by the call that
made them; `gone` has the entries that were disposed.  `TearDown` reads `_app` at its
start and `DisposePool` reads `_pool` after the drain, as the code does, which
matters when another call came in between.  Requests are on other threads and
keep the pool they were mapped with.

### 2.8 ModelRoutes

One id, and requests that run or load it.  `routeAt` has a place for each lock, gate and
await of the pool the routes can meet each other at; `captured`,
`registering` and `previous` are the locals.  Opening may fail twice over (`OpenBreaks`): at the weights, or at the session, which leaves
the weights in the entry (`ModelPool.cs:373-377`).  An unload takes an entry without a session for one
that is not loaded and leaves these weights (`ReleaseOld`, line 215), so a rollback does too, and the next request
makes its session on them (`UseResident`).  Only `ForgetAsync` drops them, with their entry (`DropEntry`).
`routes_wrong_weights` is that in the code.

Four histories say what the properties need to exempt.  `worked` is what the id was registered as when the
loads began, or by the last one that answered "loaded".  `crossed`: a load began during another.  `abandoned`: a load
ended by a full queue or by its client, for which the code has no rollback (`BreakOff`,
`CancelReleaseOld`).  `mixed`: a load met a run, was cut off with the old model in place, or
a request was served by weights of another description; a refusal of the language option that is noted
then may be about the old model, and stays until a reconfiguration that meets nobody.
The gate is one; what a forgotten entry may do next to a new one is in `ModelPool`.

### 2.9 LiveIngest

One request of either live route.  Bytes are counted: `received`, `carried` (of a
frame not whole), `pushedBytes`.  A read takes any number of bytes the buffer has room for and the client
still sends; `TimeOut` ends a read only when `idle_timeout_ms` is set, since `total_timeout_ms`
is looked at between reads (`BeginRead`).  `FailRequest` is the catch of
`LiveAsync`: a status before the first event, an error event after it, nothing when
the client is gone.  A transcript is a sequence of words; the model may say one after a push
and returns any text at the end, to which `ClosingDelta` is what is still missing.

### 2.10 MaRing and FrameQueue

Two threads and two offsets, each with the loop flag of its top bit.  An acquire is two
steps, because the other side's offset is loaded first and acted on later; then the copy, then the
commit.  Cells hold the number of the frame written to them.  The refinement to
`FrameQueue` maps the cells between the offsets to the queue (`FramesHeld`): a
commit of the writer is a `Put`, of the reader a `Take`, all else stutters.

### 2.11 MaDevice

The worker thread and its one caller, with three auto-reset events and a state.  The
backend is a synchronous one (PulseAudio, whose loop and wakeup are modelled). `FallSilent`
and the loss of the device are the world's; `LoopBreaks` is a loop that ends by itself.
`MA_ASSERT` is compiled out in the shipped build, so it guards nothing here.

### 2.12 DeviceList

Any number of threads that enumerate, open a record or open the default device.
`ensure_context` is four steps, since no lock covers it; `audioio_refresh_devices`
empties and fills the list under the lock; a name is found under the lock and its
text is read after it (`FindName`, `ReadName`), which is where another thread's
enumeration garbles it.  `steady` remembers that nothing did so since a record was made.

### 2.13 TextPieces

Pure functions, over texts of five sorts of characters and stretches of speech counted in samples.
One step calls one of them, and `cut` says that it returned; `MaxText` and `MaxFound` bound what
it is given.  The code's loops are recursive functions (`CutFrom`, what a loop cuts from a
place on; `Filled`, `Joined` and `Grown`, what it has made of the first pieces), and where it
collects what each part gives, `FlattenSeq`: no RECURSIVE operator, so that they can be proved about.
They are compared with what they promise and not with a second implementation: the chunks say the
text (`ChunksSayTheText`: every character but blanks once, in order, with its speaker), and keep to the
budget, except that the mark of a speaker is put in front of at least one character, whatever the
budget, since a piece has room for one (`SplitLongLine`); the windows cover the speech
(`WindowsCoverSpeech`).

## 3. What is checked

Bounds are the constants of each `.cfg`.

| Run | Instance | Shows |
|---|---|---|
| `server_safety` | *pool*: 2 requests, 1 manager that forgets, 2 ids configured, 3 entries, limit 1; *install*: 2 clients, 1 spelling, 2 jobs, 1 file, 2 folders, crashes; *lifecycle*: 1 model, 2 HTTP clients, 4 calls; *routes*: 2 requests, 2 descriptions of which one refuses the language, 2 loads | `SessionInUseIsLive`, `NoGateLeaked`, `WeightsOutliveSession`, and that the pool implements `ExclusiveSessions`; `WorkerIsListed`, `RootHoldsStill`, `RemovalIsComplete`; `StateTellsTruth`; `RegistrationStandsOrFalls`, `RefusalFitsModel`; types |
| `server_live` | *pool*: 2 requests, 1 manager that registers, unloads and notes, 1 id, 2 descriptions; *install*: 1 client, 2 jobs, 2 files, crashes; *lifecycle*: 3 calls; *routes*: 1 request; *ingest*: frames of 4 bytes, reads of up to 6, a limit of 12, 13 sendable, 2 words | `EveryCallReturns` if runs end, `QueueDrains` even if they do not; `StopEndsJob`; `StopCompletes`; `GateComesBack`; `InstalledIsWhole`; `EveryByteOnce`, `DoneMeansWhole`, `DeltasAddUp`; types |
| `desktop` | *capture*: ring 3, window 2, buffers of 1 and 4, 7 frames; *player*: clip 3, requests of 1 and 2; *ring*: size 3, requests of 1, 2 and 4, 9 frames; *device*: 3 starts; *list*: 2 threads, 2 devices, 3 calls; *studio*: 2 settings, 2 loads, 2 recordings; *results*: 2 tasks, one with long texts and one that records, 2 pieces, 4 switches, runs, recordings and unloads; *pieces*: texts of up to 5 characters, budgets 1 to 4, up to 3 stretches of speech in a clip of 8, spans of 2 to 3 | `FramesAccountedFor`, `NothingUsedAfterFree`; `ReadsInsideClip`; `RegionsAreDisjoint`, `RingIsAQueue`; `CallerKnowsWorker`; `ListIsSound`; `RecordingHasOneOwner`, `BusyIsOneJobs`, `OfferedModelIsThere`; `OwnResultsUnlessTangled`, `PublishedWordsStay`; `CuttingLosesNothing`; `BegunEnds` (stops, previews, calls on a device, and `Busy`); types |

`server_safety` does not step on once two install requests have crossed (`UncrossedSpec`), since its
properties say nothing of what follows; the run that does is `install_two_starts`.  Its symmetry exchanges
entries, jobs and clients: no definition names one, and the run has no liveness property.

Why the bounds are enough to be interesting:

- *Pool.* Two requests and a manager are the smallest instance in which a
  request waits on a gate while another runs and a third party unloads,
  forgets or evicts; with two ids a limit of one makes every second load an eviction, and
  two loads may count the residents together.  `Entries` bounds how often an id can be forgotten and
  created again; with three, an old entry is still in use when the new one appears.  For
  liveness there is one id, so the gate an eviction waits for is outside that scene.
- *Install.* For safety, two clients: one starts, stops or removes while the other does; two jobs let a job
  start after another was stopped, failed or killed; two folders let a removal
  and a root change meet what an earlier job left.  Two files (in `server_live`) put a rename between two writes.
- *Lifecycle.* Four calls are a start, a stop, and both again, with the second pair
  overlapping the first; one client can hold a gate and another queue behind it.
- *Routes.* Two requests cross in every way two can; two loads let one reconfigure what the
  other put in, and fail at its weights or at its session; a description of each sort lets a load change
  what a refusal is about.
- *Ingest.* A frame does not divide the chunk, so reads end inside frames and the carry takes room
  from the next; thirteen bytes pass the limit of twelve and leave a frame open.
- *Capture.* A buffer of four is larger than the ring of three (overrun in the
  middle of a buffer), the ring is not a multiple of the window or of the
  buffers (reads and writes that wrap), and seven frames fill the ring twice.
- *Ring.* A request larger than the ring, and three times round it.
- *Device.* Each start can be refused, stopped, lost or silent, and a third sees what two
  left in the events.
- *List.* Three calls are the fewest with which a name is read while another thread rewrites the list, and
  what was read is opened afterwards.
- *Studio.* Two settings make a run rebuild the session and a later one go back; two
  loads let an unload meet the load that replaces its model; two recordings let one be
  started while the stop of another is awaited.  One unload at a time is a bound:
  the command stays enabled during an unload, and a second one would dispose the
  same handles again.
- *Results.* Two tasks, one of each way to cut an input, and two pieces: a switch can
  fall between them.  Four beginnings are, say, a run, a switch, a run there and the way back, or a run, a
  recording and two switches.
- *Pieces.* Five characters hold a speaker, two words and a separator, and budgets
  from shorter than a word to as long as nearly the text.  Three stretches can join, be apart, and run
  past the clip.

What they leave out:

- `WeightsOutliveSession` does not see weights left by a session that could not be made: nothing is
  overwritten or freed early, they only stay.  `OwnWeights` sees them.
- `ReadsInsideClip` does not see a seek that is undone, `ListIsSound` exempts a second context and a list
  that changed since a record was made, and `RecordingHasOneOwner` is kept by a recording that nobody asked for.
- `GateComesBack` is about a client that is silent.  One that sends a byte now and then is inside
  `idle_timeout_ms` for ever, and is ended by `total_timeout_ms` if that is set.
- No run says that what is evicted is the least recently used, as `ServerConfig.cs:235` has it.  The order is
  taken once (`ModelPool.cs:83`) and acted on after waits, so with two requests it need not be.

Each property has a mutant of the code that violates it (`PROJECT.json`,
"mutants").  Deadlock checking is off where what is modelled may really stop: a
player that is freed, a request that was answered, an application that crashed, calls
whose bound is used up.

### Fairness

- *Pool* (`FairSpec`): weak fairness of a thread's own steps, as the thread pool runs
  what can run; strong fairness of `TakeGate`, because `SemaphoreSlim` hands a
  release to its waiters and does not let a stream of late comers starve them.
  Nothing is assumed of `Finish`: an inference may wedge its device.
  `EveryCallReturns` takes it as a hypothesis; `QueueDrains` does without.
- *Install* (`InstallFairness`): weak fairness of the steps the task takes itself.  Nothing
  of the network, so `StopEndsJob` holds for a download whose server is silent.
- *Lifecycle* (`ServerFairness`): a bind returns, the drain is bounded by ten seconds, a warm-up waits no
  longer than `busy_timeout_ms`, and a request ends.  The last is the assumption
  `StopCompletes` needs: `Dispose` waits for gates without a bound.
- *Ingest*: weak fairness of the handler (`Handle`), with the timeouts of its reads
  among its steps.  Nothing of the client: `GateComesBack` holds of one that stops
  sending, as long as `idle_timeout_ms` is set.
- *Capture*: weak fairness of the device's loop, the pump and the owner; strong fairness
  of `EndClose`: a close puts the device in the state that ends the worker's loop at its next look, between two
  callbacks, so callbacks cannot keep it waiting.  (Since `miniaudio.h:44110-44126` a close does not
  stop the device first.)  This takes it that a close returns, which `native_close_hang` shows to fail
  for a device that was lost.  The engine's own steps are a hypothesis of `StopEnds`.
- *Player*: the device goes on asking for frames, and a call that began
  finishes.  `PreviewEnds` supposes that eventually nobody presses anything.  `BegunEnds` of
  `MCApplication` is `StopEnds`, `PreviewEnds`, `DeviceCallsEnd` and `BusyEnds` at once, with their hypotheses.
- *Device*: weak fairness of the worker and of a call that began.  Nothing of the device, which may fall
  silent: a start and a stop return all the same, since a stop wakes the loop; a close need not.
- *Studio*: weak fairness of the dispatcher's queue and of the bodies on the thread
  pool, among them the engine's calls and the download, which return; a pump that was told to stop ends
  (`StopEnds` of the capture).  Nothing is assumed of the user.

Where a scene waits for something unasked (a device to be opened, a request to be
handled), its fairness is conjoined with `about`, so that the other scenes may stand still.

### Disagreements found

Each is a run that TLC is expected to violate, with the quotation in `PROJECT.json`.

| Run | What the code does |
|---|---|
| `pool_forget_race` | an id forgotten and registered again while a request is queued on the old entry runs two requests at once |
| `pool_stale_spec` | a request that read the description before a reconfiguration loads it after the reconfiguration's unload |
| `pool_over_limit` | two loads that count the residents before either has its weights pass the limit together, with an idle model resident |
| `routes_wrong_weights` | weights left by a `CreateSession` that threw are freed by no unload and no rollback, and serve the next description |
| `install_two_starts` | two starts of one id pass the check together, and the job of the first is replaced in the table while it downloads |
| `install_two_names` | one package started under both spellings of its id has two writers, and a half-written file gets its final name |
| `install_stop_race` | a stop that checked just before the job ended leaves it at "cancelling" for ever |
| `studio_dead_session` | a run whose new session is refused leaves the old one, disposed, in its field under its key, and a run that goes back to the old settings uses it |
| `native_close_hang` | a close that meets the end of the data loop of a lost device has its state overwritten by the worker, and waits for it for ever |

Others were met while modelling and are in the models, without a run of their own:

- a result lands in the panel of whatever task is on screen, in the ways that 2.6 lists
  (`MainWindowViewModel.cs:1988`, `2056-2057`, `2808`; the comment at 1805-1807 says it does not);
- a start that crosses a removal or a change of the models folder, which 2.2 describes;
- a refusal of the language option that a run notes after a load changed the model
  (`RunWithLanguageAsync`), which is remembered of the new one;
- a load that ends by `ServerBusyException` or its client's cancellation is not rolled
  back: the catch names `AudioCppException` only (`Routes.cs:514`);
- a `ServerBusyException` during the warm-up stops the server (`ModelPool.cs:400`; the comment at 402
  says a model that will not load must not);
- a Start is accepted while a start that failed still drains, whose tear-down then disposes the new
  pool (`AudioCppServer.cs:190`, `225`);
- `total_timeout_ms` does not end a read that waits (`Streaming.cs:334-340`), though
  `ServerConfig.cs:50` says that it caps the request;
- the mutex of the device list does not cover the lazy creation of the context, which
  `audioio.c:33` says it does; a name's text is read after the lock (`audioio.c:92-100`); an index
  opens another device once devices came or went;
- what is in the ring or in an incomplete window when a recording stops is never
  pushed; with a limit of one, two requests can evict each other's model in turn; a model used since the scan is
  evicted as the least recently used; a
  seek between the audio thread's load and store of the playhead is undone; a record
  pressed while `LoadAsync` awaits the stop of the last recording starts one on the
  model about to be freed; the window's close awaits the stop of the recording, but the
  application ends with the window and does not.

## 4. What is proved

TLAPS proves the following for every value of the constants that satisfies the
modules' assumptions.

- **`ModelPool_proofs`.** `PoolInvariant`: `IndInv` is inductive.  The safety
  properties are not inductive by themselves: that nothing is freed in use needs
  that whoever frees holds the gate, which needs that a gate is held *exactly*
  where the control says.  `HolderInv` says a thread past its wait holds its entry's gate and an
  evicting thread its victim's; `NoGateLeaked` is the converse; `ServiceInv` then keeps what a holder
  found in the entry.  From it: `PoolTypeCorrect`, `RunsOnLiveSessions`,
  `GatesAreReleased`, `WeightsAreKept`, and `PoolImplementsExclusiveSessions`,
  the refinement, with one lemma per kind of step.  They hold for any number of requests, managers, ids and
  entries, any limit, any faults.
- **`InstallJobs_proofs`.** `InstallInvariant`: for any number of clients, files, jobs, folders and crashes,
  with one spelling of the id (`OneSpelling`).  `JobsInv` holds of any requests; until two cross,
  `UncrossedInv` adds `CheckHolds` (a check that found nothing downloading still holds when it is
  acted on, and one client at a time is between the two) and `OwnPart` (the name a task writes is
  its own, and whole by the time it is moved).  From it: `InstallsAreWhole`, `WorkersAreListed`,
  and, in the server as a whole, `ServerInstallsWell`, with the folders and the removals.  Both hypotheses
  are needed: `install_two_names` is the counterexample without one spelling,
  `install_two_starts` of requests that cross.  `InstallTypeCorrect` does without either.
- **`LiveCapture_proofs`.** `CaptureInvariant` joins two invariants and the type of the stop token
  (`StopOK`).  `ControlInv`: the pump lives
  between the owner's start and its await, and the lock is where the control says.  `FrameInv`: what is kept
  (pushed, window, scratch, ring, in this order) increases and comes before what
  is still to place, and the counts add up.  From it: `CaptureTypeCorrect`,
  `FramesAreAccountedFor`, `PumpUsesWhatIsThere`, for any ring, window and
  buffers.
- **`NativeAudio_proofs`.** `PlayerReadsInsideClip`, for a clip and requests of any length.
  `DeviceInvariant`: until a loop has ended by itself, where the caller stands determines
  where the worker can stand, what the state says and which events are set (`Handshake`); that
  a call returned only means something because no event is left over from an earlier call, and
  that is what the strengthening says.  From it `CallersKnow`, for any number of starts.
  `ListInvariant`: the lock is held exactly where the list is used (`ContextInv`, with the moment before there is
  a lock), and a thread that saw nothing change still has what it saw (`RecordInv`).  From it
  `DeviceListIsSound`, for any threads, devices and calls.  `AudioRunsItsParts`: what `MCAudio` puts together
  takes only its parts' steps; hence `AudioTypesHold` and `AudioIsSafe`, every safety property of
  the audio in the run `desktop`.
- **`MaRing_proofs`.** `RingInvariant` joins three: `HeldInv` (the reader is behind the writer on its loop, or ahead of it on the
  one before, and the ring holds the last frames sent), `SeenInv` (a loaded offset is one the other side
  had, and it has only gone on since), `AcquiredInv` (a region stays until its commit).
  From it: `RingTypeCorrect`, `RegionsNeverMeet`, and `RingImplementsQueue`, the refinement, for a
  buffer of any size and requests of any length.
- **`Server_proofs`.** Three inductive invariants.  `ServerInvariant`: while no two calls overlap, the one in progress
  says what is up, and every pool of an earlier start has been disposed; from it `TheStateIsTrue`.
  `RoutesInvariant` joins the control of a request (`ControlInv`) and two more.  `StandsOrFallsInv`: a load that crossed
  no other is alone, and where it and its rollback stand says what is registered (`LoadInv`, `RollbackInv`),
  wherever opening failed.  `FitsInv`: while nothing is mixed a load meets nobody, and the runs between loads
  work with what is registered (`RunFits`); what is left of weights is then of no matter, as a refusal needs a
  run they served.  From it `LoadsStandOrFall`, `RefusalsFit`.
  `IngestInvariant`: the bytes add up until a failure, and only a body read to its end
  leads to an answer; from it `BytesAreUsedOnce`, `DoneIsWhole`, and `DeltasAddUpAlways`, an action
  property.  They hold for any numbers of calls, clients, models, requests, descriptions and bytes, and
  any frame, chunk and limits.  `ServerRunsItsParts` carries them to what `MCServer` puts together,
  all five parts; hence `ServerTypesHold`, `ServerTellsTheTruth`, and, with one spelling, `ServerInstallsWell`.
- **`Desktop_proofs`.** `StudioInvariant` joins three invariants.  `OwnerInv`: a command holds a
  recording *exactly* while it waits for its stop, no two places hold the same one, and a
  recording that is not over is in one of them; without the converse, nothing says that
  the command that stops a recording is still there to release it.  `BusyInv`: `busy`, and a token to
  cancel, stand for one job's control.  `ModelInv`: a model that is offered and no longer there belongs to a
  load or an unload that has yet to say so, and cached sessions are of the loaded model.  From it:
  `StudioTypeCorrect`, `RecordingsAreOwned`, `BusyBelongsToOneJob`, `OfferedModelsAreThere`, for any
  settings and any number of loads and recordings.  `ResultsInvariant`: at every step of the setter, and
  for every write of a run between them, whose output the panel, the kept results and the run's locals hold, until
  something is entangled; and, without that exception, where the words are that a task is owed.  From it
  `ResultsTypeCorrect`, `ResultsAreTheirTasks` and `PublishedWordsAreKept`, for any
  tasks, runs and pieces.  `DesktopRunsItsParts` carries them to what `MCDesktop` puts together:
  `DesktopTypesHold`, `DesktopIsSafe`, and `DesktopLosesNothing` from the next module.
- **`TextPieces_proofs`.** `CutsLoseNothing`, for texts of any length, any budget, any number of stretches in a
  clip of any length, and any spans.  What `CutFrom`, `Filled`, `Joined`, `Grown` and `FlattenSeq` give is an
  induction over data, and the library's theorems for it take an operator.  Here each induction is a
  proof of its own instead: the numbers at which a fact fails are a set, and a set of naturals that is
  not empty has a least member (`LeastNumber`, from `WellFoundedInduction`; `CountUp`, `CountDown`), at which
  the function's equation gives a contradiction.  For a text, the argument goes from the inside out:
  a line's sentences put together are the line, cutting at words and trimming lose only blanks; `FillOK`
  says that what is closed and what is being filled say the sentences added so far, with the speaker's mark on
  each piece and within the budget; every line's units say the line and are `Within` the budget; joining
  units by line breaks keeps them as lines.  For a recording, `WellCut` says that windows are in
  order, of an allowed length, and end by a given place, and `GrownWell` that they and the group being grown
  cover the segments so far.

The inductive invariants were model-checked on the instances above before they
were proved.

Every invariant and every action property that a passing run checks is stated by a theorem: the four
of the installer with one spelling of the id, the rest as the
run checks them.  The compositions (`ServerRunsItsParts` and its like) add
nothing to a part: they say that the specification TLC is given promises what its parts do.

Only model-checked: the liveness properties (`EveryCallReturns`, `QueueDrains`,
`StopEndsJob`, `StopCompletes`, `GateComesBack`, `BegunEnds`).  Liveness under fairness is out of
the prover's reach, as is ENABLED.
The nine disagreements are counterexamples, found by TLC.

## 5. What is not modelled

- The engine: loading, inference and streaming are calls that succeed, fail or take
  for ever.
- Most of `miniaudio.h`: 95 864 lines of a vendored library, of which this project models the
  ring, one handshake and the rewriting of the list.  Its decoders, encoders and generators are
  compiled out (`audioio.c:2-4`); its backends, converters, filters and node graph are the
  library's own business and not what this repository adds.  They are nearly all of the
  lines of C here, so the share of those that the modules stand for is small.
- Asynchronous backends (CoreAudio), whose devices have no worker thread of miniaudio's.
- The one-shot routes and the streams that are not live, which have all their input before
  they run and hold one gate for one call; request parsing and formatting; HTTP framing.
- `ServerConfigFile`, the package catalogue, settings, voices, media helpers: files and formats in
  and out, with no state shared between two actors.
- `PackageInstaller.Contain` (path containment), upload and file browsing; Windows' file
  semantics.
- `Arena`: two slots that load and run one after the other under one busy flag, with no
  interleaving `Studio` does not have.
- `EndsSentence` (which full stop ends a sentence), the budgets' table, subtitles, diffs, the
  WAV codec.
- The level meter's peak, sample formats, byte counts, progress, messages.
- Of the window: settings, voices, the options' tables, the catalogue page, the preview's transport.
- `LiveTranscription.Dispose` of a recording whose pump still runs: none of its callers does that.

## 6. How the project was ordered, and what could follow

First the pool, because everything a request does passes through it; then the
installer, the one part that outlives a crash; then the desktop from the device
upwards (callback, pump, commands, results); then what stands on the pool (lifecycle,
routes, ingest) and under the callback (ring, device, list).  Abstract specifications
were written where a component's promise fits in a few lines: exclusive sessions, a bounded queue.

What could follow: `Arena` beside `Studio`; the composition of `ModelRoutes` with `ModelPool` for
more than one id; the file `ServerConfigFile.Save` keeps, as a function.
