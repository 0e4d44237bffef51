# A TLA+ verification of ImageFabric (HFabric)

ImageFabric is a single-user server that shares one GPU between image
generation (diffusers), chat (a `llama-server` subprocess) and realtime voice
conversion. A FastAPI backend (`src/backend/app`) owns the GPU and a SQLite
database; a React frontend (`src/frontend`) queues jobs over HTTP and follows
them over a WebSocket.

This directory holds TLA+ modules translated from that code, TLC runs that check
them on small instances, and TLAPS proofs of what holds for every instance.
`PROJECT.json` links each definition to the lines it models.

## 1. Inventory

### The system's parts

| Part | State | Operations | Talks to |
|---|---|---|---|
| GPU arbiter, `core/arbiter.py` | `_current`, `_warm_backends`, an asyncio lock | `ensure`, `free_all`, `status` | backends (`load`, `unload`, `park`), RAM measurements, learned profiles, event bus |
| Image backend, `backends/image_diffusers.py` | `_pipe`, `_loaded`, `_warm` | `load` (cold or resume), `park`, `unload`, `generate`, `after_job` (may recycle) | the arbiter, the worker, CUDA in threads |
| LLM backend, `backends/llm_llamacpp.py` | `_proc`, `_loaded` | `load` (spawn, poll `/health` for 120 s), `unload`, `complete` | the arbiter, the worker, a subprocess |
| Worker, `core/scheduler.py` | `_current_job_id`, `_cancel_current`, `_wakeup` | `_loop`: `_requeue_orphans`, then `_pick_next` and `_run` for ever | the arbiter, the job rows, the voice lane, chat messages |
| Job queue, `services/queue_service.py`, `api/jobs.py`, `db/` | `jobs`, `images` rows in SQLite | create, cancel, set priority, clear, list, plan | the worker, through the rows and three calls |
| Chat, `api/chat.py`, `services/chat_service.py` | `conversations`, `messages` rows | send, truncate, delete; the worker finalises replies | the job queue |
| Voice lane, `services/voice_engine/realtime.py`, `api/voice_engine.py` | `_SESSION`, `_SESSION_LOCK`, rings, a recording | start, stop, record | the arbiter (`free_all`), the worker (it parks) |
| Voice engine, `services/voice_engine/engine.py`, `pipeline.py` | slots and assets on disk, one cached voice model, one denoiser, temporary files | discovery, `convert_file`, exports, a session's load | the voice lane, the GPU, outside the arbiter |
| Voice settings, `engine.py`, `presets.py`, `devices.py` | the engine's attributes, two JSON files | `update_settings`, presets, device status | conversions and the session read them at any time |
| Voice stream, `realtime.py` (`ChunkProcessor`), `dsp.py`, `denoise.py` | block queue, context, noise, filters, gate, seam | one chunk after the other | the session's thread; settings requests |
| Launch settings, `api/llm.py` | llama-server knobs | `set_config`, `stop` | the arbiter (`free_all`) |
| Event bus, `core/events.py`, `api/ws.py`, `util/logging.py` | a bounded queue per subscriber | `publish`, `emit`, `subscribe` | everybody publishes; tabs and the log subscribe |
| Memory accounting, `util/sysmon.py`, `services/model_profile_service.py`, parts of `core/arbiter.py` | learned profiles in a table and in a cache | keep-warm decision, budget guard, record, reset | the arbiter |
| Documents, `api/rag.py`, `services/rag_service.py`, `services/embedding_service.py` | documents, vectors, an embedding server on demand | index, search, delete | chat requests, the worker's document tool, the shutdown |
| Gallery, `services/gallery_service.py`, `api/gallery.py`, `util/imaging.py`, `scripts/backup.py` | three files and a row per picture, tags, backups | save, delete, tag, serve, export, back up | the worker writes, requests and a script read |
| Model registry, `backends/registry.py`, `backends/inspect.py` | tables of models and LoRAs | the scan at startup, look-ups | job requests and the worker |
| Tools, `api/tts.py`, `api/vision.py`, `api/transcription.py`, `util/uploads.py` | files, a process or a thread per request | speak, describe, transcribe | the thread pool that model loads use |
| Settings, `config.py`, `services/settings_overrides.py`, `services/runtime_tuning.py`, `main.py` | one settings object, an override file | load, save, tune | every part reads them |
| Hardware, `scripts/hardware_probe.py`, `scripts/install_profiles.py`, `services/capability_profile.py`, `services/model_compatibility.py` | none: computed from the machine | report, profile, compatibility | tuning, model requests |
| Frontend, `App.tsx`, `useEvents.ts` | a copy of queue, gallery and GPU status | event handlers, refetches | HTTP and the WebSocket |

Everything in the backend runs on one event loop, except what is handed to a
thread (`asyncio.to_thread`: pipelines, voice) or a subprocess (`llama-server`).
So two tasks interleave exactly at the `await`s that really suspend, and threads
interleave with everything. SQLite is used through sessions of their own: a
session reads, and commits later, and holds nothing in between.

### What is hard

* **Swaps fail half-way.** `ensure` and `free_all` are sequences of awaits over
  parks, unloads, evictions and loads, each of which may raise, and four pieces
  of bookkeeping (`_current`, `_warm_backends`, `_loaded`, `_warm`) must agree.
* **Not everyone takes the lock.** The recycle after a job reloads a pipeline in
  a thread without the arbiter; the voice session uses the GPU outside it.
* **Check, then wait.** The voice start checks for a running job and then waits;
  the worker checks for a session and then queries; `/llm/config` looks at
  `current` while a load is on its way; a cancel tests a status and commits later.
* **A job outlives its process.** Rows left `running` are requeued, so a job may
  run twice; deletions race the worker's commits.
* **Ordering under batching.** The worker reorders the queue to save swaps, follows
  whatever resident a failed load left, and a preview predicts the order from another query.
* **Delivery is lossy.** Slow subscribers lose the oldest events, a tab
  subscribes after it was greeted, and some changes of the list are never announced.
* **Files and rows are changed one after the other**, by threads, requests, a backup
  script and a user with a file manager, and a kill leaves the first half.
* **Timeouts race late answers.** A process that is told to end, a thread that cannot
  be told, a server that becomes healthy after nobody waits for it.
* **State outlives what it was made for.** A denoiser is used by two streams, an
  embedding server by two models, a pipeline carries the LoRAs of the last job, a table
  of models is read by a job of an earlier start.

`PROJECT.json` lists each hazard at its line, with the properties that would
notice it, or the reason why none does.

### What makes each part correct

* *Arbiter*: at most one backend resident; a resident is never unknown to the
  arbiter; a load starts from an empty GPU; no parked model leaks and the pool is
  bounded; `ensure` and `free_all` keep their promises when they return; every
  call returns.
* *Lanes*: what other parts do leaves those guarantees intact; a live session and
  a job do not share the GPU; changed settings reach the next chat; the queue drains.
* *Batching*: as long as loads succeed, a tier runs each model, and each type, in one
  stretch; jobs of one model are first come first served, whatever fails; a preview that
  saw the whole queue and the right resident is what then runs.
* *Job rows*: nothing is stuck in `running`; no job is cancelled in another's
  place; a cancel that reaches the worker while the model is at work stops that job;
  images are committed once; a placeholder whose job nobody cancelled is
  going to be filled; every job ends.
* *Events*: a tab that has lost nothing shows the arbiter's status, and each change of the
  list that was announced or that it made itself.
* *llama-server*: no process is left behind by a swap, a failed load or a restart;
  one that survives a kill is found by the next start; a chat is answered by its own
  model; loads and unloads end.
* *Voice session*: what is heard lags behind by a bounded time, whatever stalls; a
  live session converts; a recording has its own chunks and is returned once,
  whoever stops it; a start that fails leaves nothing open.
* *Voice engine*: everybody converts with the voice that was asked for; a token names a
  whole file; settings are in range, survive a kill and do not reach half a chunk; no
  sample is lost or invented between two blocks.
* *Documents*: vectors come from the model their row names; no server is left behind.
* *Gallery*: a row has its own files, nobody gets another picture under its id; a row
  goes after its files, or with its job and without them; a backup has every file of its
  rows, and the last one is kept.
* *Image backend*: an image is made with the LoRAs its job asked for and no others.
* *Registry*: a job runs with what it was checked with, and a backend is of the file that
  its id stands for.
* *Memory*: parking a model does not cause the refusal or eviction of a model that is then
  loaded anew; learned numbers are the largest ever measured.
* *Tools*: a request that is over leaves no process behind, and what was answered with
  success is on disk in full, with its metadata.
* *Settings*: what the user chose survives restarts and tuning; what is switched on can
  run on a card that is there; a start fails only because of what the environment or the
  file holds.

## 2. The modules

```
ModelSlots            abstract: one GPU slot, a bounded pool of parked models
   ^ refined by
GpuArbiter  --------- GpuArbiterProofs      ensure, free_all
   ^ EXTENDS, and refined by (without recycling)
GpuLanes  ----------- GpuLanesProofs        worker, recycle, /gpu/free, /llm/config, voice lane

   | BrowserTab ---- BrowserTabProofs      (EXTENDS GpuArbiter) event bus, WebSocket, status
                                           and job list of a tab

                                           these down to ImageBackend -- ServicesProofs
PhaseBatching         select_in_tier, plan_queue, the queue and the resident they read
Documents             embedding server, indexing, search, shutdown
Hardware  <-- AppSettings        hardware report and profiles; settings over restarts
Tools                 speech, vision, transcription, uploads
Memory                keep-warm decision, budget guard, learned profiles
ModelRegistry         the scan, its tables, jobs that are checked against them

Gallery               files and rows of pictures, tags, deletion, export, backup
ImageBackend          the pipeline, its features and LoRAs, jobs on it

                                           these three ----------- VoiceServicesProofs
VoiceEngine           voices and assets, cached model and denoiser, conversions
VoiceSettings         settings, presets, devices
VoiceStream           the stages of a chunk and their state

JobQueue  ----------- JobQueueProofs        job rows, placeholders, images; worker, requests, crashes
LlamaServer  -------- LlamaServerProofs     llama-server processes, pidfile, health check, restarts
VoiceSession  ------- VoiceSessionProofs    session start and stop, audio rings, recordings
```

Modules with one module of proofs, or none of their own to run them, are composed for TLC:
`MCServices` has Documents, AppSettings, Tools and Gallery, `MCGpuWork` has PhaseBatching,
Memory and ModelRegistry, and `MCEngines` the voice modules and ImageBackend. The modules of
a group share no variable, so the specification of the
group picks one of them in its initial state (`part`) and takes only its steps, while
the others stay at an initial state. That checks each of them as if it were alone. Each
other `MC<module>` only names the values that its `.cfg` files use. A definition
whose comment starts with *Mutant* is no part of a specification: it is a
plausible wrong version of the definition after it, and shows that the
properties can fail.

### GpuArbiter

| Model | Code |
|---|---|
| `current`, `warmPool` | `_current`, `_warm_backends` (its eviction order is left out: any victim may be evicted) |
| `loaded[b]`, `warm[b]` | the backend's `_loaded`, `_warm` |
| `holder`, `waiters` | `asyncio.Lock`: first come first served |
| `call[c].stage` | the `await` that task `c`'s call is suspended at |

An `ensure` goes `queued`, then `park` or `unload` if another model is resident,
then `check` (`if not backend.loaded`, `_guard_budget`), `evict` and `check`
again while the budget is short, `load`, `profile` (`_record_profile` writes a
row after the load and before `_current` is set), `returned`. A `free_all` goes
`queued`, `unload`, `drain`, `returned`. Every thread or subprocess may fail: the
call then is `failed` with the state that the code's `try`/`finally` blocks
leave. `unload` fails only where it can raise: freeing an image pipeline. A failed
unload clears the backend's flags but not the arbiter's fields, so `_current` may
name a backend that is not loaded; the properties must survive that.

RAM is left out here: whether a resident may be parked, and whether a load fits,
fits after evictions or is refused, is a free choice wherever the code measures, so the
properties hold for whatever `Memory` decides.

`ModelSlots` is the promise: a slot that is emptied before it is filled, and a
pool that never exceeds `keep_warm_max_models`. The refinement maps the slot to
the loaded backend and the pool to the `_warm` flags, that is, to where the
weights really are and not to what the arbiter believes.

### GpuLanes

`GpuLanes` extends the arbiter with its callers. The worker is one of the
arbiter's tasks and goes through `idle`, `picking`, `picked`, `ensuring`,
`generating`, `tidying`, `recycling`: `LookAtSession` is the `session_active()`
read before the query of `_pick_next`, `PickJob` its commit, `Requeue` and
`StartJob` the second look in `_run`. `RecycleFree` and `RecycleLoad` are the two
halves of `_recycle_pipeline_sync`, which runs in a thread **without** the
arbiter's lock. Other tasks serve `FreeGpu` (`POST /gpu/free`), `SetConfig`
(`POST /llm/config`), `StartSession`, then `OpenSession` under `_SESSION_LOCK` in
a thread, then `SessionOpened`; `StopSession` ends a session. `slipped` is a
history variable: the job that was running when the session went live.
The worker's wakeup event is left out because the loop polls every 2 s anyway.

### PhaseBatching

One queued row is a job with `model`, `priority` and `created_at`. `SelectInTier`
is the rule; it yields a *set*, because SQL returns rows of equal stamps in any
order. `PlanQueue` is `plan_queue` as a recursive function, over the rows that the
preview's `LIMIT` lets through. Of a run the module has what it does to the resident, which
is what the rule looks at: `PickNext` takes the row out of the queue, `Requeue` puts it back,
`UnloadForSwap` empties the slot, `BecomeResident` fills it, and `FailRun` ends the job before
its model is there, with the old resident (an unknown model, an unload that raised) or none (a
load that was refused or failed). Everything else in a run is in `GpuLanes` and `JobQueue`.

A failed load leaves nobody to follow, so `select_in_tier` takes the oldest job next, and a
tier may go back to a model it had left. `cleanFrom` is where the last run that failed stands
in `drained`; the contiguity properties speak of what comes after it, `FifoWithinModel` of the
whole. `drained` starts anew when a row arrives or returns, a priority changes or the GPU is
freed. `preview.exact` says that a preview saw all rows and was not taken in the middle of
a swap, where `current` is not what the next job will find; the other previews drift
(`PlanNeverDrifts`, section 6).

### JobQueue

Each action is one read or one commit of a database session, or a step between
two. The worker goes `boot` (`_requeue_orphans`), `idle`, `picking`, `picked`,
`running`, `writing`, `ending`; `dead` is the worker's task after an exception
nobody catches. `write` is the pending update of a row that was read, and whether
an exception of its commit is caught: an UPDATE of a row deleted in between raises
`StaleDataError`. `_finish_image` inserts first and so holds SQLite's write lock
until its commit: one step. `handler[c]` is a request between its read and its
commit. `images[j]` counts the batches of image rows committed for a job, and
clearing a job deletes its image rows (cascade; their files are in `Gallery`). `reply[m]`
is the assistant message: `pending` (empty placeholder), `interim` (a tool call has queued a
child job, which takes the message over), `final`, `deleted`. `accepted` is history: which
jobs `cancel_running` said yes to, and what the worker was doing with them at that moment.

### BrowserTab

`BrowserTab` extends the arbiter with what one tab sees of it. `Publish` is
`EventBus.publish` for one subscriber: a full queue drops its oldest event.
`ArbiterStep` publishes the status exactly where `ensure` and `free_all` do, as
their last act. `Greet`, `Subscribe` and `Disconnect` are the connection:
`ws_events` sends the status of the moment and subscribes afterwards, and
`useEvents` reconnects without fetching anything. The job list is a version number. Most
changes are announced: `ChangeJobs` commits, `AnnounceJobs` publishes later. `ChangeSilently`
is a commit that nothing is published of: `set_priority` and `clear_finished` from elsewhere,
the worker's `_requeue` and `_requeue_orphans`. `OwnChange` is one by a button of this tab,
which fetches the list when it is answered (`OwnAnswered`), whether it is announced or not.
`HandleEvent` sends a request, `ServeJobs` reads the rows at some later moment, and `ShowJobs`
takes responses in any order, since `refreshJobs` does not number them. History variables say
why a tab may be stale: `missed` (kinds of news lost and not made up for), `unsaid` (a call
of the arbiter failed, and so published nothing), `raced` and `burst` (the last requests for
the list overlapped, and what the list was when the first of them was sent), and `told`, the
last version that was announced or made here.

### LlamaServer

What is one step in the arbiter (`load`, `unload` of an LLM) is taken apart here.
`os[p]` is a process: `unused`, `starting`, `serving` (it has bound the port, which
only one can), `gone`. `call` is the load or unload under way: `spawned` (the process
runs, its pid is not written yet), `waiting` (`_wait_healthy`), `terminating`
(`_cleanup_process`). The arbiter's lock admits one call at a time and one loaded
LLM, which is proved of it (`OneResident`). `chat` is the worker's job: it waits for
the load, then sends its request to whoever listens on the port, and streams. An
unload for `free_all` may come in between. `app` is the backend process: `boot`
(`reap_known_pidfiles`), `up`, `stopping` (`Worker.stop`), `stopped`, `killed`; a kill
may come at any await and forgets all but the processes and the pidfile. `recorded`
and `spared` are history: pids that were ever written, and servers whose name
`reap_pidfile` could not read; a server that is in neither sense findable is a
`Stray`, and the properties except exactly those. Pids are not reused.

### VoiceSession

`lane` is what the holder of `_SESSION_LOCK` is at: `none`, `loading` (the model, the
devices), `starting` (streams and thread, in the order of `RealtimeSession.start`),
`live`, `joining` (`stop`). The audio thread calls back in two steps: `Push` fills the
input ring; `Play` bounds it (`drop_to`) and drains the output ring, which pads with
silence. The worker thread takes a chunk (`PullChunk`), converts it (`Convert`,
`PassThrough` or `ConvertFails`) and records it (`RecordChunk`, `ExpireRecording`).
Rings and processor are counts of samples: every stage keeps the length, up to what
the resampler holds back. `StopRecording` is the first look of `stop_recording`,
before its 650 ms of grace, `TakeRecording` and `StopTooLate` the second. `results` and
`extra` are history: how often a recording was returned, and the silence that failed
conversions added to what they lost. A worker that outlives the 5 s of `join` reaches
only objects of its own session and is not followed; the monitor stream is left out.

### Documents

`server[p]` is an embedding llama-server, `own` and `ownModel` the service's `_proc` and
`_model_id`, `queue` its asyncio lock. A call is `queued`, `starting` (nothing runs that
it could use), `waiting` (for the health check), `posting`. It leaves with the lock
released and `_proc` as it is, whatever went wrong. `Answered` is given by whoever
listens on the port: `docs[d].from` is the model the vectors came from, `docs[d].model` the
one in the row. `BeginShutdown` to `StopWorker` is the order of `lifespan`: requests are
served, the service is stopped, then the worker, whose document tool may start a server
in between. `KillBackend` forgets everything but the processes and the rows.

### ImageBackend

`pipe` is the pipeline object: `place` says where its weights are (`gpu`, `offload` with
hooks, `cpu` where a parked SDXL waits, `split` after a move that failed half-way), `lora`
and `turbo` which adapters it holds, `on` which of them are switched on, `compiled` whether
its transformer is compiled. `loadedLoras`, `lastUsed` and `features` are what the backend
believes of it. A load goes `build`, `attention`, `cache`, `turbo`, `compile`, each of
which may raise after the earlier ones had their effect. `Generate` to `AfterJob` is one
job: LoRAs are loaded one by one (`LoraFails`), then set, then images are made, and
`AfterJob` prunes the cache or recycles. `Setups` has each family with the placement its
loader chooses.

### ModelRegistry

A file is a record of what its name, its header or its `model_index.json` shows. `Shown`,
`Family` and `Descriptor` are the classification, `ModelTable` the table: of equal ids the
last one stays. `AcceptJob` checks a job against the tables, `RunAccepted` looks it up
again, maybe after a restart (`GoDown`, `Scan`) that met other files (`ChangeFiles`).
Whether a loader can do anything with a listed file is not claimed, since it is not always so
(section 6).

### Gallery

`png`, `sidecar` and `thumb` map a stem to the picture its file shows: a stem is the seed
and four random digits, so two pictures may draw the same. Saving writes the three files
in the worker's thread, and the row is committed later; `UnlinkFiles` and `CommitDelete`
are the two halves of a delete. `ClearFinished` is the cascade of `clear_finished`: rows go
with their jobs and no file is touched, so a picture loses its row in two ways, of which
`removed` and `cleared` are the histories. `SnapshotDb` and `WriteManifest` are the backup, a
process that first copies the rows and then lists the files, and whose last act is to
delete what `--keep` leaves over; `KillBackup` leaves a directory without a manifest, which the
next run counts like any other. Tags are a sequence that is
normalized when it is stored and again when it is shown.

### Memory

`RamAvailable` is what is left beside the resident, the pool and other programs; `RamNeed`
the estimate, learned or guessed. `BeginSwap` is the keep-warm decision, `EvictWarm`,
`PassBudget` and `RefuseLoad` the budget guard, `LoadEnds` the load, or the resume of a warm
model, and its measurement. `promised` says whether the swap has parked a model for one that is
`load`ed anew or for a `resume`, `wasted` for which of them it then evicted or refused.
`RecordRead`, `RecordCommit` and `RecordCache` are `record_profile`: a read, a commit and the
cache, against `ResetProfiles` and `CommitReset`, a delete in an open transaction that
clears the cache before it commits.

### Tools

One request is `reading` its upload piece by piece, `ready`, `running`, `over`. Speech and
vision run a process, which writes, ends, fails or hangs; a transcription runs in a thread
of the default pool, where the worker's loads wait as well. A timeout kills the process,
but can only cancel a thread that has not started. The metadata is written last
(`StoreRecord`); when that fails the answer is 500, and a `.wav` that is whole stays served.

### Hardware, AppSettings

`Hardware` is pure: a machine (its cards, and what nvidia-smi, ROCm and torch say of them)
is merged into a report, the report gives candidates for an install profile, a candidate
its defaults and features, and those the compatibility of each model. `AppSettings` adds
the time: `StartApp` reads defaults, environment and override file and then tunes what
nobody set; `SaveSettings` truncates the file and `SaveWritten` completes it; `KillApp` ends
the backend, which comes up on any machine and in any environment. One key stands for the
keys of its kind (a flag, a rounded number, a nullable text, a choice).

### VoiceEngine

`cache` is the engine's `_loaded_model_id` and `_loaded_model`, which are assigned one after
the other; models are numbered, and `voiceOf` says whose they are. A conversion goes
through `copying`, `check`, `loading`, `naming`, `taking`, `loaded`, `denoise`, `extract`,
`open`, `writing` in its thread, one conversion at a time behind an asyncio lock; the live
session takes the same steps in its own thread without the lock. `onnx` is the feature
extractor's session, created on first use and named after; `dtln` the stream whose state
the shared denoiser carries. `ChangeDisk` is the user, who takes a voice or an asset away
and brings it back.

### VoiceSettings

Settings are numbered keys of four kinds: a clamped number where 0 and `off` switch off, a
mode, a device, a monitor device. `Apply` sets them in order until one is refused.
`UpdateSettings` writes the file beside the old one and moves it; `KilledInSave`, `EditFile`
and presets meet it at any point.

### VoiceStream

The stages of `ChunkProcessor.process` by their lengths: the denoiser (`Streamed`) cuts its
input into hops and drops its warm-up; `Feed` queues what is left, `Cut` takes a block, slides
context and noise, asks the gate, and either converts (`Converted`: aligned and crossfaded
with the seam) or puts out silence of the exact length (`Silenced`). Every column of noise has
the number of its draw, every frame of context its number in the stream. `Tune` changes the
settings between any two blocks.

## 3. The runs

| Run | Instance | Shows |
|---|---|---|
| `GpuArbiter` | 2 image models, 1 LLM, 3 tasks, pool of 1 | all safety properties and the refinement of `ModelSlots` under every interleaving of calls and failures |
| `GpuLanes` | worker, 2 clients, 3 image jobs of 2 models, 2 sessions, recycling on | what recycling leaves: the worker always generates on its own loaded model; only the reload of a recycle can hide a model from the arbiter; one session opens; only one job can overlap a session |
| `LanesNoRecycle` | worker, 2 clients, a chat and an image job, 1 change of settings, 1 session, recycling off | the refinement of the arbiter's specification, and so all its guarantees; every call ends; the queue drains |
| `JobQueue` | a chat turn, the image of its tool call, a plain image, 1 client, 1 crash, 1 requeue | job rows, images and replies stay consistent; every queued job settles |
| `BrowserTab` | a queue of 2 events, 1 task; `part` "status": 1 image model, 1 LLM, 1 change of the list; `part` "list": the arbiter rests, 3 changes, announced, silent or the tab's own | a tab that shows a stale status has lost an event, or was told nothing because a swap failed; a stale list has missed news or a response, had overlapping requests, or misses only what nobody was told of |
| `LlamaServer` | 2 LLMs, 3 processes, 2 kills of the backend | no server is lost, survivors are recorded, chats are answered by their own server, calls end |
| `VoiceSession` | chunks of 3, blocks of 2, a ring of 4, callbacks of 1 or 2 samples; 1 failing conversion, 2 recordings, 2 requests | bounded latency, a session that goes on converting, recordings that are whole and returned once |
| `Engines` | voice engine: 2 voices, 2 uploads and a session, 2 model loads, 1 change of the disk or crash; voice settings: 4 kinds, 1 preset; stream: 3 blocks of 20 with hops of 4 and frames of 10; pipeline: 7 setups, 2 LoRAs, 2 jobs of up to 2 images, 2 loads | voices, files, settings and samples survive interleaving, kills and changes of settings; images have their LoRAs |
| `Services` | documents: 2 models, 1 request and the worker, 3 processes, 1 restart; settings: 5 machines, 4 environments, 2 saves, 1 kill; tools: 2 requests, 1 thread, 1 kill; gallery: 2 pictures, 2 stems, 2 requests, 2 backups, 1 kill of the backend or of the script | the property of each service |
| `GpuWork` | batching: 4 jobs, 3 models, 2 priorities, a preview of 3 rows; memory: 3 models, 12 units of RAM, resumes that are measured; registry: 4 folders, 3 starts | the queue is batched, and as it was planned; parks leave room for loads; jobs run as checked |
| `RecycleLeak`, `VoiceOverlap` | one client, or one session | a documented claim that the code does not keep: see section 6 |

A property named `...IsSound` or `...AreSound`, and `BooksAgree`, `CallsDeliver` and
`BatchesAreOrdered`, is the conjunction of named parts that stand before it in its module,
each with a comment of its own: `GalleryIsSound` for instance is `GalleryTypeOK`,
`RowsHaveFiles`, `DeletedStayDeleted`, `TagsAreFound` and `BackupsAreWhole`.

The groups of `Services`, `GpuWork` and `Engines` are made so that each run ends in about
three minutes with two workers; nothing else is meant by them.

**Why the bounds are enough.** Two image models and one LLM give every kind of
swap (park, unload, resume, cold load) with a pool that is full at one; three
tasks are one that holds the lock and two that wait, so that order among waiters
matters. Three jobs let a model leave and come back. One crash and one requeue per
run each revisit every state of a job, and the second visit has the state of the
first; one client has a cancel or a clear in flight at a time, against the worker:
that several at once do no harm is proved for all but `JobsSettle`. Four jobs of three models in two tiers show every contiguity violation
(three jobs and an interloper), and let a job fail to load between two of a tier; a preview of
three rows does not see all of four. A queue of two events overflows with one status and
one other event in it, or two statuses. Three changes of the list are one that a first
request reads, one that a second, overlapping request reads, and one that is
told while both are on their way; while the list changes the arbiter may rest, since for the
list a status is only one more event that crowds the queue. Three
processes are a server, its orphan and the next server, with two kills in between.
A chunk longer than a block and one that is not a multiple of it, and a ring just
longer than a chunk, give underruns, overruns and rests in every order; one session
is enough because sessions share only `_SESSION`.

Three embedding processes are a server, the orphan of a killed backend on its port and the
next server; two models are one that is asked for and one that answers. Two uploads and a
session are three users of one cache, two of whom take no common lock; two loads fill the
cache and replace what it held. Blocks of two feature frames, and pieces of one and a half blocks
that hops do not divide, make every stage hold back a rest; three blocks fill the context and slide
it once. One voice setting of each kind and one preset meet every branch of `Fit`; updates
of two keys are what can stop half-way. The five machines are an NVIDIA card that
nvidia-smi knows in full, two different ones that torch must complete, an NVIDIA beside an
AMD card without nvidia-smi, ROCm with a card that only torch sees, and no card at all. Two
saves and a kill let a file be written, torn and overwritten. One thread makes every
transcription compete with every load, `MaxUpload` is met exactly, passed by a piece and
undershot. Three models are one on the GPU, one parked and one that comes, with RAM for two.
Four folders have each family as file, repo and quantised transformer, equal ids, LoRAs
whose name and header disagree, and unreadable files; a third start sees the second change.
Two pictures over two stems clash or do not; two backups with `--keep 1` make one expire, and
a killed one counts like the others. Two
LoRAs and a cache of one force a prune; two loads are a load and a recycle or a resume.

`MaxKnobs`, `MaxSessions`, `MaxCrashes`, `MaxRequeues`, `MaxExits`, `MaxErrors`,
`MaxRecordings`, `MaxRestarts`, `MaxLoads`, `MaxEvents`, `MaxSaves`, `MaxKills`,
`MaxToolKills`, `MaxReloads`, `MaxResets`, `MaxOtherChanges`, `MaxStarts`, `MaxBackups`,
`MaxGalleryKills` (of the backend and of the backup script together), `MaxChanges`, `MaxImageJobs`, `MaxBatch` and `MaxBlocks`, the set `Movable` and the number
of processes and requests bound only how often the environment acts and how much it asks;
no step of the program is bounded but the loads of `MaxLoads` and `MaxPipeLoads`. `MaxWarm`, `MaxUpload`,
`MaxTags`, `CacheMax`, `RecycleMin`, `KeepBackups` and `PlanLimit` are settings or limits of the
program, made small. Tasks, image models, conversions, pictures, stems, editing requests and LoRAs that the
properties do not tell apart are symmetric; runs with liveness use no symmetry.

`CHECK_DEADLOCK FALSE` is set where a run of the model ends: all jobs are done and
the environment's bounds are used up. `GpuArbiter` and `BrowserTab` never stop and are
checked for deadlock.

**Fairness.** Weak fairness of the worker's loop, because it polls every 2 s
whatever happens to its wakeups; of every arbiter call under way, because it waits
for a thread, a query or a subprocess whose start and exit have timeouts; of
requests under way. Nobody has to start, stop or cancel anything: in particular a
voice session may last for ever, and `QueueDrains` says so. The stream of a chat has
no timeout in the code, so `QueueDrains` and `JobsSettle` take for granted that a
`llama-server` that was asked answers or dies; `LlamaServer` assumes nothing of it:
there only the backend's own steps are fair, which deadlines of 120 s and 10 s
justify. The audio callback and the voice worker are threads that the operating
system runs. `JobsSettle` excepts a
worker whose task has died, which is possible (section 6).

## 4. What is proved

`GpuArbiterProofs`, for any backends, tasks and pool size (`ArbiterAssumption`:
the image backends are backends, there are finitely many, `MaxWarm` is a natural
number, the null values are not members):

* `TypeCorrect`, `AtMostOneResident`, `ResidentIsKnown`, `LoadsStartClean`,
  `NoWarmLeak`, `PoolBound`: the invariants of the run.
* `EnsureIsSound`, `FreeIsSound`: what a call guarantees when it returns.
* `BookkeepingAgrees`, `CallsAreSound`: the properties of the run, put together from these.
* `ArbiterImplementsSlots`: the refinement.

None of the invariants is inductive by itself. `OneResident` says nothing of who
may act: a state with a model loaded and another call about to load would satisfy
it. The inductive invariant `ArbiterInv` adds to `TypeOK`

* `LockInv`: only the holder of the lock is at a stage inside it;
* `StageInv`, what the holder may rely on at each await: at `park` the resident is
  loaded and may be kept warm; at `check`, `evict` and `load` nothing is loaded and
  `current` is the target or none; at `profile` exactly the target is loaded; at
  `drain` `current` is none and nothing is loaded;
* `WarmInv`: a warm backend is in the pool, not loaded and not `current`;
* `ResidentIsCurrent` and `PoolIsBounded`, which need the others to be preserved.

The proof has one lemma per action or group of actions, and each property follows
from the invariant alone. The refinement takes, for each action, the step of
`ModelSlots` it amounts to: `Load` for `LoadDone`, `Park` for `ParkDone`, `Unload`
or `Evict` for the unloads, a stutter for the rest.

`GpuLanesProofs`, from `LanesAssumption`. With recycling off (`~MayRecycle`):

* `LanesImplementArbiter`: every step of the program is a step of the arbiter or
  leaves it unchanged. It needs `LanesInv`: the worker never reaches a recycle, and
  what it has picked is a job, so that it calls `ensure` with a backend.
* `LanesOneResident`: hence at most one backend is resident in the whole program.

The hypothesis is needed: with recycling the run `RecycleLeak` refutes it. What recycling
leaves is proved without the hypothesis: `OneSessionStarts`, `OnlySlippedJobOverlaps`,
`EnsureStillDelivers` and `OnlyTheReloadHides`. `ArbiterInv` is of no use there, since a
reload may load a second model at any stage of a call. `SharedInv` is what remains of it
when nothing is said of models that others loaded: `LockInv`; `StepInv`, what the holder
knows of `_current` and of its own backend; and `CallersInv`, that the worker ensures and
requests free, and that the worker recycles only when its own call is over, which is why a
reload cannot meet an `ensure`. `SessionInv` adds that whoever opens the streams holds
`_SESSION_LOCK` and that no session is there yet.

`BrowserTabProofs`: `TabIsInSync` and `TabShowsNewestJobs`, for any capacity of the queue.
`FeedInv` looks at the last event of a kind that is on its way, in the queue or in the hand
of the tab: it says what the server says now, and if there is none, the screen does.
`ListInv` does the same for the list: `burst` is what the list was when the first of the
requests under way was sent; none of them reads less, and unless news, a response to a change
of the tab's own or an earlier request is still on its way, it is all that was told.
The proof is about `Append` and the loss of the oldest event: which positions of the queue
survive, and which of them is the newest of its kind.

`JobQueueProofs`, from `QueueAssumption` (a tool call's job is a new row that
belongs to the same message), for any number of jobs, messages, clients, crashes
and requeues: `RunningRowsAreHeld`, `ImagesEnterOnce`, both together as `RowsStaySound`,
`CancelsAreAsked`, `RepliesHaveWriters`, `FinishedJobsStay` and `SignalsStopTheirJob`. The inductive invariant `QueueInv` adds

* `HeldInv`: what the worker holds is a row that exists or existed;
* `WriteInv`: what the pending write says, and that a row it has not read is a
  deleted one (else a `_requeue` could leave a running row behind);
* `CancelInv` and `HandlerInv`: whoever is about to cancel a job, be it the
  worker's flag, its pending write or a request, was asked to; whatever a clear is
  about to delete has finished or was cancelled;
* `DoneInv` and `ResultInv`: a job with images, or whose tool call has a job, has
  finished, so its next commit cannot repeat them;
* `ObeyInv`: a run whose signal was accepted while the model was at work is yet to look at
  the flag, or is about to commit another end than done, or is over.

Each step lemma there proves `QueueInv'` together with `Kept`: no row becomes new again,
and a finished job stays finished. `Kept` is what lets the facts about requests,
read long before their commit, survive the steps in between.

`LlamaServerProofs`, from `ServerAssumption` (the null values are not members), for
any LLMs, processes and kills: `NoServerIsLost`, `PidfileNamesSurvivor` (together
`ServersStaySound`) and `AnswersComeFromOwn`. The first two need each other: the pid can be overwritten only
because, while a server is being started, nothing recorded is alive, which is what
`ServersAreHeld` says when nothing is loaded; and a restart finds every server only
because of `CrashIsRepairable`. `ServerInv` adds `CallInv` (what the process of a call
is, before and after its pid is written), `LoadedInv` (the pidfile names the loaded
one), `UnusedInv`, `MemoryInv` and `ChatInv` (no other LLM is loaded under a chat).

`VoiceSessionProofs`, from `VoiceAssumption` (sizes are natural numbers), for any
chunk, block, ring and callback sizes: `VoiceLatency`, `RecordingReturnedOnce`,
`RecordingsAreSound`, `RecordingOwnsChunks`. The bound on the sum of all buffers survives `Play` for one of
two reasons: the output ring shrinks by what was pushed, or it is empty, and then
what is left is bounded by `RingInv` (the input ring by its cap, the processor by a
block and what a failure left in it).

`ServicesProofs`, one part per module and from its assumption:

* `Documents`: `DocumentsStaySound`, `ShutdownStopsServers`. `DocInv` says that the head of
  the queue is the only call inside the lock (`HeadHolds`), what a call knows of `_proc` at
  each stage (`StageKnows`), that a process that lives and is not `_proc` was orphaned by a
  kill (`LostRan`), and that what is started after the service was stopped is recorded as
  such (`StoppedLate`).
* `Tools`: `ToolsStaySound`. No call reads another's state, so the invariant is stated call
  by call (`CallSound`), and a step has to be followed for the call that takes it only.
* `Gallery`: `GalleryStaysSound`. A file belongs to the picture that drew its stem
  (`FilesAreOwned`), a picture that was saved and not removed is still there (`SavedIsThere`),
  only saved pictures have rows, and one whose row is gone was deleted or went with its job
  (`LostRowsAreKnown`). `RetainedFacts` is about the retention: what it keeps are the last
  elements of the sequence, and the backup just completed is the very last. `TagsAreTidy`, that
  stored tags come back unchanged from a second normalization, is the part about data.
* `ImageBackend`: `ImageBackendStaysSound`. `PipeIsDescribed` relates the pipeline object to
  what the backend believes of it, for every point at which a load or a LoRA may fail;
  `WorkFollowsFlags` says which of them can be under way; `WantedIsOn` is what a job may rely
  on between its steps; `CacheKnowsUse` and `PrunedToSize` bound the cache.
* `PhaseBatching`: `BatchesStayOrdered`, `PlanStaysFollowed`. The three orders speak of what has run and hold by
  themselves of no step. `BatchInv` speaks of what *waits*: a model, or a type, of which a job
  still waits in a tier was not left since the last load that failed (`ModelNotLeft`,
  `TypeNotLeft`), what waits is not of a higher tier than what ran (`TiersDescend`) and of one
  model not older (`WaitersAreYounger`). It needs to know whom the next pick will follow:
  `LastIsResident` says that it is the model of the last job, unless that one failed, although
  in the middle of its run the slot may hold the old model or none; `HeldWhileGenerating` that
  only a request takes a model from a job. The preview is a recursion over sets of rows, unrolled by a fold. That
  the recursion has a solution for a finite queue (`PlanExists`, by `RecursionExists`), that a
  part of the queue is planned as in the whole (`PlansAgree`), and that one more run in front of
  a plan is one more model in front of what it stands for (`PrependRuns`) give the invariant
  `PlanHolds`: of an exact preview, what ran since then, followed by the plan of what still waits
  behind the upcoming model, is what was previewed, and the swaps that have happened, the one
  that the run under way still owes and those of that plan are as many as were previewed.
  `PlanStaysFollowed` is for every finite queue and whatever the `LIMIT`: a preview from which
  the `LIMIT` hid a row is not exact, and promises nothing.
* `Memory`: `MemoryStaysSound`. A promise of room for a model that is loaded anew is kept:
  `ParkLeavesRoom` is the arithmetic of the decision, and until the load only the guard acts
  (`PromiseHolds`). For a resume there is no such promise (section 6); what a record read is still in its row
  when it commits, unless the row is gone (`BaseIsRow`), and what it committed is known to it
  or to the cache, unless a reset came between (`CommittedIsKnown`).
* `ModelRegistry`: `RegistryStaysSound`, from `BackendsAreOfTable` (what was made was made from
  the table of this start) and `CheckHolds` (a job that no restart came after was
  checked with the tables there are).
* `AppSettings` and `Hardware`: `SettingsStaySound`. `AppSettingsAssumption` gives the values
  of environments and requests their types, takes launch pairs from the keys' choices, and
  makes every machine an `IsMachine`: torch sees devices of the vendor it was built for, and
  each CUDA device is a card that is in the machine. From that, `MachineFits` shows for every
  machine that reports, candidates, tuning and compatibility fit a card that is there.
  `SettingsInv` says what the running settings and the file on disk hold while a save is
  half-way (`RunningSettings`, `SavedSettings`).

`VoiceServicesProofs`, likewise:

* `VoiceEngine`: `VoiceEngineStaysSound`. `OneAtATime`: only one conversion is past the
  asyncio lock, and the history `overlapped` knows of every load of the session beside one of
  a conversion; `CacheNames`: unless that happened, the id names the cached model except
  between the two assignments of one user, and what each user holds at its stage is of its
  own voice; `FilesKept`: a token names a whole file, and without a crash an upload is there
  only as long as its conversion.
* `VoiceSettings`: `VoiceSettingsStaySound`. `VoiceSettingsInv` says that a file read back
  gives settings that fit, whatever a user wrote into it, and what was saved last if no user
  did.
* `VoiceStream`: `StreamStaysSound`, `NoiseStaysPinned`, for any block, hop and frame sizes and
  rates. `DenoiserHolds` counts what the denoiser has taken against what it has given back and
  kept; `ContextIsNumbered`: each frame of the context is padding or has its place in the
  stream; `GateCounts`: the gate counts no more quiet blocks than there were; `SilenceIsExact`:
  what is put out for silent blocks has their length.

Some of these are statements about lists of any length: normalized tags, the sum of the
pool, merged reports, the best card, the settings an update has come through. The
library's induction theorems cannot be used here, but the least element of a set of numbers
can: `LeastNumber` and `UpTo` say that a set of naturals that has 0 and with `n` also
`n + 1` has all of them, and the set of lengths for which a statement holds is such a set.

**Only model-checked**: liveness (`CallsEnd`, `QueueDrains`, `JobsSettle`,
`ServerCallsEnd`, `AudioFlows`), which needs ENABLED. Every other property of the passing
runs has a theorem.

## 5. What is not modelled

* Numerics: networks (`voice_engine/rvc`), what torch computes in a pipeline, the values
  of samples. Of the voice's stages only lengths and kept state are modelled.
* VRAM in amounts. RAM is counted in `Memory`; everywhere else, whether something fits is
  a free choice, and so are failures for want of memory.
* In `JobQueue`, a reply and the job's row are written in one step. Messages
  edited between the worker's read of the message and its commit are left out, and so are
  the editing of conversations, the assembly of prompts and the boundaries of text chunks.
* Event publishing other than of the status and the job list; the log and its subscriber.
* Plain create, read, update and delete endpoints (code, notes, prompts, image presets), the
  token check of requests, schema upgrades, benchmarks and download scripts, rendering.
* The parts of `MCServices`, `MCGpuWork` and `MCEngines` do not act on each other,
  except that `Tools` has the worker's loads, `Documents` the worker's tool, and
  `VoiceEngine` the live session. What the arbiter and a tool that uses the GPU without
  asking it do to each other is VRAM in amounts.

## 6. Findings

Each of these is a run whose property quotes the repository and which TLC refutes.

* `RecycleLeak`: a `free_all` while a pipeline is being recycled finds nothing to
  unload and forgets `_current`; the reload then puts the pipeline back, unknown to
  the arbiter, and the next `ensure` loads a second model beside it. `OnlyRecycleHides`
  shows that this is the only such place.
* `VoiceOverlap`: a job picked while a session start waits shares the GPU with the
  live session. `OneJobOverlaps` shows that it is never more than that one job.

**Claims that do not hold.** These definitions state what a comment or docstring says, and
are kept in their modules without a run; named as an INVARIANT in the `.cfg` of the run in
brackets, TLC shows the counterexample. The first four are the other side of a property that
is proved, and say where it ends.

* `AcceptedIsCancelled` (`JobQueue`; the docstring of `cancel_running`): it says yes whenever the
  job is the current one, but `_run` looks at the flag only while the model is at work and directly
  after. A flag set while the job is put back for a voice session is reset when it runs
  again, and one set while the result is written, or during `after_job`, is ignored: the job ends
  done. `SignalsAreObeyed` is what holds. Two more signals are lost because nobody says
  yes: one that comes between the commit of a pick and `_current_job_id`, and one for a row that is
  `running` since before a crash, which then is run again.
* `JobsAreCurrent` (`BrowserTab`; "routers handle event emission", `queue_service.py:1`):
  `set_priority`, `clear_finished`, `_requeue` and `_requeue_orphans` commit a change of the list and
  emit nothing. A tab that made the change fetches the list; every other open tab, and every tab
  after a requeue, goes on showing the old one until something else is announced.
  `JobsAreFresh` is about the changes that are told.
* `PlanNeverDrifts` (`GpuWork`; `test_scheduler.py:3-5`): a preview that is asked for while the
  first model is being loaded takes `current` for what the next job will find, one with a load
  that fails later is left behind when `select_in_tier` falls back to the oldest job, and one of
  more than 1000 rows reads the newest while the worker prefers the oldest. `PlanIsFollowed`
  holds of the others.
* `EverySwapHasRoom` (`GpuWork`; `arbiter.py:161`): `_keep_warm_decision` counts a model that is
  itself warm as needing nothing, but `_guard_budget` then asks for its full estimate, and evicts
  what was just parked, or refuses. `ParkingLeavesRoom` holds where the incoming model is loaded anew.

* `FreshServer` (`LanesNoRecycle`): settings changed while the `llama-server` is loading do
  not reach it, nor cause a reload: the chat runs on the old ones.
* `NoHalfOpenSession` (`VoiceSession`): a device that opens but does not start makes `start`
  raise before the worker thread was started; `stop` then raises in `join`, and the streams
  stay open without a session.
* `OnlyLoadedIsOnGpu` (`Engines`): a load that fails after `_pipe` was assigned leaves the
  weights on the GPU, and `unload` returns at once because the backend is not loaded; a park
  leaves there what its loader put there without hooks (bitsandbytes, offload `none`). The
  invariant `OneResident` of the arbiter speaks of flags; this is what flags do not tell.
* `UnsetKnobsAreTuned` (`Services`): one save writes every value to the file, and from the
  next start on every value counts as chosen.
* `SdxlIsTheFloor` (`Services`): a checkpoint of 6.5 GB is estimated at 10.7 GB, and so is
  not available on the 8 GB card whose tier recommends it.
* `LorasFit` (`GpuWork`): a job that waits through a restart is not checked again; another
  file under the same id may be of another family.
* `OneModePerStream` (`Engines`): an upload resets and uses the denoiser that the live
  session is streaming through.

**Also seen** while modelling, without a definition that asserts the contrary:

* Queue: cancelling a queued chat job leaves its placeholder empty (`ReplyHasWriter`
  excepts cancelled jobs for that reason); a cancel that read a row as queued flips it after
  the worker picked it, and the finishing worker flips it back, or has already finished it, and a
  job that is done, with its images in the gallery, is then marked cancelled (`FinishedIsFinal`
  counts both as finished, and `OnlyAskedAreCancelled` holds); clearing
  a row between the worker's read and commit can end the worker's task (`Die`); jobs for the
  resident model starve older ones of the same tier; after a failed load the order in a tier
  begins anew with the oldest job, and a model that had been left may come back.
* Tab: a swap that fails after its unload is never announced; a change between greeting and
  subscription is missed; an older list may overwrite a newer one.
* Voice session: a chunk longer than two seconds (`Chunk > Cap`, 133 units at 8 kHz) starves
  the worker for ever; an expired recording is never returned; a second stop that waits while
  the recording is stopped and a new one started returns the new one; silence that failed
  conversions add stays for the rest of the session; nothing bounds the monitor ring.
* llama-server: a loaded server that dies stays loaded, and every chat fails until a swap; a
  stream has no timeout.
* Documents: a server that the worker's tool starts after the service was stopped, and any
  server of a killed backend, goes on, keeps the port, and answers for another model.
* Settings: `PUT /settings/overrides` judges each key alone and accepts a build and a cache
  type that cannot be launched together; a null for the LoRA is read back as the text
  `None`; a value from the environment that is not among a key's choices is saved by the next
  PUT and fails the start after it, as does a torn file; two cards of one name are merged.
* Gallery: a delete leaves the sidecar; a stem may be drawn twice for one seed, and the
  second picture overwrites the first; a tag cut at a blank is not found by its own filter;
  `--keep 0` removes the backup that was just made (`BackupsAreWhole` is for the others); a
  script that is killed leaves a directory without a manifest, which counts for `--keep` and so
  may push a whole backup out; `clear_finished` removes the rows of pictures and leaves their
  files, which nothing leads to any more (`DeletedStayDeleted`).
* Tools: a speech process that is ended by its timeout leaves a part of its file, which is
  served; a request whose metadata cannot be written is answered 500, and its `.wav` is whole and
  served; a transcription that timed out keeps its thread, for which model loads wait; two
  files whose names are reduced to one id hide each other.
* Memory: a reset of the profiles between a record's commit and its cache is half undone;
  the learned RAM is a difference of start and end although it is called a peak, and a resume
  is measured and recorded like a load.
* Image backend: a module that fails while it is imported from a file stays in `sys.modules`
  and is never imported again; a resume uses model offload whatever the placement was.
* Registry: every LoRA path with `flux` in it is taken for FLUX, so a FLUX.2 LoRA is refused;
  not every listed model can be loaded: a file of unknown family, an unreadable one included, is
  loaded as SDXL, a FLUX.2 repo is listed without transformer weights (`registry.py:104` looks
  at Qwen and Z only), and a Nunchaku transformer of these two without its base repo; of two files with one id the last one stays; a
  backend of the wrong type is made and loaded before its type is looked at.

## 7. Plan

Done: all modules above, and a theorem for every property of the passing runs except
liveness. Next, in this order:

1. `JobLife`: the abstract life of a job, which `JobQueue` implements, with the refinement
   proved; and the composition of `JobQueue` with the choice of `PhaseBatching`.
2. `_chunk_text` against its reference: chunks cover the text and overlap as configured.
