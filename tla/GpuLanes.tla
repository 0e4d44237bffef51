------------------------------ MODULE GpuLanes ------------------------------
(***************************************************************************)
(* Everything that moves models on and off the GPU, around the arbiter:     *)
(*   - the worker, the only caller of ensure(), which also recycles a       *)
(*     fragmented image pipeline after a job, in a thread and without the   *)
(*     arbiter's lock (image_diffusers.py);                                 *)
(*   - POST /gpu/free and the llama-server settings of POST /llm/config,    *)
(*     which call free_all();                                               *)
(*   - the voice lane: a live session owns the GPU outside the arbiter.     *)
(* The worker's 2 s poll makes its wakeups irrelevant here.                 *)
(***************************************************************************)
EXTENDS GpuArbiter

CONSTANTS Worker,      \* the caller that is the queue's worker
          Jobs,        \* job ids
          ModelOf,     \* ModelOf[j]: the backend of the job's model_id
          MayRecycle,  \* FALSE if settings.image_recycle_cuda_growth_gb is 0
          MaxKnobs,    \* bound: changes of the llama-server settings
          MaxSessions, \* bound: voice sessions started
          NoJob

ASSUME LanesAssumption ==
  /\ Worker \in Callers
  /\ ModelOf \in [Jobs -> Backends]
  /\ MayRecycle \in BOOLEAN
  /\ MaxKnobs \in Nat /\ MaxSessions \in Nat
  /\ NoJob \notin Jobs

VARIABLES queue,     \* queued jobs
          running,   \* running_job_id
          picked,    \* the job _pick_next has committed as running
          phase,     \* where the worker is in its loop
          handler,   \* handler[c]: the HTTP request that task c serves
          session,   \* whether realtime._SESSION is set
          starting,  \* the start request inside _SESSION_LOCK
          sessions,  \* sessions started so far
          slipped,   \* the job that was running when the session went live
          knobs,     \* version of the llama-server settings
          launched   \* the version the llama-server was started with

queueVars == <<queue, running, picked, phase>>
voiceVars == <<session, starting, sessions, slipped>>
knobVars == <<knobs, launched>>
vars == <<arbiterVars, queueVars, handler, voiceVars, knobVars>>

Clients == Callers \ {Worker}
LLMBackends == Backends \ ImageBackends

Init ==
  /\ ArbiterInit
  /\ queue = Jobs
  /\ running = NoJob /\ picked = NoJob
  /\ phase = "idle"
  /\ handler = [c \in Clients |-> "none"]
  /\ session = "none" /\ starting = NoCaller
  /\ sessions = 0 /\ slipped = NoJob
  /\ knobs = 0 /\ launched = 0

------------------------------------------------------------------------------
(* The worker: _loop, _pick_next and _run *)

\* session_active() is read before the query; its result may be stale when the
\* row is committed.
LookAtSession ==
  /\ phase = "idle" /\ session = "none"
  /\ phase' = "picking"
  /\ UNCHANGED <<arbiterVars, queue, running, picked, handler, voiceVars, knobVars>>

PickNothing ==
  /\ phase = "picking" /\ queue = {}
  /\ phase' = "idle"
  /\ UNCHANGED <<arbiterVars, queue, running, picked, handler, voiceVars, knobVars>>

PickJob(j) ==
  /\ phase = "picking" /\ j \in queue
  /\ queue' = queue \ {j}
  /\ picked' = j
  /\ phase' = "picked"
  /\ UNCHANGED <<arbiterVars, running, handler, voiceVars, knobVars>>

\* _run with a session active: put the row back.
Requeue ==
  /\ phase = "picked" /\ session # "none"
  /\ queue' = queue \union {picked}
  /\ picked' = NoJob
  /\ phase' = "idle"
  /\ UNCHANGED <<arbiterVars, running, handler, voiceVars, knobVars>>

\* Mutant: _run does not look at the session again.
StartAnyway ==
  /\ phase = "picked"
  /\ running' = picked
  /\ phase' = "ensuring"
  /\ EnsureCall(Worker, ModelOf[picked])
  /\ UNCHANGED <<queue, picked, handler, voiceVars, knobVars>>

\* _run up to the first suspension inside ensure().
StartJob ==
  /\ phase = "picked" /\ session = "none"
  /\ running' = picked
  /\ phase' = "ensuring"
  /\ EnsureCall(Worker, ModelOf[picked])
  /\ UNCHANGED <<queue, picked, handler, voiceVars, knobVars>>

Generate ==
  /\ phase = "ensuring" /\ call[Worker].stage = "returned"
  /\ phase' = "generating"
  /\ UNCHANGED <<arbiterVars, queue, running, picked, handler, voiceVars, knobVars>>

\* Mutant: _run does not survive an ensure that raises.
FinishGenerated ==
  /\ phase = "generating"
  /\ phase' = "tidying"
  /\ UNCHANGED <<arbiterVars, queue, running, picked, handler, voiceVars, knobVars>>

\* The image or text is done, or ensure or the generation raised.
Finish ==
  /\ \/ phase = "generating"
     \/ phase = "ensuring" /\ call[Worker].stage = "failed"
  /\ phase' = "tidying"
  /\ UNCHANGED <<arbiterVars, queue, running, picked, handler, voiceVars, knobVars>>

------------------------------------------------------------------------------
(* after_job, and the end of _run *)

EndJob ==
  /\ running' = NoJob /\ picked' = NoJob
  /\ phase' = "idle"
  /\ slipped' = NoJob
  /\ UNCHANGED <<queue, handler, session, starting, sessions, knobVars>>

TidyUp ==
  /\ phase = "tidying"
  /\ EndJob
  /\ UNCHANGED arbiterVars

\* Mutant: the recycle threshold of 0 does not switch recycling off.
RecycleAlways ==
  /\ phase = "tidying" /\ ModelOf[running] \in ImageBackends
  /\ Cleared(ModelOf[running])
  /\ phase' = "recycling"
  /\ UNCHANGED <<current, warmPool, lockVars, call, queue, running, picked, handler,
                 voiceVars, knobVars>>

\* _recycle_pipeline_sync: drop the pipeline and clear its flags...
RecycleFree ==
  /\ phase = "tidying"
  /\ MayRecycle /\ ModelOf[running] \in ImageBackends
  /\ loaded[ModelOf[running]] \/ warm[ModelOf[running]]
  /\ Cleared(ModelOf[running])
  /\ phase' = "recycling"
  /\ UNCHANGED <<current, warmPool, lockVars, call, queue, running, picked, handler,
                 voiceVars, knobVars>>

\* ... then load it again and set _loaded.
RecycleLoad ==
  /\ phase = "recycling"
  /\ loaded' = [loaded EXCEPT ![ModelOf[running]] = TRUE]
  /\ EndJob
  /\ UNCHANGED <<current, warmPool, warm, lockVars, call>>

RecycleFails ==
  /\ phase = "recycling"
  /\ EndJob
  /\ UNCHANGED arbiterVars

------------------------------------------------------------------------------
(* Requests *)

\* POST /gpu/free.
FreeGpu(c) ==
  /\ handler[c] = "none"
  /\ FreeCall(c)
  /\ handler' = [handler EXCEPT ![c] = "free"]
  /\ UNCHANGED <<queueVars, voiceVars, knobVars>>

\* POST /llm/config with a changed launch knob: drop the LLM if it is resident.
SetConfig(c) ==
  /\ handler[c] = "none" /\ knobs < MaxKnobs
  /\ knobs' = knobs + 1
  /\ \/ /\ current \in LLMBackends
        /\ FreeCall(c)
        /\ handler' = [handler EXCEPT ![c] = "free"]
     \/ /\ current \notin LLMBackends
        /\ UNCHANGED <<arbiterVars, handler>>
  /\ UNCHANGED <<queueVars, voiceVars, launched>>

Respond(c) ==
  /\ \/ handler[c] = "free" /\ call[c].stage \in {"returned", "failed"}
     \/ handler[c] = "start" /\ call[c].stage = "failed"
  /\ handler' = [handler EXCEPT ![c] = "none"]
  /\ UNCHANGED <<arbiterVars, queueVars, voiceVars, knobVars>>

\* POST /voice-engine/session/start: refused while a session or a job is live,
\* else free the GPU.
StartSession(c) ==
  /\ handler[c] = "none" /\ sessions < MaxSessions
  /\ session = "none" /\ running = NoJob
  /\ FreeCall(c)
  /\ handler' = [handler EXCEPT ![c] = "start"]
  /\ sessions' = sessions + 1
  /\ UNCHANGED <<queueVars, session, starting, slipped, knobVars>>

\* Mutant: _SESSION is not looked at again under the lock.
OpenUnchecked(c) ==
  /\ handler[c] = "start" /\ call[c].stage = "returned"
  /\ starting = NoCaller
  /\ starting' = c
  /\ handler' = [handler EXCEPT ![c] = "open"]
  /\ UNCHANGED <<arbiterVars, queueVars, session, sessions, slipped, knobVars>>

\* realtime.start_session in a thread: take _SESSION_LOCK, refuse a second session.
OpenSession(c) ==
  /\ handler[c] = "start" /\ call[c].stage = "returned"
  /\ starting = NoCaller
  /\ \/ /\ session = "none"
        /\ starting' = c
        /\ handler' = [handler EXCEPT ![c] = "open"]
     \/ /\ session = "live"
        /\ handler' = [handler EXCEPT ![c] = "none"]
        /\ UNCHANGED starting
  /\ UNCHANGED <<arbiterVars, queueVars, session, sessions, slipped, knobVars>>

\* session.start() has loaded the voice model and opened the streams, or raised.
SessionOpened(c) ==
  /\ starting = c
  /\ starting' = NoCaller
  /\ handler' = [handler EXCEPT ![c] = "none"]
  /\ \/ session' = "live" /\ slipped' = running
     \/ UNCHANGED <<session, slipped>>
  /\ UNCHANGED <<arbiterVars, queueVars, sessions, knobVars>>

\* POST /voice-engine/session/stop.
StopSession ==
  /\ session = "live" /\ starting = NoCaller
  /\ session' = "none"
  /\ UNCHANGED <<arbiterVars, queueVars, handler, starting, sessions, slipped, knobVars>>

------------------------------------------------------------------------------
\* A step of an arbiter call under way; _start_server builds the llama-server's
\* arguments from the settings of that moment.
ArbiterStep(c) ==
  /\ Progress(c)
  /\ launched' = IF call'[c].stage = "load" /\ call[c].stage = "check"
                    /\ call[c].target \in LLMBackends
                 THEN knobs ELSE launched
  /\ UNCHANGED <<queueVars, handler, voiceVars, knobs>>

WorkerStep ==
  \/ LookAtSession \/ PickNothing \/ \E j \in Jobs : PickJob(j)
  \/ Requeue \/ StartJob \/ Generate \/ Finish
  \/ TidyUp \/ RecycleFree \/ RecycleLoad \/ RecycleFails

HandlerStep(c) == Respond(c) \/ OpenSession(c) \/ SessionOpened(c)

Next ==
  \/ WorkerStep
  \/ \E c \in Callers : ArbiterStep(c)
  \/ \E c \in Clients : \/ HandlerStep(c)
                        \/ FreeGpu(c) \/ SetConfig(c) \/ StartSession(c)
  \/ StopSession

Spec == Init /\ [][Next]_vars

\* The loop polls every 2 s, threads end and the event loop resumes their tasks.
\* Nobody has to stop a session.
FairSpec ==
  /\ Spec
  /\ WF_vars(WorkerStep)
  /\ \A c \in Callers : WF_vars(ArbiterStep(c))
  /\ \A c \in Clients : WF_vars(HandlerStep(c))

------------------------------------------------------------------------------
(* Properties *)

Phases == {"idle", "picking", "picked", "ensuring", "generating", "tidying", "recycling"}
Handlers == {"none", "free", "start", "open"}

LanesTypeOK ==
  /\ TypeOK
  /\ queue \subseteq Jobs
  /\ {running, picked} \subseteq Jobs \union {NoJob}
  /\ phase \in Phases
  /\ handler \in [Clients -> Handlers]
  /\ session \in {"none", "live"} /\ starting \in Clients \union {NoCaller}
  /\ sessions \in 0 .. MaxSessions /\ slipped \in Jobs \union {NoJob}
  /\ knobs \in 0 .. MaxKnobs /\ launched \in 0 .. knobs

\* What is left of ensure's guarantee when recycles and every other lane
\* interleave: the worker generates only after its own model was made current
\* and loaded.
EnsureDelivers ==
  [][Returns(Worker) => /\ current' = call[Worker].target
                        /\ loaded'[call[Worker].target]]_vars

\* A model on the GPU that no swap and no free_all would unload.
Hidden(b) ==
  loaded[b] /\ current # b /\ ~\E c \in Callers : Suspended(c, "profile") /\ call[c].target = b

\* The arbiter's bookkeeping is lost in one place only: the reload of a recycle.
OnlyRecycleHides ==
  [][\A b \in Backends : ~Hidden(b) /\ Hidden(b)' => phase = "recycling" /\ phase' = "idle"]_vars

\* A job and a live session can overlap, because the start request looks at
\* running_job_id before it waits; but only the one job that was running when the
\* session went live: no other is started until the session stops.
OneJobOverlaps == session = "live" /\ running # NoJob => running = slipped

\* _SESSION_LOCK and the recheck under it: a start that has begun to open the
\* streams is the only one, and it never finds another session.
OneSessionOpens ==
  starting # NoCaller => session = "none" /\ \A c \in Clients : handler[c] = "open" => c = starting

\* The lanes' bookkeeping: types, and the start of a session that races another.
LanesAreSound == LanesTypeOK /\ OneSessionOpens

\* voice_engine.py, lines 340-342, and docs/voice-routing.md, line 28: a live
\* session owns the GPU, nothing of the arbiter is on it.
SessionOwnsGpu == session = "live" => \A b \in Backends : ~loaded[b]

\* llm.py, lines 153-155: a changed launch knob drops the running LLM, so that
\* no chat runs on a server with stale settings, unless the drop is on its way.
FreshServer ==
  phase = "generating" /\ current \in LLMBackends =>
    launched = knobs \/ \E c \in Clients : handler[c] = "free"

\* When sessions stop coming, every job that waits is run.
QueueDrains == <>[](session = "none") => <>(queue = {} /\ running = NoJob)
=============================================================================
