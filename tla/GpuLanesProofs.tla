--------------------------- MODULE GpuLanesProofs ---------------------------
(***************************************************************************)
(* Everything around the arbiter.  With recycling switched off, models move *)
(* only through the arbiter: the lanes implement ArbiterSpec, and inherit   *)
(* what GpuArbiterProofs proves of it.  With recycling, which takes no lock,*)
(* ArbiterInv does not hold any more; what is left of it, with the calls    *)
(* the worker and the requests may have under way, is SharedInv.            *)
(***************************************************************************)
EXTENDS GpuLanes, GpuArbiterProofs

\* The worker starts real jobs only, and never reaches a recycle.
LanesInv ==
  /\ phase = "picked" => picked \in Jobs
  /\ phase # "recycling"

LEMMA LanesInvStep ==
  ASSUME ~MayRecycle, LanesInv, [Next]_vars
  PROVE  LanesInv'
  <1> USE DEF LanesInv
  <1>1. CASE WorkerStep
    BY <1>1 DEF WorkerStep, LookAtSession, PickNothing, PickJob, Requeue, StartJob,
       Generate, Finish, TidyUp, EndJob, RecycleFree, RecycleLoad, RecycleFails
  <1>2. CASE UNCHANGED queueVars
    BY <1>2 DEF queueVars
  <1>3. WorkerStep \/ UNCHANGED queueVars
    BY DEF Next, vars, ArbiterStep, HandlerStep, Respond, OpenSession, SessionOpened, FreeGpu,
       SetConfig, StartSession, StopSession
  <1> QED BY <1>1, <1>2, <1>3

\* A step of any lane is a step of the arbiter, or moves no model.
LEMMA LaneStep ==
  ASSUME ~MayRecycle, LanesInv, [Next]_vars
  PROVE  [ArbiterNext]_arbiterVars
  <1>1. CASE StartJob
    <2>1. ModelOf[picked] \in Backends /\ Worker \in Callers
      BY <1>1, LanesAssumption DEF StartJob, LanesInv
    <2> QED BY <1>1, <2>1 DEF StartJob, ArbiterNext
  <1>2. ASSUME NEW c \in Callers, Progress(c) \/ FreeCall(c) PROVE ArbiterNext
    BY <1>2 DEF ArbiterNext
  <1>3. \/ StartJob
        \/ \E c \in Callers : Progress(c) \/ FreeCall(c)
        \/ UNCHANGED arbiterVars
    <2>1. CASE WorkerStep
      BY <2>1 DEF WorkerStep, LookAtSession, PickNothing, PickJob, Requeue,
         Generate, Finish, TidyUp, RecycleFree, RecycleLoad, RecycleFails, LanesInv
    <2>2. CASE ~WorkerStep
      BY <2>2 DEF Next, vars, Clients, ArbiterStep, HandlerStep, Respond, OpenSession,
         SessionOpened, FreeGpu, SetConfig, StartSession, StopSession
    <2> QED BY <2>1, <2>2
  <1> QED BY <1>1, <1>2, <1>3

\* Without recycling the worker, /gpu/free, /llm/config and the voice lane are
\* just callers of the arbiter.
THEOREM LanesImplementArbiter == ~MayRecycle => (Spec => ArbiterSpec)
  <1> SUFFICES ASSUME ~MayRecycle PROVE Spec => ArbiterSpec
    OBVIOUS
  <1>1. Init => ArbiterInit /\ LanesInv
    BY DEF Init, LanesInv
  <1>2. LanesInv /\ [Next]_vars => LanesInv' /\ [ArbiterNext]_arbiterVars
    BY LanesInvStep, LaneStep
  <1> QED BY <1>1, <1>2, PTL DEF Spec, ArbiterSpec

\* arbiter.py, line 5, for the whole program with recycling switched off: at most
\* one GPU resident, whatever the worker and the requests do.
THEOREM LanesOneResident == ~MayRecycle => (Spec => []OneResident)
  BY LanesImplementArbiter, AtMostOneResident, PTL

------------------------------------------------------------------------------
(* With recycling *)

\* What a call still knows at the await it is suspended at: nothing of the models
\* that other lanes loaded, only of its own and of _current.
StepInv ==
  \A c \in Callers :
    /\ call[c].op = "ensure" => call[c].target \in Backends
    /\ call[c].stage \in {"park", "unload"} => current \in Backends
    /\ call[c].stage \in {"park", "check", "evict", "load", "profile"} => call[c].op = "ensure"
    /\ call[c].stage \in {"check", "evict", "load", "profile"} =>
         current \in {NoBackend, call[c].target}
    /\ call[c].stage = "profile" => loaded[call[c].target]
    /\ call[c].stage = "drain" => call[c].op = "free"

\* The worker alone calls ensure, for a real job, and waits for it: it never
\* recycles while its own call is under way.
CallersInv ==
  /\ phase = "picked" => picked \in Jobs
  /\ call[Worker].stage \in Outside \/ phase = "ensuring"
  /\ call[Worker].stage # "idle" => call[Worker].op = "ensure"
  /\ \A c \in Clients : call[c].op = "free"

\* A start that opens the streams holds _SESSION_LOCK, and no session is there yet.
SessionInv ==
  /\ \A c \in Clients : handler[c] = "open" => c = starting
  /\ starting # NoCaller => session = "none"

SharedInv == TypeOK /\ LockInv /\ StepInv /\ CallersInv

\* The step of a call keeps the types and what every call knows, whatever is loaded.
LEMMA ProgressKeeps ==
  ASSUME TypeOK, LockInv, StepInv, NEW c \in Callers, Progress(c)
  PROVE  TypeOK' /\ LockInv' /\ StepInv'
  <1> USE ProgressFacts
  <1>1. TypeOK'
    <2>1. CASE UNCHANGED modelVars
      BY <2>1 DEF TypeOK, modelVars
    <2>2. CASE ParkDone(c)
      <3>1. current \in Backends
        BY <2>2 DEF StepInv, ParkDone, Suspended
      <3> QED BY <2>2, <3>1 DEF TypeOK, ParkDone
    <2>3. CASE EnsureCheck(c)
      BY <2>3 DEF TypeOK, EnsureCheck, Call, modelVars
    <2>4. CASE LoadDone(c) \/ EnsureDone(c)
      BY <2>4 DEF TypeOK, LoadDone, EnsureDone, Call
    <2>5. CASE UnloadDone(c) \/ UnloadFails(c) \/ UnloadWarmDone(c) \/ UnloadWarmFails(c)
      BY <2>5 DEF TypeOK, UnloadDone, UnloadFails, UnloadWarmDone, UnloadWarmFails, Cleared
    <2> QED BY <2>1, <2>2, <2>3, <2>4, <2>5 DEF Progress, EnsureEnter, ParkFails, LoadFails,
         FreeEnter, FreeDone
  <1>2. \A d \in Callers \ {c} : call'[d].stage \notin Inside /\ call'[d] = call[d]
    OBVIOUS
  <1>3. /\ call'[c].op = "ensure" => call'[c].target \in Backends
        /\ call'[c].stage \in {"park", "unload"} => current' \in Backends
        /\ call'[c].stage \in {"park", "check", "evict", "load", "profile"} => call'[c].op = "ensure"
        /\ call'[c].stage \in {"check", "evict", "load", "profile"} =>
             current' \in {NoBackend, call'[c].target}
        /\ call'[c].stage = "profile" => loaded'[call'[c].target]
        /\ call'[c].stage = "drain" => call'[c].op = "free"
    <2>1. CASE \E outcome \in Outside : Leave(c, outcome)
      <3>1. call'[c].stage \in Outside
        BY <2>1, LeaveFacts
      <3> QED BY <3>1 DEF Outside, StepInv
    <2>2. ASSUME NEW stage \in Stages, GoTo(c, stage) PROVE call'[c].stage = stage
      BY <2>2, GoToFacts
    <2>3. CASE EnsureEnter(c) /\ \E stage \in {"park", "unload", "check"} : GoTo(c, stage)
      BY <2>2, <2>3 DEF EnsureEnter, StepInv, TypeOK, Call, Stages, Inside, Outside, modelVars, GoTo, Leave
    <2>4. CASE ParkDone(c)
      BY <2>2, <2>4 DEF ParkDone, StepInv, Suspended, Stages, Inside
    <2>5. CASE EnsureCheck(c) /\ \E stage \in {"load", "evict"} : GoTo(c, stage)
      BY <2>2, <2>5 DEF EnsureCheck, StepInv, Suspended, Stages, Inside, Outside, modelVars, Leave, GoTo, TypeOK, Call
    <2>6. CASE LoadDone(c)
      <3>1. call[c].target \in Backends
        BY <2>6 DEF LoadDone, StepInv, Suspended
      <3> QED BY <2>2, <2>6 DEF LoadDone, StepInv, Suspended, Stages, Inside, TypeOK
    <2>7. CASE FreeEnter(c)
      BY <2>2, <2>7 DEF FreeEnter, StepInv, Suspended, Stages, Inside, TypeOK, modelVars
    <2>8. CASE UnloadDone(c)
      BY <2>2, <2>8 DEF UnloadDone, StepInv, Suspended, Stages, Inside, TypeOK, Call
    <2>9. CASE UnloadWarmDone(c)
      BY <2>2, <2>9 DEF UnloadWarmDone, StepInv, Suspended, Stages, Inside
    <2> QED BY <2>1, <2>3, <2>4, <2>5, <2>6, <2>7, <2>8, <2>9 DEF Progress, EnsureEnter, ParkFails,
         EnsureCheck, LoadFails, EnsureDone, UnloadFails, UnloadWarmFails, FreeDone, Outside
  <1>4. StepInv'
    BY <1>2, <1>3 DEF StepInv, Inside
  <1> QED BY <1>1, <1>4

\* A new call queues up, and disturbs no other.
LEMMA NewCallKeeps ==
  ASSUME TypeOK, LockInv, StepInv, NEW c \in Callers,
         FreeCall(c) \/ \E b \in Backends : EnsureCall(c, b)
  PROVE  /\ TypeOK' /\ LockInv' /\ StepInv' /\ UNCHANGED modelVars
         /\ call[c].stage \in Outside /\ call'[c].stage = "queued"
         /\ call'[c].op = IF FreeCall(c) THEN "free" ELSE "ensure"
         /\ \A d \in Callers \ {c} : call'[d] = call[d]
  <1>1. PICK op \in {"ensure", "free"}, b \in Backends \union {NoBackend} :
          /\ call[c].stage \in Outside
          /\ call' = [call EXCEPT ![c] = [op |-> op, target |-> b, stage |-> "queued"]]
          /\ Acquire(c)
          /\ UNCHANGED modelVars
          /\ op = "ensure" => b \in Backends
          /\ op = IF FreeCall(c) THEN "free" ELSE "ensure"
    <2>1. CASE FreeCall(c)
      BY <2>1 DEF FreeCall
    <2>2. CASE ~FreeCall(c)
      BY <2>2 DEF EnsureCall
    <2> QED BY <2>1, <2>2
  <1>2. /\ call' \in [Callers -> Call]
        /\ call'[c] = [op |-> op, target |-> b, stage |-> "queued"]
        /\ \A d \in Callers \ {c} : call'[d] = call[d]
        /\ holder' \in Callers \union {NoCaller} /\ waiters' \in Seq(Callers)
        /\ LockInv'
    BY <1>1, CallFacts
  <1>3. TypeOK'
    BY <1>1, <1>2 DEF TypeOK, modelVars
  <1>4. StepInv'
    BY <1>1, <1>2 DEF StepInv, modelVars
  <1> QED BY <1>1, <1>2, <1>3, <1>4

\* A recycle touches models only, while the worker has no call under way.
LEMMA RecycleKeeps ==
  ASSUME SharedInv, phase # "ensuring", UNCHANGED <<current, warmPool, lockVars, call>>,
         loaded' \in [Backends -> BOOLEAN], warm' \in [Backends -> BOOLEAN]
  PROVE  TypeOK' /\ LockInv' /\ StepInv'
  <1>1. \A c \in Callers : call[c].stage # "profile"
    <2> SUFFICES ASSUME NEW c \in Callers, call[c].stage = "profile" PROVE FALSE
      OBVIOUS
    <2>1. call[c].op = "ensure"
      BY DEF SharedInv, StepInv
    <2>2. c = Worker
      BY <2>1 DEF SharedInv, CallersInv, Clients
    <2> QED BY <2>2 DEF SharedInv, CallersInv, Outside
  <1>2. TypeOK' /\ LockInv'
    BY DEF SharedInv, TypeOK, LockInv, lockVars
  <1>3. StepInv'
    BY <1>1 DEF SharedInv, StepInv
  <1> QED BY <1>2, <1>3

\* The steps that make a new call.
LEMMA SharedCallStep ==
  ASSUME SharedInv, \/ StartJob
                    \/ \E c \in Clients : FreeGpu(c) \/ StartSession(c) \/ SetConfig(c)
  PROVE  SharedInv'
  <1> USE LanesAssumption DEF SharedInv
  <1>1. CASE StartJob
    <2>1. picked \in Jobs /\ EnsureCall(Worker, ModelOf[picked])
      BY <1>1 DEF StartJob, CallersInv
    <2>2. /\ TypeOK' /\ LockInv' /\ StepInv'
          /\ \A d \in Callers \ {Worker} : call'[d] = call[d]
      BY <2>1, NewCallKeeps
    <2>3. call'[Worker].op = "ensure"
      BY <2>1 DEF EnsureCall, TypeOK
    <2> QED BY <1>1, <2>1, <2>2, <2>3 DEF CallersInv, StartJob, Clients
  <1>2. ASSUME NEW c \in Clients, FreeGpu(c) \/ StartSession(c) \/ SetConfig(c)
        PROVE  SharedInv'
    <2>1. c \in Callers /\ c # Worker
      BY DEF Clients
    <2>2. CASE FreeCall(c)
      <3>1. /\ TypeOK' /\ LockInv' /\ StepInv' /\ call'[c].op = "free"
            /\ \A d \in Callers \ {c} : call'[d] = call[d]
        BY <2>1, <2>2, NewCallKeeps
      <3>2. UNCHANGED <<phase, picked>>
        BY <1>2 DEF FreeGpu, StartSession, SetConfig, queueVars
      <3> QED BY <2>1, <3>1, <3>2 DEF CallersInv, Clients
    <2>3. CASE ~FreeCall(c)
      <3>1. UNCHANGED <<arbiterVars, phase, picked>>
        BY <1>2, <2>3 DEF FreeGpu, StartSession, SetConfig, queueVars
      <3> QED BY <3>1 DEF arbiterVars, modelVars, lockVars, TypeOK, LockInv, StepInv, CallersInv
    <2> QED BY <2>2, <2>3
  <1> QED BY <1>1, <1>2

\* Every step of every lane keeps it.
LEMMA SharedStep == SharedInv /\ [Next]_vars => SharedInv'
  <1> SUFFICES ASSUME SharedInv, [Next]_vars PROVE SharedInv'
    OBVIOUS
  <1> USE LanesAssumption
  <1>1. CASE RecycleFree \/ RecycleLoad
    <2>1. /\ phase # "ensuring" /\ UNCHANGED <<current, warmPool, lockVars, call>>
          /\ phase' # "picked"
      BY <1>1 DEF RecycleFree, RecycleLoad, EndJob
    <2>2. loaded' \in [Backends -> BOOLEAN] /\ warm' \in [Backends -> BOOLEAN]
      BY <1>1 DEF RecycleFree, RecycleLoad, Cleared, SharedInv, TypeOK
    <2> QED BY <2>1, <2>2, RecycleKeeps DEF SharedInv, CallersInv
  <1>2. CASE \E c \in Callers : ArbiterStep(c)
    <2>1. PICK c \in Callers : ArbiterStep(c)
      BY <1>2
    <2>2. TypeOK' /\ LockInv' /\ StepInv'
      BY <2>1, ProgressKeeps DEF ArbiterStep, SharedInv
    <2>3. /\ call[c].stage \notin Outside
          /\ call'[c].op = call[c].op
          /\ \A d \in Callers \ {c} : call'[d] = call[d]
          /\ UNCHANGED <<phase, picked>>
      BY <2>1, ProgressFacts DEF ArbiterStep, SharedInv, queueVars
    <2>4. CallersInv'
      BY <2>3 DEF CallersInv, SharedInv, Clients, Outside
    <2> QED BY <2>2, <2>4 DEF SharedInv
  <1>3. CASE UNCHANGED arbiterVars /\ ~StartJob
    <2>1. phase' = "picked" => picked' \in Jobs
      BY <1>3 DEF Next, vars, queueVars, WorkerStep, LookAtSession, PickNothing, PickJob, Requeue,
         Generate, Finish, TidyUp, EndJob, RecycleFree, RecycleLoad, RecycleFails, HandlerStep,
         ArbiterStep, Respond, OpenSession, SessionOpened, FreeGpu, SetConfig, StartSession,
         StopSession, SharedInv, CallersInv
    <2>2. phase = "ensuring" => phase' = "ensuring" \/ call[Worker].stage \in Outside
      BY <1>3 DEF Next, vars, queueVars, WorkerStep, LookAtSession, PickNothing, PickJob, Requeue,
         Generate, Finish, TidyUp, EndJob, RecycleFree, RecycleLoad, RecycleFails, HandlerStep,
         ArbiterStep, Respond, OpenSession, SessionOpened, FreeGpu, SetConfig, StartSession,
         StopSession, Outside
    <2> QED BY <1>3, <2>1, <2>2 DEF arbiterVars, modelVars, lockVars, SharedInv, TypeOK, LockInv,
         StepInv, CallersInv
  <1>4. CASE \/ StartJob
             \/ \E c \in Clients : FreeGpu(c) \/ StartSession(c) \/ SetConfig(c)
    BY <1>4, SharedCallStep
  <1>5. \/ RecycleFree \/ RecycleLoad \/ StartJob
        \/ \E c \in Callers : ArbiterStep(c)
        \/ \E c \in Clients : FreeGpu(c) \/ StartSession(c) \/ SetConfig(c)
        \/ UNCHANGED arbiterVars
    BY DEF Next, vars, WorkerStep, LookAtSession, PickNothing, PickJob, Requeue, Generate, Finish,
       TidyUp, RecycleFails, HandlerStep, Respond, OpenSession, SessionOpened, StopSession
  <1> QED BY <1>1, <1>2, <1>3, <1>4, <1>5

LEMMA SharedInit == Init => SharedInv
  <1> SUFFICES ASSUME Init PROVE SharedInv
    OBVIOUS
  <1>1. TypeOK /\ \A c \in Callers : call[c].stage = "idle" /\ call[c].op = "free"
    BY DEF Init, ArbiterInit, TypeOK, Call, Stages, Outside
  <1> QED BY <1>1, LanesAssumption DEF Init, SharedInv, LockInv, StepInv, CallersInv, Clients,
       Inside, Outside

\* SharedInv holds with and without recycling.
LEMMA SharedInvariance == Spec => []SharedInv
  BY SharedInit, SharedStep, PTL DEF Spec

\* What steps do to the requests and the session.
LEMMA SessionStep ==
  ASSUME LanesTypeOK, SessionInv, [Next]_vars
  PROVE  SessionInv'
  <1> USE LanesAssumption, ArbiterAssumption DEF SessionInv, LanesTypeOK, Clients
  <1>1. CASE UNCHANGED <<handler, starting, session>>
    BY <1>1
  <1>2. ASSUME NEW c \in Clients,
               FreeGpu(c) \/ SetConfig(c) \/ StartSession(c) \/ Respond(c)
        PROVE  SessionInv'
    BY <1>2 DEF FreeGpu, SetConfig, StartSession, Respond, voiceVars
  <1>3. ASSUME NEW c \in Clients, OpenSession(c) \/ SessionOpened(c)
        PROVE  SessionInv'
    BY <1>3 DEF OpenSession, SessionOpened
  <1>4. CASE StopSession
    BY <1>4 DEF StopSession
  <1> QED BY <1>1, <1>2, <1>3, <1>4 DEF Next, vars, voiceVars, WorkerStep, LookAtSession,
       PickNothing, PickJob, Requeue, StartJob, Generate, Finish, TidyUp, EndJob, RecycleFree,
       RecycleLoad, RecycleFails, ArbiterStep, HandlerStep

LEMMA LanesTypeStep ==
  ASSUME LanesTypeOK, SharedInv', SharedInv, [Next]_vars
  PROVE  LanesTypeOK'
  <1> USE LanesAssumption DEF LanesTypeOK, SharedInv, CallersInv, Phases, Handlers
  <1>1. CASE UNCHANGED vars
    BY <1>1 DEF vars, queueVars, voiceVars, knobVars
  <1>2. CASE WorkerStep
    BY <1>2 DEF WorkerStep, LookAtSession, PickNothing, PickJob, Requeue, StartJob, Generate,
       Finish, TidyUp, EndJob, RecycleFree, RecycleLoad, RecycleFails, voiceVars, knobVars
  <1>3. ASSUME NEW c \in Callers, ArbiterStep(c) PROVE LanesTypeOK'
    BY <1>3 DEF ArbiterStep, voiceVars, queueVars
  <1>4. ASSUME NEW c \in Clients, HandlerStep(c) PROVE LanesTypeOK'
    BY <1>4 DEF HandlerStep, Respond, OpenSession, SessionOpened, queueVars, voiceVars, knobVars
  <1>5. ASSUME NEW c \in Clients, FreeGpu(c) \/ SetConfig(c) \/ StartSession(c)
        PROVE  LanesTypeOK'
    BY <1>5 DEF FreeGpu, SetConfig, StartSession, queueVars, voiceVars, knobVars
  <1>6. CASE StopSession
    BY <1>6 DEF StopSession, queueVars, knobVars
  <1> QED BY <1>1, <1>2, <1>3, <1>4, <1>5, <1>6 DEF Next

\* realtime.py, _SESSION_LOCK and the recheck under it: of the start requests that race
\* each other, past whatever jobs and frees are queued at the arbiter, one at most opens
\* a session, and only where none is live; and every lane keeps to its types.
THEOREM OneSessionStarts == Spec => []LanesAreSound
  <1>1. Init => LanesTypeOK /\ SessionInv
    <2>1. Init => TypeOK
      BY SharedInit DEF SharedInv
    <2> QED BY <2>1, LanesAssumption DEF Init, LanesTypeOK, SessionInv, Phases, Handlers, Clients
  <1>2. LanesTypeOK /\ SessionInv /\ SharedInv /\ SharedInv' /\ [Next]_vars
          => (LanesTypeOK /\ SessionInv)'
    BY SessionStep, LanesTypeStep
  <1>3. LanesTypeOK /\ SessionInv => LanesAreSound
    BY DEF SessionInv, LanesAreSound, OneSessionOpens
  <1> QED BY <1>1, <1>2, <1>3, SharedInvariance, PTL DEF Spec

\* worker.py, _run and the session check before it: a job may go on beside a live
\* session, but only the one that ran when it went live; while the session lives no
\* other job is started, by however many polls, recycles and requests.
THEOREM OnlySlippedJobOverlaps == Spec => []OneJobOverlaps
  <1>1. Init => OneJobOverlaps
    BY DEF Init, OneJobOverlaps
  <1>2. OneJobOverlaps /\ [Next]_vars => OneJobOverlaps'
    BY DEF OneJobOverlaps, Next, vars, queueVars, voiceVars, WorkerStep, LookAtSession, PickNothing,
       PickJob, Requeue, StartJob, Generate, Finish, TidyUp, EndJob, RecycleFree, RecycleLoad,
       RecycleFails, ArbiterStep, HandlerStep, Respond, OpenSession, SessionOpened, FreeGpu,
       SetConfig, StartSession, StopSession
  <1> QED BY <1>1, <1>2, PTL DEF Spec

\* Only the step of a call makes it return.
LEMMA ReturnsByItsStep ==
  ASSUME SharedInv, [Next]_vars, NEW c \in Callers, Returns(c)
  PROVE  Progress(c)
  <1> USE DEF SharedInv, Returns
  <1>1. call'[c] # call[c]
    OBVIOUS
  <1>2. ASSUME NEW d \in Callers, Progress(d) PROVE Progress(c)
    BY <1>1, <1>2, ProgressFacts
  <1>3. ASSUME NEW d \in Callers, FreeCall(d) \/ \E b \in Backends : EnsureCall(d, b) PROVE FALSE
    BY <1>1, <1>3, NewCallKeeps
  <1>4. CASE StartJob
    <2>1. EnsureCall(Worker, ModelOf[picked]) /\ ModelOf[picked] \in Backends /\ Worker \in Callers
      BY <1>4, LanesAssumption DEF StartJob, CallersInv
    <2> QED BY <2>1, <1>3
  <1>5. call' = call \/ StartJob \/ \E d \in Callers : Progress(d) \/ FreeCall(d)
    BY DEF Next, vars, arbiterVars, WorkerStep, LookAtSession, PickNothing, PickJob, Requeue, Generate,
       Finish, TidyUp, RecycleFree, RecycleLoad, RecycleFails, ArbiterStep, HandlerStep, Respond,
       OpenSession, SessionOpened, FreeGpu, SetConfig, StartSession, StopSession, Clients
  <1> QED BY <1>1, <1>2, <1>3, <1>4, <1>5

\* ensure's docstring, as far as it survives recycling: when the worker's ensure
\* returns, its model is the current one, and on the GPU; recycles, frees and session
\* starts that interleave cannot take it away before.
THEOREM EnsureStillDelivers == Spec => EnsureDelivers
  <1>1. ASSUME SharedInv, [Next]_vars, Returns(Worker)
        PROVE  current' = call[Worker].target /\ loaded'[call[Worker].target]
    <2> USE LanesAssumption DEF SharedInv
    <2>1. Progress(Worker)
      BY <1>1, ReturnsByItsStep
    <2>2. holder = Worker /\ call[Worker].op = "ensure" /\ call'[Worker].stage = "returned"
      BY <1>1, <2>1, ProgressFacts DEF Returns, CallersInv, Outside
    <2>3. ASSUME NEW stage \in Stages, GoTo(Worker, stage) PROVE stage = "returned"
      BY <1>1, <2>2, <2>3, GoToFacts
    <2>4. ASSUME NEW outcome \in Outside, Leave(Worker, outcome) PROVE outcome = "returned"
      BY <1>1, <2>2, <2>4, LeaveFacts
    <2>5. CASE EnsureEnter(Worker)
      BY <2>2, <2>3, <2>5 DEF EnsureEnter, modelVars, Stages, Inside
    <2>6. CASE EnsureCheck(Worker)
      BY <2>2, <2>3, <2>4, <2>6 DEF EnsureCheck, modelVars, Stages, Inside, Outside
    <2>7. CASE EnsureDone(Worker)
      BY <1>1, <2>7 DEF EnsureDone, StepInv, Suspended
    <2>8. CASE FreeEnter(Worker) \/ FreeDone(Worker)
      BY <1>1, <2>2, <2>8 DEF FreeEnter, FreeDone, StepInv, Suspended
    <2>9. CASE ParkDone(Worker) \/ LoadDone(Worker) \/ UnloadDone(Worker) \/ UnloadWarmDone(Worker)
      BY <2>2, <2>3, <2>9 DEF ParkDone, LoadDone, UnloadDone, UnloadWarmDone, Stages, Inside
    <2>10. CASE ParkFails(Worker) \/ LoadFails(Worker) \/ UnloadFails(Worker) \/ UnloadWarmFails(Worker)
      BY <2>4, <2>10 DEF ParkFails, LoadFails, UnloadFails, UnloadWarmFails, Outside
    <2> QED BY <2>1, <2>5, <2>6, <2>7, <2>8, <2>9, <2>10 DEF Progress
  <1>2. SharedInv /\ [Next]_vars =>
          [Returns(Worker) => current' = call[Worker].target /\ loaded'[call[Worker].target]]_vars
    BY <1>1
  <1> QED BY <1>2, SharedInvariance, PTL DEF Spec, EnsureDelivers

\* A step of a call hides no model that was in view.
LEMMA ProgressHidesNothing ==
  ASSUME SharedInv, NEW c \in Callers, Progress(c), NEW b \in Backends, ~Hidden(b)
  PROVE  ~Hidden(b)'
  <1> SUFFICES ASSUME loaded'[b]
               PROVE  \/ current' = b
                      \/ \E d \in Callers : Suspended(d, "profile")' /\ call'[d].target = b
    BY DEF Hidden
  <1> USE DEF SharedInv
  <1>1. holder = c
    BY ProgressFacts
  <1>2. CASE \E d \in Callers : Suspended(d, "profile") /\ call[d].target = b
    <2>1. Suspended(c, "profile") /\ call[c].target = b
      BY <1>1, <1>2 DEF Suspended
    <2>2. EnsureDone(c)
      BY <2>1 DEF Progress, EnsureEnter, ParkDone, ParkFails, EnsureCheck, LoadDone, LoadFails,
         FreeEnter, UnloadDone, UnloadFails, UnloadWarmDone, UnloadWarmFails, FreeDone, Suspended
    <2> QED BY <2>1, <2>2 DEF EnsureDone
  <1>3. CASE ~loaded[b]
    <2>1. LoadDone(c)
      BY <1>3 DEF TypeOK, Progress, EnsureEnter, ParkDone, ParkFails, EnsureCheck, LoadFails,
         EnsureDone, FreeEnter, UnloadDone, UnloadFails, UnloadWarmDone, UnloadWarmFails, FreeDone,
         Cleared, modelVars
    <2>2. call[c].target = b
      BY <1>3, <2>1 DEF LoadDone, TypeOK
    <2>3. call'[c].stage = "profile" /\ call'[c].target = call[c].target /\ holder' = c
      BY <1>1, <2>1, GoToFacts DEF LoadDone, Stages, Inside, lockVars
    <2> QED BY <2>2, <2>3 DEF Suspended
  <1>4. CASE loaded[b] /\ current = b
    <2>1. CASE UNCHANGED current
      BY <1>4, <2>1
    <2>2. CASE ParkDone(c) \/ UnloadDone(c)
      BY <1>4, <2>2 DEF ParkDone, UnloadDone, Cleared, TypeOK
    <2>3. CASE EnsureCheck(c) \/ EnsureDone(c)
      <3>1. current \in {NoBackend, call[c].target}
        BY <2>3 DEF EnsureCheck, EnsureDone, StepInv, Suspended
      <3>2. current = call[c].target
        BY <1>4, <3>1, ArbiterAssumption
      <3> QED BY <1>4, <2>3, <3>2 DEF EnsureCheck, EnsureDone, modelVars
    <2> QED BY <2>1, <2>2, <2>3 DEF Progress, EnsureEnter, ParkFails, LoadDone, LoadFails, FreeEnter,
         UnloadFails, UnloadWarmDone, UnloadWarmFails, FreeDone, modelVars
  <1> QED BY <1>2, <1>3, <1>4 DEF Hidden

\* image_diffusers.py, the reload at the end of a recycle: it is the only step of the
\* whole program after which a model is on the GPU where no swap and no free_all
\* would unload it.
THEOREM OnlyTheReloadHides == Spec => OnlyRecycleHides
  <1>1. ASSUME SharedInv, [Next]_vars, NEW b \in Backends, ~Hidden(b), Hidden(b)'
        PROVE  phase = "recycling" /\ phase' = "idle"
    <2> USE DEF SharedInv
    <2>1. CASE RecycleLoad
      BY <2>1 DEF RecycleLoad, EndJob
    <2>2. ASSUME NEW c \in Callers, Progress(c) PROVE FALSE
      BY <1>1, <2>2, ProgressHidesNothing
    <2>3. ASSUME NEW c \in Callers, FreeCall(c) \/ \E m \in Backends : EnsureCall(c, m) PROVE FALSE
      <3>1. /\ UNCHANGED modelVars /\ call[c].stage \in Outside
            /\ \A d \in Callers \ {c} : call'[d] = call[d]
        BY <1>1, <2>3, NewCallKeeps
      <3>2. holder # NoCaller => holder' = holder
        BY <2>3 DEF FreeCall, EnsureCall, Acquire
      <3>3. \A d \in Callers : Suspended(d, "profile") =>
              Suspended(d, "profile")' /\ call'[d] = call[d]
        BY <3>1, <3>2, ArbiterAssumption DEF Suspended, Outside
      <3> QED BY <1>1, <3>1, <3>3 DEF Hidden, modelVars
    <2>4. CASE RecycleFree
      BY <1>1, <2>4 DEF RecycleFree, Cleared, Hidden, TypeOK, Suspended, lockVars
    <2>5. CASE UNCHANGED arbiterVars
      BY <1>1, <2>5 DEF Hidden, Suspended, arbiterVars, modelVars, lockVars
    <2>6. CASE StartJob
      <3>1. EnsureCall(Worker, ModelOf[picked]) /\ ModelOf[picked] \in Backends /\ Worker \in Callers
        BY <2>6, LanesAssumption, <1>1 DEF StartJob, CallersInv
      <3> QED BY <3>1, <2>3
    <2>7. \/ UNCHANGED arbiterVars \/ StartJob \/ RecycleFree \/ RecycleLoad
          \/ \E c \in Callers : Progress(c) \/ FreeCall(c)
      BY <1>1 DEF Next, vars, WorkerStep, LookAtSession, PickNothing, PickJob, Requeue, Generate,
         Finish, TidyUp, RecycleFails, ArbiterStep, HandlerStep, Respond, OpenSession, SessionOpened,
         FreeGpu, SetConfig, StartSession, StopSession, Clients
    <2> QED BY <2>1, <2>2, <2>3, <2>4, <2>5, <2>6, <2>7
  <1>2. SharedInv /\ [Next]_vars =>
          [\A b \in Backends : ~Hidden(b) /\ Hidden(b)' => phase = "recycling" /\ phase' = "idle"]_vars
    BY <1>1
  <1> QED BY <1>2, SharedInvariance, PTL DEF Spec, OnlyRecycleHides
=============================================================================
