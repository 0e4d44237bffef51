------------------------- MODULE LlamaServerProofs -------------------------
(***************************************************************************)
(* What LlamaServer keeps for any LLMs, any number of processes and kills:  *)
(* no server is lost, none survives a kill unrecorded, and no chat is       *)
(* answered by the process of another backend.                              *)
(***************************************************************************)
EXTENDS LlamaServer, TLAPS

Up == app \in {"up", "stopping"}

\* A process that was never started is known to nobody.
UnusedInv ==
  \A p \in Pids : os[p] = "unused" => p \notin recorded /\ \A b \in LLMs : proc[b] # p

\* What a call may rely on: before the pidfile is written its process is not
\* recorded, afterwards the pidfile names it; no other LLM is loaded.
CallInv ==
  call.stage # "none" =>
    /\ Up
    /\ proc[call.of] \in Pids
    /\ call.stage = "spawned" => proc[call.of] \notin recorded
    /\ call.stage # "spawned" => proc[call.of] = pidfile
    /\ call.stage # "terminating" => ~loaded[call.of]
    /\ \A b \in LLMs : b # call.of => ~loaded[b]

\* A loaded LLM is the only one, and its process is the one in the pidfile.
LoadedInv ==
  \A b \in LLMs : loaded[b] =>
    /\ Up
    /\ proc[b] \in Pids /\ proc[b] = pidfile
    /\ \A a \in LLMs : loaded[a] => a = b

\* A backend that is not running remembers nothing.
MemoryInv ==
  ~Up => proc = [b \in LLMs |-> NoPid] /\ call = NoCall /\ chat = NoChat

\* The job that waits for a load is its caller; while a chat is ready or streams, no
\* other LLM than its own is loaded or being loaded.
ChatInv ==
  /\ call.stage \in {"spawned", "waiting"} => chat.stage = "loading"
  /\ chat.stage = "loading" => call.stage # "none" /\ call.of = chat.of
  /\ chat.stage \in {"ready", "streaming"} =>
       \A b \in LLMs : b # chat.of => ~loaded[b] /\ call.of # b

ServerInv ==
  /\ ServerTypeOK
  /\ UnusedInv /\ CallInv /\ LoadedInv /\ MemoryInv /\ ChatInv
  /\ ServersAreHeld /\ CrashIsRepairable

ChatRecords == [stage : {"none", "loading", "ready", "streaming"},
                of : LLMs \union {NoLLM}, from : Pids \union {NoPid}]

\* The type of chat, as one set of records.
LEMMA ChatIsRecord ==
  ServerTypeOK => chat \in ChatRecords /\ (chat.stage # "none" => chat.of \in LLMs)
<1> SUFFICES ASSUME ServerTypeOK
             PROVE  chat \in ChatRecords /\ (chat.stage # "none" => chat.of \in LLMs)
  OBVIOUS
<1>1. CASE chat = NoChat
  BY <1>1 DEF NoChat, ChatRecords
<1>2. CASE chat \in [stage : {"loading", "ready"}, of : LLMs, from : {NoPid}]
  BY <1>2 DEF ChatRecords
<1>3. CASE chat \in [stage : {"streaming"}, of : LLMs, from : Pids]
  BY <1>3 DEF ChatRecords
<1> QED BY <1>1, <1>2, <1>3 DEF ServerTypeOK

\* A backend that was never started has no servers to lose.
LEMMA InitServerInv ==
  Init => ServerInv
  BY ServerAssumption DEF Init, ServerInv, ServerTypeOK, UnusedInv, CallInv, LoadedInv,
     MemoryInv, ChatInv, ServersAreHeld, CrashIsRepairable, Up, Alive, NoCall, NoChat, Stray

\* A step that changes nothing.
LEMMA StutterKeeps ==
  ASSUME ServerInv, UNCHANGED vars
  PROVE  ServerInv'
  BY DEF ServerInv, ServerTypeOK, UnusedInv, CallInv, LoadedInv,
     MemoryInv, ChatInv, ServersAreHeld, CrashIsRepairable, Up, Alive, NoCall, NoChat, Stray,
     vars, osVars, appVars, backendVars

\* A process comes or goes by itself, or is told to: Alive never grows.
LEMMA ProcessKeeps ==
  ASSUME ServerInv, NEW p \in Pids, p \in Alive,
         \/ os' = [os EXCEPT ![p] = "serving"]
         \/ os' = [os EXCEPT ![p] = "gone"],
         UNCHANGED <<pidfile, recorded, spared, appVars, backendVars, chat>>
  PROVE  ServerInv'
<1>1. Alive' \subseteq Alive /\ \A q \in Pids : os'[q] = "unused" => os[q] = "unused"
  BY DEF ServerInv, ServerTypeOK, Alive
<1>2. ServerTypeOK'
  BY DEF ServerInv, ServerTypeOK, NoCall, NoChat, appVars, backendVars
<1>3. (UnusedInv /\ CallInv /\ LoadedInv /\ MemoryInv /\ ChatInv)'
  BY <1>1 DEF ServerInv, UnusedInv, CallInv, LoadedInv, MemoryInv, ChatInv, Up, NoCall, NoChat,
     appVars, backendVars
<1>4. (ServersAreHeld /\ CrashIsRepairable)'
  BY <1>1 DEF ServerInv, ServersAreHeld, CrashIsRepairable, Stray, appVars, backendVars
<1> QED BY <1>2, <1>3, <1>4 DEF ServerInv

\* The loaded LLM is the only one, so a chat that uses it has no other.
LEMMA EnsureLoadedKeeps ==
  ASSUME ServerInv, NEW b \in LLMs, EnsureLoaded(b)
  PROVE  ServerInv'
<1> USE ServerAssumption DEF NoCall, NoChat, osVars, appVars, backendVars
<1>1. ServerTypeOK'
  BY DEF ServerInv, ServerTypeOK, CallInv, EnsureLoaded, Idle
<1>2. UnusedInv' /\ CallInv' /\ LoadedInv'
  BY DEF ServerInv, ServerTypeOK, UnusedInv, CallInv, LoadedInv, ChatInv, Up, EnsureLoaded, Idle
<1>3. MemoryInv' /\ ChatInv'
  BY DEF ServerInv, ServerTypeOK, CallInv, LoadedInv, MemoryInv, ChatInv, Up, EnsureLoaded, Idle
<1>4. ServersAreHeld' /\ CrashIsRepairable'
  BY DEF ServerInv, ServerTypeOK, UnusedInv, CallInv, LoadedInv, MemoryInv, ServersAreHeld,
     CrashIsRepairable, Up, Alive, Stray, EnsureLoaded, Idle
<1> QED BY <1>1, <1>2, <1>3, <1>4 DEF ServerInv

\* The new process is not recorded yet, and nothing else is alive unless it is lost.
LEMMA StartServerKeeps ==
  ASSUME ServerInv, NEW b \in LLMs, StartServer(b)
  PROVE  ServerInv'
<1> USE ServerAssumption DEF NoCall, NoChat, osVars, appVars, backendVars
<1> PICK p \in Pids :
      /\ os[p] = "unused" /\ os' = [os EXCEPT ![p] = "starting"]
      /\ proc' = [proc EXCEPT ![b] = p]
  BY DEF StartServer, Spawn
<1>1. /\ app = "up" /\ call = NoCall /\ \A x \in LLMs : ~loaded[x]
      /\ call' = [stage |-> "spawned", of |-> b]
      /\ chat' = [stage |-> "loading", of |-> b, from |-> NoPid]
      /\ UNCHANGED <<pidfile, recorded, spared, appVars, loaded>>
  BY DEF StartServer, Spawn, Idle
<1>2. ServerTypeOK'
  BY <1>1 DEF ServerInv, ServerTypeOK
<1>3. UnusedInv' /\ CallInv' /\ LoadedInv'
  BY <1>1 DEF ServerInv, ServerTypeOK, UnusedInv, CallInv, LoadedInv, Up
<1>4. MemoryInv' /\ ChatInv'
  BY <1>1 DEF MemoryInv, ChatInv, Up
<1>5. ServersAreHeld' /\ CrashIsRepairable'
  BY <1>1 DEF ServerInv, ServerTypeOK, UnusedInv, ServersAreHeld, CrashIsRepairable, Alive,
     Stray
<1> QED BY <1>2, <1>3, <1>4, <1>5 DEF ServerInv

\* Nothing recorded is alive while nothing is loaded, so no pid is lost.
LEMMA WritePidfileKeeps ==
  ASSUME ServerInv, WritePidfile
  PROVE  ServerInv'
<1> USE ServerAssumption DEF NoCall, NoChat, osVars, appVars, backendVars
<1>1. ServerTypeOK'
  BY DEF ServerInv, ServerTypeOK, CallInv, WritePidfile
<1>2. UnusedInv' /\ CallInv' /\ LoadedInv'
  BY DEF ServerInv, ServerTypeOK, UnusedInv, CallInv, LoadedInv, ChatInv, Up, WritePidfile
<1>3. MemoryInv' /\ ChatInv'
  BY DEF ServerInv, ServerTypeOK, CallInv, LoadedInv, MemoryInv, ChatInv, Up, WritePidfile
<1>4. ServersAreHeld' /\ CrashIsRepairable'
  BY DEF ServerInv, ServerTypeOK, UnusedInv, CallInv, LoadedInv, MemoryInv, ServersAreHeld,
     CrashIsRepairable, Up, Alive, Stray, WritePidfile
<1> QED BY <1>1, <1>2, <1>3, <1>4 DEF ServerInv

\* The server that stays behind was never recorded.
LEMMA WritePidfileFailsKeeps ==
  ASSUME ServerInv, WritePidfileFails
  PROVE  ServerInv'
<1> USE ServerAssumption DEF NoCall, NoChat, osVars, appVars, backendVars
<1>1. ServerTypeOK'
  BY DEF ServerInv, ServerTypeOK, CallInv, WritePidfileFails
<1>2. UnusedInv' /\ CallInv' /\ LoadedInv'
  BY DEF ServerInv, ServerTypeOK, UnusedInv, CallInv, LoadedInv, ChatInv, Up, WritePidfileFails
<1>3. MemoryInv' /\ ChatInv'
  BY DEF ServerInv, ServerTypeOK, CallInv, LoadedInv, MemoryInv, ChatInv, Up, WritePidfileFails
<1>4. ServersAreHeld' /\ CrashIsRepairable'
  BY DEF ServerInv, ServerTypeOK, UnusedInv, CallInv, LoadedInv, MemoryInv, ServersAreHeld,
     CrashIsRepairable, Up, Alive, Stray, WritePidfileFails
<1> QED BY <1>1, <1>2, <1>3, <1>4 DEF ServerInv

\* The LLM that becomes loaded is the one whose process the pidfile names.
LEMMA ServerHealthyKeeps ==
  ASSUME ServerInv, ServerHealthy
  PROVE  ServerInv'
<1> USE ServerAssumption DEF NoCall, NoChat, osVars, appVars, backendVars
<1>1. ServerTypeOK'
  BY DEF ServerInv, ServerTypeOK, CallInv, ChatInv, ServerHealthy
<1>2. UnusedInv' /\ CallInv' /\ LoadedInv'
  BY DEF ServerInv, ServerTypeOK, UnusedInv, CallInv, LoadedInv, ChatInv, Up, ServerHealthy
<1>3. MemoryInv' /\ ChatInv'
  BY DEF ServerInv, ServerTypeOK, CallInv, LoadedInv, MemoryInv, ChatInv, Up, ServerHealthy
<1>4. ServersAreHeld' /\ CrashIsRepairable'
  BY DEF ServerInv, ServerTypeOK, UnusedInv, CallInv, LoadedInv, MemoryInv, ServersAreHeld,
     CrashIsRepairable, Up, Alive, Stray, ServerHealthy
<1> QED BY <1>1, <1>2, <1>3, <1>4 DEF ServerInv

\* A failed load holds its process until it has ended.
LEMMA GiveUpKeeps ==
  ASSUME ServerInv, GiveUp
  PROVE  ServerInv'
<1> USE ServerAssumption DEF NoCall, NoChat, osVars, appVars, backendVars
<1>1. ServerTypeOK'
  BY DEF ServerInv, ServerTypeOK, CallInv, GiveUp
<1>2. UnusedInv' /\ CallInv' /\ LoadedInv'
  BY DEF ServerInv, ServerTypeOK, UnusedInv, CallInv, LoadedInv, ChatInv, Up, GiveUp
<1>3. MemoryInv' /\ ChatInv'
  BY DEF ServerInv, ServerTypeOK, CallInv, LoadedInv, MemoryInv, ChatInv, Up, GiveUp
<1>4. ServersAreHeld' /\ CrashIsRepairable'
  BY DEF ServerInv, ServerTypeOK, UnusedInv, CallInv, LoadedInv, MemoryInv, ServersAreHeld,
     CrashIsRepairable, Up, Alive, Stray, GiveUp
<1> QED BY <1>1, <1>2, <1>3, <1>4 DEF ServerInv

\* The process that is about to be ended is the one in the pidfile.
LEMMA UnloadKeeps ==
  ASSUME ServerInv, NEW b \in LLMs, Unload(b)
  PROVE  ServerInv'
<1> USE ServerAssumption DEF NoCall, NoChat, osVars, appVars, backendVars
<1>1. ServerTypeOK'
  BY DEF ServerInv, ServerTypeOK, CallInv, Unload
<1>2. UnusedInv' /\ CallInv' /\ LoadedInv'
  BY DEF ServerInv, ServerTypeOK, UnusedInv, CallInv, LoadedInv, ChatInv, Up, Unload
<1>3. MemoryInv' /\ ChatInv'
  BY DEF ServerInv, ServerTypeOK, CallInv, LoadedInv, MemoryInv, ChatInv, Up, Unload
<1>4. ServersAreHeld' /\ CrashIsRepairable'
  BY DEF ServerInv, ServerTypeOK, UnusedInv, CallInv, LoadedInv, MemoryInv, ServersAreHeld,
     CrashIsRepairable, Up, Alive, Stray, Unload
<1> QED BY <1>1, <1>2, <1>3, <1>4 DEF ServerInv

\* The process has ended, and no other LLM is loaded: nothing alive is recorded.
LEMMA CleanUpKeeps ==
  ASSUME ServerInv, CleanUp
  PROVE  ServerInv'
<1> USE ServerAssumption DEF NoCall, NoChat, osVars, appVars, backendVars
<1>1. ServerTypeOK'
  BY DEF ServerInv, ServerTypeOK, CallInv, CleanUp, Forget
<1>2. UnusedInv' /\ CallInv' /\ LoadedInv'
  BY DEF ServerInv, ServerTypeOK, UnusedInv, CallInv, LoadedInv, ChatInv, Up, CleanUp, Forget
<1>3. MemoryInv' /\ ChatInv'
  BY DEF ServerInv, ServerTypeOK, CallInv, LoadedInv, MemoryInv, ChatInv, Up, CleanUp, Forget
<1>4. ServersAreHeld' /\ CrashIsRepairable'
  BY DEF ServerInv, ServerTypeOK, UnusedInv, CallInv, LoadedInv, MemoryInv, ServersAreHeld,
     CrashIsRepairable, Up, Alive, Stray, CleanUp, Forget
<1> QED BY <1>1, <1>2, <1>3, <1>4 DEF ServerInv

\* A stream begins and ends without touching processes.
LEMMA StreamKeeps ==
  ASSUME ServerInv, StartStream \/ EndStream
  PROVE  ServerInv'
<1> USE ServerAssumption DEF NoCall, NoChat, osVars, appVars, backendVars
<1>0. /\ chat.stage \in {"ready", "streaming"} /\ chat.of \in LLMs
      /\ chat = [stage |-> chat.stage, of |-> chat.of, from |-> chat.from]
      /\ UNCHANGED <<osVars, appVars, backendVars>>
  BY ChatIsRecord DEF ServerInv, ChatRecords, StartStream, EndStream
<1>1. \/ chat' = NoChat
      \/ \E p \in Pids : chat' = [stage |-> "streaming", of |-> chat.of, from |-> p]
  <2>1. CASE EndStream
    BY <2>1 DEF EndStream
  <2>2. ASSUME NEW p \in Pids, chat' = [chat EXCEPT !.stage = "streaming", !.from = p]
        PROVE  chat' = [stage |-> "streaming", of |-> chat.of, from |-> p]
    BY <1>0, <2>2
  <2> QED BY <2>1, <2>2 DEF StartStream, Serving
<1>2. ServerTypeOK'
  BY <1>0, <1>1 DEF ServerInv, ServerTypeOK
<1>3. UnusedInv' /\ CallInv' /\ LoadedInv'
  BY <1>0, <1>1 DEF ServerInv, UnusedInv, CallInv, LoadedInv, Up
<1>4. MemoryInv' /\ ChatInv'
  BY <1>0, <1>1 DEF ServerInv, MemoryInv, ChatInv, Up
<1>5. ServersAreHeld' /\ CrashIsRepairable'
  BY <1>0, <1>1 DEF ServerInv, ServersAreHeld, CrashIsRepairable, Alive, Stray
<1> QED BY <1>2, <1>3, <1>4, <1>5 DEF ServerInv

\* The one survivor that could be found is gone: the backend is up with nothing alive but strays.
LEMMA ReapDoneKeeps ==
  ASSUME ServerInv, ReapDone
  PROVE  ServerInv'
<1> USE ServerAssumption DEF NoCall, NoChat, osVars, appVars, backendVars
<1>1. ServerTypeOK'
  BY DEF ServerInv, ServerTypeOK, CallInv, ReapDone
<1>2. UnusedInv' /\ CallInv' /\ LoadedInv'
  BY DEF ServerInv, ServerTypeOK, UnusedInv, CallInv, LoadedInv, ChatInv, Up, ReapDone
<1>3. MemoryInv' /\ ChatInv'
  BY DEF ServerInv, ServerTypeOK, CallInv, LoadedInv, MemoryInv, ChatInv, Up, ReapDone
<1>4. ServersAreHeld' /\ CrashIsRepairable'
  BY DEF ServerInv, ServerTypeOK, UnusedInv, CallInv, LoadedInv, MemoryInv, ServersAreHeld,
     CrashIsRepairable, Up, Alive, Stray, ReapDone
<1> QED BY <1>1, <1>2, <1>3, <1>4 DEF ServerInv

\* The survivor that could not be identified is counted as spared.
LEMMA ReapSparesKeeps ==
  ASSUME ServerInv, ReapSpares
  PROVE  ServerInv'
<1> USE ServerAssumption DEF NoCall, NoChat, osVars, appVars, backendVars
<1>1. ServerTypeOK'
  BY DEF ServerInv, ServerTypeOK, Alive, ReapSpares
<1>2. UnusedInv' /\ CallInv' /\ LoadedInv'
  BY DEF ServerInv, ServerTypeOK, UnusedInv, CallInv, LoadedInv, ChatInv, Up, ReapSpares
<1>3. MemoryInv' /\ ChatInv'
  BY DEF ServerInv, ServerTypeOK, CallInv, LoadedInv, MemoryInv, ChatInv, Up, ReapSpares
<1>4. ServersAreHeld' /\ CrashIsRepairable'
  BY DEF ServerInv, ServerTypeOK, UnusedInv, CallInv, LoadedInv, MemoryInv, ServersAreHeld,
     CrashIsRepairable, Up, Alive, Stray, ReapSpares
<1> QED BY <1>1, <1>2, <1>3, <1>4 DEF ServerInv

\* The backend stops only between two chats.
LEMMA StopKeeps ==
  ASSUME ServerInv, Stop
  PROVE  ServerInv'
<1> USE ServerAssumption DEF NoCall, NoChat, osVars, appVars, backendVars
<1>1. ServerTypeOK'
  BY DEF ServerInv, ServerTypeOK, CallInv, Stop
<1>2. UnusedInv' /\ CallInv' /\ LoadedInv'
  BY DEF ServerInv, ServerTypeOK, UnusedInv, CallInv, LoadedInv, ChatInv, Up, Stop
<1>3. MemoryInv' /\ ChatInv'
  BY DEF ServerInv, ServerTypeOK, CallInv, LoadedInv, MemoryInv, ChatInv, Up, Stop
<1>4. ServersAreHeld' /\ CrashIsRepairable'
  BY DEF ServerInv, ServerTypeOK, UnusedInv, CallInv, LoadedInv, MemoryInv, ServersAreHeld,
     CrashIsRepairable, Up, Alive, Stray, Stop
<1> QED BY <1>1, <1>2, <1>3, <1>4 DEF ServerInv

\* When free_all has returned, nothing is loaded and so nothing is held.
LEMMA StoppedKeeps ==
  ASSUME ServerInv, Stopped
  PROVE  ServerInv'
<1> USE ServerAssumption DEF NoCall, NoChat, osVars, appVars, backendVars
<1>1. ServerTypeOK'
  BY DEF ServerInv, ServerTypeOK, CallInv, Stopped, Reset
<1>2. UnusedInv' /\ CallInv' /\ LoadedInv'
  BY DEF ServerInv, ServerTypeOK, UnusedInv, CallInv, LoadedInv, ChatInv, Up, Stopped, Reset
<1>3. MemoryInv' /\ ChatInv'
  BY DEF ServerInv, ServerTypeOK, CallInv, LoadedInv, MemoryInv, ChatInv, Up, Stopped, Reset
<1>4. ServersAreHeld' /\ CrashIsRepairable'
  BY DEF ServerInv, ServerTypeOK, UnusedInv, CallInv, LoadedInv, MemoryInv, ServersAreHeld,
     CrashIsRepairable, Up, Alive, Stray, Stopped, Reset
<1> QED BY <1>1, <1>2, <1>3, <1>4 DEF ServerInv

\* A killed backend forgets everything; the pidfile does not.
LEMMA ExitKeeps ==
  ASSUME ServerInv, Exit
  PROVE  ServerInv'
<1> USE ServerAssumption DEF NoCall, NoChat, osVars, appVars, backendVars
<1>1. ServerTypeOK'
  BY DEF ServerInv, ServerTypeOK, CallInv, Exit, Reset
<1>2. UnusedInv' /\ CallInv' /\ LoadedInv'
  BY DEF ServerInv, ServerTypeOK, UnusedInv, CallInv, LoadedInv, ChatInv, Up, Exit, Reset
<1>3. MemoryInv' /\ ChatInv'
  BY DEF ServerInv, ServerTypeOK, CallInv, LoadedInv, MemoryInv, ChatInv, Up, Exit, Reset
<1>4. ServersAreHeld' /\ CrashIsRepairable'
  BY DEF ServerInv, ServerTypeOK, UnusedInv, CallInv, LoadedInv, MemoryInv, ServersAreHeld,
     CrashIsRepairable, Up, Alive, Stray, Exit, Reset
<1> QED BY <1>1, <1>2, <1>3, <1>4 DEF ServerInv

\* A new backend remembers nothing, and looks at the pidfile first.
LEMMA StartKeeps ==
  ASSUME ServerInv, Start
  PROVE  ServerInv'
<1> USE ServerAssumption DEF NoCall, NoChat, osVars, appVars, backendVars
<1>1. ServerTypeOK'
  BY DEF ServerInv, ServerTypeOK, CallInv, Start
<1>2. UnusedInv' /\ CallInv' /\ LoadedInv'
  BY DEF ServerInv, ServerTypeOK, UnusedInv, CallInv, LoadedInv, ChatInv, Up, Start
<1>3. MemoryInv' /\ ChatInv'
  BY DEF ServerInv, ServerTypeOK, CallInv, LoadedInv, MemoryInv, ChatInv, Up, Start
<1>4. ServersAreHeld' /\ CrashIsRepairable'
  BY DEF ServerInv, ServerTypeOK, UnusedInv, CallInv, LoadedInv, MemoryInv, ServersAreHeld,
     CrashIsRepairable, Up, Alive, Stray, Start
<1> QED BY <1>1, <1>2, <1>3, <1>4 DEF ServerInv

\* Every step keeps the invariant.
LEMMA ServerStep ==
  ServerInv /\ [Next]_vars => ServerInv'
<1> SUFFICES ASSUME ServerInv, [Next]_vars PROVE ServerInv'
  OBVIOUS
<1>1. ASSUME NEW p \in Pids, Listen(p) \/ ServerExits(p) PROVE ServerInv'
  <2>1. p \in Alive
    BY <1>1 DEF Listen, ServerExits, Alive
  <2> QED BY <1>1, <2>1, ProcessKeeps DEF Listen, ServerExits
<1>2. CASE Kill
  BY <1>2, ProcessKeeps DEF Kill, Alive
<1>3. CASE Reap
  BY <1>3, ProcessKeeps DEF Reap, Alive
<1>4. ASSUME NEW b \in LLMs, EnsureLoaded(b) \/ StartServer(b) \/ Unload(b) PROVE ServerInv'
  BY <1>4, EnsureLoadedKeeps, StartServerKeeps, UnloadKeeps
<1>5. CASE WritePidfile \/ WritePidfileFails \/ ServerHealthy \/ GiveUp \/ CleanUp
  BY <1>5, WritePidfileKeeps, WritePidfileFailsKeeps, ServerHealthyKeeps, GiveUpKeeps,
     CleanUpKeeps
<1>6. CASE StartStream \/ EndStream
  BY <1>6, StreamKeeps
<1>7. CASE ReapDone \/ ReapSpares \/ Stop \/ Stopped \/ Exit \/ Start
  BY <1>7, ReapDoneKeeps, ReapSparesKeeps, StopKeeps, StoppedKeeps, ExitKeeps, StartKeeps
<1>8. CASE UNCHANGED vars
  BY <1>8, StutterKeeps
<1> QED BY <1>1, <1>2, <1>3, <1>4, <1>5, <1>6, <1>7, <1>8 DEF Next, CallStep

\* The inductive invariant of the llama-server processes (llm_llamacpp.py, pidfiles.py).
THEOREM ServerInvHolds == Spec => []ServerInv
  BY InitServerInv, ServerStep, PTL DEF Spec

\* The types of LlamaServer's state are kept (llm_llamacpp.py, pidfiles.py).
THEOREM ServerTypes == Spec => []ServerTypeOK
  BY ServerInvHolds, PTL DEF ServerInv

\* Loads, failed loads, unloads, kills and restarts leave no server that its backend
\* does not hold (_start_server, _cleanup_process, Worker.stop, reap_pidfile).
THEOREM NoServerIsLost == Spec => []ServersAreHeld
  BY ServerInvHolds, PTL DEF ServerInv

\* Whenever the backend is killed, the pidfile names the server that survives
\* (write_pidfile, remove_pidfile).
THEOREM PidfileNamesSurvivor == Spec => []CrashIsRepairable
  BY ServerInvHolds, PTL DEF ServerInv

\* Whoever serves the port when a request is sent is held by the chat's own backend.
LEMMA StreamIsOwn ==
  ASSUME ServerInv, [Next]_vars, chat'.stage = "streaming", chat.stage # "streaming"
  PROVE  chat'.from = proc[chat.of] \/ Stray(chat'.from)
<1>0. chat \in ChatRecords /\ (chat.stage # "none" => chat.of \in LLMs)
  BY ChatIsRecord DEF ServerInv
<1>1. chat' # chat /\ chat' # NoChat
  BY DEF NoChat
<1>2. ~ServerHealthy
  BY <1>0 DEF ServerHealthy, ChatRecords
<1>3. ASSUME NEW b \in LLMs PROVE ~EnsureLoaded(b) /\ ~StartServer(b)
  <2>1. EnsureLoaded(b) => chat'.stage = "ready"
    BY DEF EnsureLoaded, NoChat
  <2>2. StartServer(b) => chat'.stage = "loading"
    BY DEF StartServer, Spawn, NoChat
  <2> QED BY <2>1, <2>2
<1>4. StartStream
  BY <1>1, <1>2, <1>3 DEF Next, CallStep, vars, Listen, ServerExits, Unload, WritePidfile,
     WritePidfileFails, GiveUp, Kill, CleanUp, Forget, EndStream, Reap, ReapDone, ReapSpares,
     Stop, Stopped, Exit, Start, Reset
<1>5. chat.stage = "ready" /\ chat'.from \in Serving
  BY <1>0, <1>1, <1>4 DEF StartStream, ChatRecords
<1>6. Up
  BY <1>5 DEF ServerInv, MemoryInv, NoChat
<1>7. \/ Stray(chat'.from)
      \/ \E b \in LLMs : proc[b] = chat'.from /\ (loaded[b] \/ call.of = b)
  BY <1>5, <1>6 DEF ServerInv, ServersAreHeld, Up, Alive, Serving
<1> QED BY <1>5, <1>7 DEF ServerInv, ChatInv

\* A chat is answered by its own backend's process, whoever else listens on the port
\* before, unless that process is one that nobody could find (_wait_healthy, complete).
THEOREM AnswersComeFromOwn == Spec => AnswersAreOwn
  BY ServerInvHolds, StreamIsOwn, PTL DEF Spec, AnswersAreOwn

\* No llama-server is lost, neither to the running backend nor to the next one.
THEOREM ServersStaySound == Spec => []ServersAreSound
  BY ServerTypes, NoServerIsLost, PidfileNamesSurvivor, PTL DEF ServersAreSound
=============================================================================
