---------------------------- MODULE LlamaServer ----------------------------
(***************************************************************************)
(* The llama-server processes behind the LLM backends: load, the health     *)
(* check, the stream of a chat, unload, and what is left of them when the   *)
(* backend exits, is killed and starts again (llm_llamacpp.py, pidfiles.py, *)
(* main.py).                                                                *)
(* Loads and unloads are calls of the arbiter, one at a time, with at most  *)
(* one LLM loaded (OneResident of GpuArbiter). The stream is not: free_all  *)
(* may end a server in the middle of an answer.                             *)
(***************************************************************************)
EXTENDS Naturals

CONSTANTS LLMs,     \* LLM backends
          Pids,     \* process ids; a process is started while one is unused
          NoLLM, NoPid,
          MaxExits  \* bound: times the backend is killed

ASSUME ServerAssumption ==
  /\ NoLLM \notin LLMs /\ NoPid \notin Pids
  /\ MaxExits \in Nat

VARIABLES os,       \* os[p]: the life of process p
          pidfile,  \* the pid in data/runtime/llama-server.pid
          app,      \* the backend process
          exits,    \* times it was killed
          loaded,   \* loaded[b]: _loaded
          proc,     \* proc[b]: _proc
          call,     \* the load or unload under way, and the await it is at
          chat,     \* the worker's chat job: its backend, the process it streams from
          recorded, \* history: the pids that were ever in the pidfile
          spared    \* history: servers the reaper could not identify

osVars == <<os, pidfile, recorded, spared>>
appVars == <<app, exits>>
backendVars == <<loaded, proc, call>>
vars == <<osVars, appVars, backendVars, chat>>

NoCall == [stage |-> "none", of |-> NoLLM]
NoChat == [stage |-> "none", of |-> NoLLM, from |-> NoPid]

Alive == {p \in Pids : os[p] \in {"starting", "serving"}}

\* Who answers on the port: a second server cannot bind it.
Serving == {p \in Pids : os[p] = "serving"}

Init ==
  /\ os = [p \in Pids |-> "unused"]
  /\ pidfile = NoPid
  /\ app = "boot" /\ exits = 0
  /\ loaded = [b \in LLMs |-> FALSE]
  /\ proc = [b \in LLMs |-> NoPid]
  /\ call = NoCall /\ chat = NoChat
  /\ recorded = {} /\ spared = {}

------------------------------------------------------------------------------
(* The operating system *)

Listen(p) ==
  /\ os[p] = "starting" /\ Serving = {}
  /\ os' = [os EXCEPT ![p] = "serving"]
  /\ UNCHANGED <<pidfile, recorded, spared, appVars, backendVars, chat>>

\* The port is taken, the model does not fit, the process was told to, or it crashed.
ServerExits(p) ==
  /\ p \in Alive
  /\ os' = [os EXCEPT ![p] = "gone"]
  /\ UNCHANGED <<pidfile, recorded, spared, appVars, backendVars, chat>>

------------------------------------------------------------------------------
(* load *)

Idle == app = "up" /\ chat = NoChat /\ call = NoCall

EnsureLoaded(b) ==
  /\ Idle /\ loaded[b]
  /\ chat' = [NoChat EXCEPT !.stage = "ready", !.of = b]
  /\ UNCHANGED <<osVars, appVars, backendVars>>

Spawn(b) ==
  \E p \in Pids :
    /\ os[p] = "unused"
    /\ os' = [os EXCEPT ![p] = "starting"]
    /\ proc' = [proc EXCEPT ![b] = p]
    /\ call' = [stage |-> "spawned", of |-> b]
    /\ chat' = [NoChat EXCEPT !.stage = "loading", !.of = b]
    /\ UNCHANGED <<pidfile, recorded, spared, appVars, loaded>>

\* Mutant: another LLM is not unloaded first.
StartBeside(b) == Idle /\ ~loaded[b] /\ Spawn(b)

\* _start_server, whose preflight changes nothing when it fails.
StartServer(b) == Idle /\ (\A x \in LLMs : ~loaded[x]) /\ Spawn(b)

WritePidfile ==
  /\ call.stage = "spawned"
  /\ pidfile' = proc[call.of]
  /\ recorded' = recorded \union {proc[call.of]}
  /\ call' = [call EXCEPT !.stage = "waiting"]
  /\ UNCHANGED <<os, spared, appVars, loaded, proc, chat>>

\* An exception before the try block: the server stays behind.
WritePidfileFails ==
  /\ call.stage = "spawned"
  /\ call' = NoCall /\ chat' = NoChat
  /\ UNCHANGED <<osVars, appVars, loaded, proc>>

\* GET /health says 200, whoever it was that answered.
ServerHealthy ==
  /\ call.stage = "waiting" /\ Serving # {}
  /\ loaded' = [loaded EXCEPT ![call.of] = TRUE]
  /\ call' = NoCall
  /\ chat' = [chat EXCEPT !.stage = "ready"]
  /\ UNCHANGED <<osVars, appVars, proc>>

\* The process has exited, or is not healthy at the deadline.
GiveUp ==
  /\ call.stage = "waiting"
  /\ call' = [call EXCEPT !.stage = "terminating"]
  /\ UNCHANGED <<osVars, appVars, loaded, proc, chat>>

------------------------------------------------------------------------------
(* unload and _cleanup_process *)

\* Mutant: the pidfile is removed first.
UnloadRemovesFirst(b) ==
  /\ app \in {"up", "stopping"} /\ call = NoCall /\ loaded[b]
  /\ call' = [stage |-> "terminating", of |-> b]
  /\ pidfile' = NoPid
  /\ UNCHANGED <<os, recorded, spared, appVars, loaded, proc, chat>>

\* For another model, for free_all, or in Worker.stop.
Unload(b) ==
  /\ app \in {"up", "stopping"} /\ call = NoCall /\ loaded[b]
  /\ call' = [stage |-> "terminating", of |-> b]
  /\ UNCHANGED <<osVars, appVars, loaded, proc, chat>>

\* Mutant: a server that ignores terminate() is waited for.
KillNever == call.stage = "killing" /\ UNCHANGED vars

\* The 10 s are over.
Kill ==
  /\ call.stage = "terminating" /\ proc[call.of] \in Alive
  /\ os' = [os EXCEPT ![proc[call.of]] = "gone"]
  /\ UNCHANGED <<pidfile, recorded, spared, appVars, backendVars, chat>>

Forget ==
  /\ pidfile' = NoPid
  /\ proc' = [proc EXCEPT ![call.of] = NoPid]
  /\ loaded' = [loaded EXCEPT ![call.of] = FALSE]
  /\ call' = NoCall
  /\ chat' = IF chat.stage = "loading" THEN NoChat ELSE chat
  /\ UNCHANGED <<os, recorded, spared, appVars>>

\* wait() has returned.
CleanUp == call.stage = "terminating" /\ proc[call.of] \notin Alive /\ Forget

------------------------------------------------------------------------------
(* complete *)

\* The request goes to the port, or finds nobody there.
StartStream ==
  /\ chat.stage = "ready"
  /\ \/ \E p \in Serving : chat' = [chat EXCEPT !.stage = "streaming", !.from = p]
     \/ Serving = {} /\ chat' = NoChat
  /\ UNCHANGED <<osVars, appVars, backendVars>>

\* The answer is complete, was stopped, or broke off.
EndStream ==
  /\ chat.stage = "streaming"
  /\ chat' = NoChat
  /\ UNCHANGED <<osVars, appVars, backendVars>>

------------------------------------------------------------------------------
(* lifespan *)

\* reap_pidfile: _terminate...
Reap ==
  /\ app = "boot" /\ pidfile \in Alive
  /\ os' = [os EXCEPT ![pidfile] = "gone"]
  /\ UNCHANGED <<pidfile, recorded, spared, appVars, backendVars, chat>>

\* ... then remove_pidfile, unless the pid belongs to another program by now.
ReapDone ==
  /\ app = "boot" /\ pidfile \notin Alive
  /\ pidfile' \in {NoPid, pidfile}
  /\ app' = "up"
  /\ UNCHANGED <<os, recorded, spared, exits, backendVars, chat>>

\* The name of the process cannot be read.
ReapSpares ==
  /\ app = "boot" /\ pidfile \in Alive
  /\ spared' = spared \union {pidfile}
  /\ app' = "up"
  /\ UNCHANGED <<os, pidfile, recorded, exits, backendVars, chat>>

\* What a process that ends forgets.
Reset ==
  /\ loaded' = [b \in LLMs |-> FALSE]
  /\ proc' = [b \in LLMs |-> NoPid]
  /\ call' = NoCall /\ chat' = NoChat

\* Worker.stop: the worker's task has ended, free_all...
Stop ==
  /\ app = "up" /\ chat = NoChat
  /\ app' = "stopping"
  /\ UNCHANGED <<osVars, exits, backendVars, chat>>

\* ... has returned.
Stopped ==
  /\ app = "stopping" /\ call = NoCall /\ \A b \in LLMs : ~loaded[b]
  /\ app' = "stopped"
  /\ Reset
  /\ UNCHANGED <<osVars, exits>>

\* The backend is killed, or stops without free_all since the worker's task has died.
Exit ==
  /\ app \in {"boot", "up", "stopping"} /\ exits < MaxExits
  /\ exits' = exits + 1
  /\ app' = "killed"
  /\ Reset
  /\ UNCHANGED osVars

Start ==
  /\ app \in {"stopped", "killed"}
  /\ app' = "boot"
  /\ UNCHANGED <<osVars, exits, backendVars, chat>>

------------------------------------------------------------------------------

\* What the backend does next by itself.
CallStep == WritePidfile \/ WritePidfileFails \/ ServerHealthy \/ GiveUp \/ Kill \/ CleanUp

Next ==
  \/ \E p \in Pids : Listen(p) \/ ServerExits(p)
  \/ \E b \in LLMs : EnsureLoaded(b) \/ StartServer(b) \/ Unload(b)
  \/ CallStep
  \/ StartStream \/ EndStream
  \/ Reap \/ ReapDone \/ ReapSpares
  \/ Stop \/ Stopped \/ Exit \/ Start

Spec == Init /\ [][Next]_vars

\* The health check has a deadline of 120 s, terminate() one of 10 s before kill().
FairSpec == Spec /\ WF_vars(CallStep)

------------------------------------------------------------------------------
(* Properties *)

\* The types of processes, backends and what the backend remembers of them.
ServerTypeOK ==
  /\ os \in [Pids -> {"unused", "starting", "serving", "gone"}]
  /\ pidfile \in Pids \union {NoPid}
  /\ recorded \subseteq Pids /\ spared \subseteq Pids
  /\ app \in {"boot", "up", "stopping", "stopped", "killed"} /\ exits \in 0..MaxExits
  /\ loaded \in [LLMs -> BOOLEAN] /\ proc \in [LLMs -> Pids \union {NoPid}]
  /\ call \in {NoCall} \union [stage : {"spawned", "waiting", "terminating"}, of : LLMs]
  /\ chat \in {NoChat} \union [stage : {"loading", "ready"}, of : LLMs, from : {NoPid}]
                       \union [stage : {"streaming"}, of : LLMs, from : Pids]

\* A server that nobody can find: its pid was never written, or could not be checked.
Stray(p) == p \notin recorded \/ p \in spared

\* While the backend is up, every server belongs to the loaded LLM or to the load or
\* unload under way: swaps, failed loads and restarts leave none behind, and none when
\* the backend has stopped (_cleanup_process, Worker.stop, reap_known_pidfiles).
ServersAreHeld ==
  app \in {"up", "stopping", "stopped"} =>
    \A p \in Alive : Stray(p) \/ \E b \in LLMs : proc[b] = p /\ (loaded[b] \/ call.of = b)

\* Whenever the backend may be killed, the pidfile names the server that then survives,
\* so that the next start finds it: write_pidfile and remove_pidfile are around it.
CrashIsRepairable == \A p \in Alive : Stray(p) \/ pidfile = p

\* No llama-server is lost: the running backend holds it, and the pidfile names it for
\* the next one, at whichever await the backend is killed.
ServersAreSound == ServerTypeOK /\ ServersAreHeld /\ CrashIsRepairable

\* A chat is answered by the process of its own backend, although neither the health
\* check nor complete() asks who answers on the port.
AnswersAreOwn ==
  [][chat'.stage = "streaming" /\ chat.stage # "streaming" =>
       chat'.from = proc[chat.of] \/ Stray(chat'.from)]_vars

\* Every load and unload ends, also with a server that hangs.
ServerCallsEnd == call.stage # "none" ~> call.stage = "none"
=============================================================================
