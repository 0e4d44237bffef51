----------------------------- MODULE Documents -----------------------------
(***************************************************************************)
(* Documents and their search: the embedding llama-server that is started   *)
(* on demand behind an asyncio lock (embedding_service.py), the requests    *)
(* that index and delete documents (api/rag.py), and the search of a        *)
(* request or of the worker's document tool (rag_service.py).               *)
(* There is no pidfile: nobody reaps the server of a backend that was       *)
(* killed, and the worker is stopped after the service.                     *)
(***************************************************************************)
EXTENDS Naturals, Sequences

CONSTANTS EmbedModels,  \* GGUF files in models/embed
          Requests,     \* requests that index or search
          ToolWorker,   \* the worker, whose chat jobs search
          Lifespan,     \* the task that shuts the application down
          DocIds, EmbedPids,
          NoEmbedModel, NoServer,
          MaxRestarts   \* bound: backends that end

Searchers == Requests \union {ToolWorker}
Callers == Searchers \union {Lifespan}

ASSUME DocumentsAssumption ==
  /\ ToolWorker \notin Requests /\ Lifespan \notin Searchers
  /\ NoEmbedModel \notin EmbedModels /\ NoServer \notin EmbedPids
  /\ MaxRestarts \in Nat

VARIABLES server,    \* server[p]: the life of process p
          weights,   \* weights[p]: the model it was started with
          own,       \* _proc
          ownModel,  \* _model_id
          queue,     \* _lock: its holder, then who waits for it
          request,   \* request[c]: what c is doing, and the await it is at
          docs,      \* docs[d]: its model_id, and where its vectors come from
          shutdown,  \* what lifespan is at
          restarts,
          lost,      \* history: servers that outlived their backend
          late       \* history: servers started after the shutdown began

serverVars == <<server, weights, own, ownModel>>
docVars == <<serverVars, queue, request, docs, shutdown, restarts, lost, late>>

NoRequest == [stage |-> "idle", op |-> "none", model |-> NoEmbedModel, doc |-> {}]
NoDoc == [model |-> NoEmbedModel, from |-> NoEmbedModel]

Living == {p \in EmbedPids : server[p] \in {"starting", "serving"}}
Listening == {p \in EmbedPids : server[p] = "serving"}
Stored == {d \in DocIds : docs[d] # NoDoc}

DocInit ==
  /\ server = [p \in EmbedPids |-> "unused"]
  /\ weights = [p \in EmbedPids |-> NoEmbedModel]
  /\ own = NoServer /\ ownModel = NoEmbedModel
  /\ queue = <<>>
  /\ request = [c \in Callers |-> NoRequest]
  /\ docs = [d \in DocIds |-> NoDoc]
  /\ shutdown = "up" /\ restarts = 0
  /\ lost = {} /\ late = {}

------------------------------------------------------------------------------
(* The operating system *)

ServerListens(p) ==
  /\ server[p] = "starting" /\ Listening = {}
  /\ server' = [server EXCEPT ![p] = "serving"]
  /\ UNCHANGED <<weights, own, ownModel, queue, request, docs, shutdown, restarts, lost, late>>

\* The port is taken, the model does not load, or it crashed.
ServerEnds(p) ==
  /\ p \in Living
  /\ server' = [server EXCEPT ![p] = "gone"]
  /\ UNCHANGED <<weights, own, ownModel, queue, request, docs, shutdown, restarts, lost, late>>

------------------------------------------------------------------------------
(* embed *)

\* async with self._lock
Enqueue(c, op, m, ds) ==
  /\ request[c] = NoRequest
  /\ request' = [request EXCEPT ![c] = [stage |-> "queued", op |-> op, model |-> m, doc |-> ds]]
  /\ queue' = Append(queue, c)
  /\ UNCHANGED <<serverVars, docs, restarts, lost, late>>

Holds(c, stage) == queue # <<>> /\ Head(queue) = c /\ request[c].stage = stage
At(c, stage) == request' = [request EXCEPT ![c].stage = stage]

\* The call returns or raises, and releases the lock.
Leave(c) ==
  /\ request' = [request EXCEPT ![c] = NoRequest]
  /\ queue' = Tail(queue)

\* Mutant: any living server will do.
KeepAnyServer(c) ==
  /\ Holds(c, "queued") /\ request[c].op # "stop"
  /\ own \in Living
  /\ At(c, "posting")
  /\ UNCHANGED <<serverVars, queue, docs, shutdown, restarts, lost, late>>

\* _ensure_server_locked keeps a server of that model that has not exited.
KeepServer(c) ==
  /\ Holds(c, "queued") /\ request[c].op # "stop"
  /\ own \in Living /\ ownModel = request[c].model
  /\ At(c, "posting")
  /\ UNCHANGED <<serverVars, queue, docs, shutdown, restarts, lost, late>>

\* _stop_locked: terminate, after 8 s kill, and wait.
StopServer(c) ==
  /\ Holds(c, "queued")
  /\ request[c].op # "stop" => own \notin Living \/ ownModel # request[c].model
  /\ server' = IF own \in Living THEN [server EXCEPT ![own] = "gone"] ELSE server
  /\ own' = NoServer /\ ownModel' = NoEmbedModel
  /\ At(c, "starting")
  /\ UNCHANGED <<weights, queue, docs, shutdown, restarts, lost, late>>

StartServer(c) ==
  /\ Holds(c, "starting") /\ request[c].op # "stop"
  /\ \E p \in EmbedPids :
       /\ server[p] = "unused"
       /\ server' = [server EXCEPT ![p] = "starting"]
       /\ weights' = [weights EXCEPT ![p] = request[c].model]
       /\ own' = p /\ ownModel' = request[c].model
       /\ late' = IF shutdown = "up" THEN late ELSE late \union {p}
  /\ At(c, "waiting")
  /\ UNCHANGED <<queue, docs, shutdown, restarts, lost>>

\* _wait_healthy_locked: its own server has not exited, and somebody says 200.
Healthy(c) ==
  /\ Holds(c, "waiting") /\ own \in Living /\ Listening # {}
  /\ At(c, "posting")
  /\ UNCHANGED <<serverVars, queue, docs, shutdown, restarts, lost, late>>

\* No binary, a server that exits or is not healthy in time, an error or a timeout
\* of the request: _proc and _model_id stay as they are.
EmbedFails(c) ==
  /\ \/ Holds(c, "starting") /\ request[c].op # "stop"
     \/ Holds(c, "waiting")
     \/ Holds(c, "posting")
  /\ Leave(c)
  /\ UNCHANGED <<serverVars, docs, shutdown, restarts, lost, late>>

\* POST /v1/embeddings: whoever listens answers, whatever model was asked for. A
\* search has read its rows before; a document is committed with its chunks.
Answered(c) ==
  /\ Holds(c, "posting")
  /\ \E p \in Listening :
       docs' = [d \in DocIds |-> IF request[c].op = "index" /\ d \in request[c].doc
                                 THEN [model |-> request[c].model, from |-> weights[p]] ELSE docs[d]]
  /\ Leave(c)
  /\ UNCHANGED <<serverVars, shutdown, restarts, lost, late>>

------------------------------------------------------------------------------
(* api/rag.py, rag_service.py *)

\* create_document, upload_document and create_from_note all index a new document;
\* what has no text or no model is refused before.
IndexDocument(c, m) ==
  /\ c \in Requests /\ shutdown = "up"
  /\ \E d \in DocIds :
       /\ docs[d] = NoDoc /\ \A x \in Callers : d \notin request[x].doc
       /\ Enqueue(c, "index", m, {d})
  /\ UNCHANGED shutdown

\* The rows are read first; without rows there is nothing to embed. The worker
\* searches until it is stopped, with the first model there is.
SearchDocuments(c, m) ==
  /\ c \in Requests => shutdown = "up"
  /\ Stored # {}
  /\ Enqueue(c, "search", m, {})
  /\ UNCHANGED shutdown

DeleteDocument ==
  /\ shutdown = "up"
  /\ \E d \in Stored : docs' = [docs EXCEPT ![d] = NoDoc]
  /\ UNCHANGED <<serverVars, queue, request, shutdown, restarts, lost, late>>

------------------------------------------------------------------------------
(* The end of the backend: lifespan, or a kill *)

\* The requests have been served; the worker still runs its job.
BeginShutdown ==
  /\ shutdown = "up" /\ restarts < MaxRestarts
  /\ \A c \in Requests : request[c] = NoRequest
  /\ Enqueue(Lifespan, "stop", NoEmbedModel, {})
  /\ shutdown' = "stopping"

\* Mutant: the shutdown does not stop the embedding service.
StopSkipped ==
  /\ Holds(Lifespan, "queued")
  /\ Leave(Lifespan)
  /\ shutdown' = "stopped"
  /\ UNCHANGED <<serverVars, docs, restarts, lost, late>>

StopReturns ==
  /\ Holds(Lifespan, "starting")
  /\ Leave(Lifespan)
  /\ shutdown' = "stopped"
  /\ UNCHANGED <<serverVars, docs, restarts, lost, late>>

\* The next backend knows nothing of a server that still lives.
Restart ==
  /\ own' = NoServer /\ ownModel' = NoEmbedModel
  /\ queue' = <<>>
  /\ request' = [c \in Callers |-> NoRequest]
  /\ shutdown' = "up"
  /\ restarts' = restarts + 1
  /\ lost' = lost \union Living
  /\ UNCHANGED <<server, weights, docs, late>>

\* worker.stop waits for the job under way.
StopWorker == shutdown = "stopped" /\ request[ToolWorker] = NoRequest /\ Restart

KillBackend == restarts < MaxRestarts /\ Restart

------------------------------------------------------------------------------
EmbedStep ==
  \E c \in Callers :
    \/ KeepServer(c) \/ StopServer(c) \/ StartServer(c) \/ Healthy(c)
    \/ EmbedFails(c) \/ Answered(c) \/ StopReturns

DocNext ==
  \/ EmbedStep
  \/ \E p \in EmbedPids : ServerListens(p) \/ ServerEnds(p)
  \/ \E c \in Searchers, m \in EmbedModels : IndexDocument(c, m) \/ SearchDocuments(c, m)
  \/ DeleteDocument
  \/ BeginShutdown \/ StopWorker \/ KillBackend

DocSpec == DocInit /\ [][DocNext]_docVars

------------------------------------------------------------------------------
(* Properties *)

DocTypeOK ==
  /\ server \in [EmbedPids -> {"unused", "starting", "serving", "gone"}]
  /\ weights \in [EmbedPids -> EmbedModels \union {NoEmbedModel}]
  /\ own \in EmbedPids \union {NoServer} /\ ownModel \in EmbedModels \union {NoEmbedModel}
  /\ queue \in Seq(Callers)
  /\ request \in [Callers -> [stage : {"idle", "queued", "starting", "waiting", "posting"},
                              op : {"none", "index", "search", "stop"},
                              model : EmbedModels \union {NoEmbedModel}, doc : SUBSET DocIds]]
  /\ docs \in [DocIds -> [model : EmbedModels \union {NoEmbedModel}, from : EmbedModels \union {NoEmbedModel}]]
  /\ shutdown \in {"up", "stopping", "stopped"} /\ restarts \in Nat
  /\ lost \subseteq EmbedPids /\ late \subseteq EmbedPids

\* Of the servers this backend started at most one lives, the one it can stop, with
\* the model it takes it for: no failed start, timeout or switch leaves one behind.
EmbedServersAreHeld ==
  \A p \in Living \ lost : p = own /\ weights[p] = ownModel

\* A document's vectors come from the model in its row, whatever fails and whoever
\* switches models meanwhile, except those a server that outlived an earlier backend
\* answered in the place of the new one.
VectorsMatchModel ==
  \A d \in Stored : docs[d].from = docs[d].model \/ \E p \in lost : weights[p] = docs[d].from

\* Indexing keeps what it says it keeps, by a server that is its own.
DocumentsAreSound == DocTypeOK /\ EmbedServersAreHeld /\ VectorsMatchModel

\* An orderly shutdown leaves no embedding server, except one that the worker's
\* document tool started after the service had been stopped.
ShutdownLeavesNone ==
  [][shutdown = "stopped" /\ shutdown' = "up" => lost' \ lost \subseteq late]_docVars
==============================================================================
