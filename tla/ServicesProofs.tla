--------------------------- MODULE ServicesProofs ---------------------------
(***************************************************************************)
(* The safety of the services around the queue and of the pictures, each on *)
(* its own, for any number of requests, models, files and failures: the     *)
(* documents, the tools, tags and gallery, the image backend, batching,     *)
(* memory, the model registry, and the settings with the hardware they are  *)
(* tuned to. Each part has its inductive invariant, one lemma per action,   *)
(* and its theorem at the end. LeastNumber and UpTo are what its inductions *)
(* rest on: over the length of a list, as facts about a set of numbers;     *)
(* RecursionExists is what recursion over the parts of a finite set rests on.*)
(***************************************************************************)
EXTENDS Documents, Tools, Gallery, ImageBackend, PhaseBatching, Memory, ModelRegistry, AppSettings,
        FiniteSetTheorems, SequenceTheorems, TLAPS

------------------------------------------------------------------------------
(* Documents: whoever is past the queue holds the lock, and knows the server *)

\* Only the holder of the lock is past the queue.
HeadHolds ==
  \A c \in Callers : request[c].stage \notin {"idle", "queued"} => queue # <<>> /\ Head(queue) = c

\* What the holder knows of the server at the await it is suspended at.
StageKnows ==
  \A c \in Callers :
    /\ request[c].stage = "starting" => own = NoServer
    /\ request[c].stage \in {"waiting", "posting"} => ownModel = request[c].model

\* A server that outlived its backend keeps its model: its process is not used again.
LostRan == \A p \in lost : server[p] # "unused"

\* Once the service has been stopped, what lives was started after that.
StoppedLate == shutdown = "stopped" => Living \ lost \subseteq late

DocInv ==
  /\ DocumentsAreSound
  /\ HeadHolds /\ StageKnows /\ LostRan /\ StoppedLate

\* The types of a call and of what is stored of a document.
DocStages == {"idle", "queued", "starting", "waiting", "posting"}
DocRequest == [stage : DocStages, op : {"none", "index", "search", "stop"},
               model : EmbedModels \union {NoEmbedModel}, doc : SUBSET DocIds]
DocRow == [model : EmbedModels \union {NoEmbedModel}, from : EmbedModels \union {NoEmbedModel}]

\* A call that moves on keeps what it asked for, and the lock; the others stand in line.
LEMMA AtFacts ==
  ASSUME DocTypeOK, HeadHolds, NEW c \in Callers, NEW from, NEW stage \in DocStages,
         Holds(c, from), At(c, stage), UNCHANGED queue
  PROVE  /\ request'[c].stage = stage
         /\ request'[c].op = request[c].op /\ request'[c].model = request[c].model
         /\ \A d \in Callers \ {c} : request'[d] = request[d] /\ request'[d].stage \in {"idle", "queued"}
         /\ HeadHolds'
         /\ request' \in [Callers -> DocRequest]
  <1>1. queue # <<>> /\ Head(queue) = c
    BY DEF Holds
  <1>2. \A d \in Callers \ {c} : request[d].stage \in {"idle", "queued"}
    BY <1>1 DEF HeadHolds
  <1>3. request \in [Callers -> DocRequest]
    BY DEF DocTypeOK, DocRequest, DocStages
  <1>4. request[c] \in DocRequest
    BY <1>3
  <1>5. [request[c] EXCEPT !.stage = stage] \in DocRequest
    BY <1>4 DEF DocRequest
  <1>6. /\ request'[c] = [request[c] EXCEPT !.stage = stage]
        /\ \A d \in Callers \ {c} : request'[d] = request[d]
    BY <1>3 DEF At
  <1>7. request' \in [Callers -> DocRequest]
    BY <1>3, <1>5 DEF At
  <1>8. request'[c].stage = stage /\ request'[c].op = request[c].op /\ request'[c].model = request[c].model
    BY <1>4, <1>6 DEF DocRequest
  <1>9. HeadHolds'
    BY <1>1, <1>2, <1>6 DEF HeadHolds
  <1> QED BY <1>2, <1>6, <1>7, <1>8, <1>9

\* A call that leaves hands the lock on; nobody is past the queue for the moment.
LEMMA LeaveFacts ==
  ASSUME DocTypeOK, HeadHolds, NEW c \in Callers, NEW from, Holds(c, from), Leave(c)
  PROVE  /\ \A d \in Callers : request'[d].stage \in {"idle", "queued"}
         /\ HeadHolds' /\ StageKnows'
         /\ queue' \in Seq(Callers)
         /\ request' \in [Callers -> DocRequest]
  <1>1. queue # <<>> /\ Head(queue) = c
    BY DEF Holds
  <1>2. \A d \in Callers \ {c} : request[d].stage \in {"idle", "queued"}
    BY <1>1 DEF HeadHolds
  <1>3. request \in [Callers -> DocRequest] /\ queue \in Seq(Callers)
    BY DEF DocTypeOK, DocRequest, DocStages
  <1>4. NoRequest \in DocRequest /\ NoRequest.stage = "idle"
    BY DEF NoRequest, DocRequest, DocStages
  <1>5. \A d \in Callers : request'[d].stage \in {"idle", "queued"}
    BY <1>2, <1>3, <1>4 DEF Leave
  <1>6. request' \in [Callers -> DocRequest]
    BY <1>3, <1>4 DEF Leave
  <1>7. queue' \in Seq(Callers)
    BY <1>1, <1>3 DEF Leave
  <1> QED BY <1>5, <1>6, <1>7 DEF HeadHolds, StageKnows

\* A call that joins the line disturbs nobody.
LEMMA EnqueueFacts ==
  ASSUME DocTypeOK, HeadHolds, StageKnows, NEW c \in Callers, NEW op \in {"none", "index", "search", "stop"},
         NEW m \in EmbedModels \union {NoEmbedModel}, NEW ds \in SUBSET DocIds, Enqueue(c, op, m, ds)
  PROVE  /\ HeadHolds' /\ StageKnows'
         /\ queue' \in Seq(Callers)
         /\ request' \in [Callers -> DocRequest]
  <1>1. request \in [Callers -> DocRequest] /\ queue \in Seq(Callers)
    BY DEF DocTypeOK, DocRequest, DocStages
  <1> DEFINE new == [stage |-> "queued", op |-> op, model |-> m, doc |-> ds]
  <1>2. new \in DocRequest /\ new.stage = "queued"
    BY DEF DocRequest, DocStages
  <1>3. /\ request' = [request EXCEPT ![c] = new] /\ queue' = Append(queue, c)
        /\ UNCHANGED <<own, ownModel>>
    BY DEF Enqueue, serverVars
  <1>4. request' \in [Callers -> DocRequest] /\ queue' \in Seq(Callers)
    <2> HIDE DEF new
    <2> QED BY <1>1, <1>2, <1>3
  <1>5. queue # <<>> => Head(queue') = Head(queue) /\ queue' # <<>>
    BY <1>1, <1>3
  <1>6. \A d \in Callers : request'[d].stage \notin {"idle", "queued"} => request'[d] = request[d]
    <2> HIDE DEF new
    <2> QED BY <1>1, <1>2, <1>3
  <1>7. HeadHolds'
    BY <1>5, <1>6 DEF HeadHolds
  <1>8. StageKnows'
    BY <1>3, <1>6 DEF StageKnows
  <1> QED BY <1>4, <1>7, <1>8

\* The type invariant, in the names above.
LEMMA DocTypes ==
  DocTypeOK <=> /\ server \in [EmbedPids -> {"unused", "starting", "serving", "gone"}]
                /\ weights \in [EmbedPids -> EmbedModels \union {NoEmbedModel}]
                /\ own \in EmbedPids \union {NoServer} /\ ownModel \in EmbedModels \union {NoEmbedModel}
                /\ queue \in Seq(Callers)
                /\ request \in [Callers -> DocRequest]
                /\ docs \in [DocIds -> DocRow]
                /\ shutdown \in {"up", "stopping", "stopped"} /\ restarts \in Nat
                /\ lost \subseteq EmbedPids /\ late \subseteq EmbedPids
  BY DEF DocTypeOK, DocRequest, DocStages, DocRow

\* What a step of the holder that leaves the servers alone keeps of the invariant.
LEMMA ServersUntouched ==
  ASSUME DocInv, UNCHANGED <<serverVars, docs, lost, late>>,
         shutdown' = "stopped" => shutdown = "stopped" \/ Living \ lost = {}
  PROVE  EmbedServersAreHeld' /\ VectorsMatchModel' /\ LostRan' /\ StoppedLate'
  BY DEF DocInv, DocumentsAreSound, EmbedServersAreHeld, VectorsMatchModel, LostRan, StoppedLate, Living, Stored,
         serverVars

\* A new server is the only one of its backend, and is not one that was lost.
LEMMA StartKeeps ==
  ASSUME DocInv, NEW c \in Callers, StartServer(c)
  PROVE  DocInv'
  <1> USE DocumentsAssumption DEF DocInv, DocumentsAreSound
  <1>1. Holds(c, "starting") /\ At(c, "waiting") /\ UNCHANGED queue
    BY DEF StartServer
  <1>2. own = NoServer
    BY <1>1 DEF Holds, StageKnows
  <1>3. Living \ lost = {}
    BY <1>2 DEF EmbedServersAreHeld, Living
  <1>4. PICK p \in EmbedPids :
          /\ server[p] = "unused"
          /\ server' = [server EXCEPT ![p] = "starting"]
          /\ weights' = [weights EXCEPT ![p] = request[c].model]
          /\ own' = p /\ ownModel' = request[c].model
          /\ late' = IF shutdown = "up" THEN late ELSE late \union {p}
    BY DEF StartServer
  <1>5. UNCHANGED <<docs, shutdown, restarts, lost>>
    BY DEF StartServer
  <1>6. /\ request'[c].stage = "waiting" /\ request'[c].model = request[c].model
        /\ \A d \in Callers \ {c} : request'[d].stage \in {"idle", "queued"}
        /\ HeadHolds' /\ request' \in [Callers -> DocRequest]
    BY <1>1, AtFacts DEF DocStages
  <1>7. request[c].model \in EmbedModels \union {NoEmbedModel}
    BY DocTypes DEF DocRequest
  <1>8. DocTypeOK'
    BY <1>1, <1>4, <1>5, <1>6, <1>7 DEF DocTypeOK, DocRequest, DocStages
  <1>9. Living' \subseteq Living \union {p} /\ p \notin lost /\ weights'[p] = request[c].model
    BY <1>4, <1>7, DocTypes DEF Living, LostRan
  <1>10. EmbedServersAreHeld'
    BY <1>3, <1>4, <1>5, <1>9 DEF EmbedServersAreHeld
  <1>11. \A q \in lost : weights'[q] = weights[q] /\ server'[q] # "unused"
    BY <1>4, <1>9, DocTypes DEF LostRan
  <1>12. VectorsMatchModel' /\ LostRan'
    BY <1>5, <1>11 DEF VectorsMatchModel, LostRan, Stored
  <1>13. StoppedLate'
    BY <1>3, <1>4, <1>5, <1>9 DEF StoppedLate
  <1>14. StageKnows'
    BY <1>4, <1>6 DEF StageKnows
  <1> QED BY <1>6, <1>8, <1>10, <1>12, <1>13, <1>14

\* After the stop nothing the backend started is alive.
LEMMA StopKeeps ==
  ASSUME DocInv, NEW c \in Callers, StopServer(c)
  PROVE  DocInv'
  <1> USE DocumentsAssumption DEF DocInv, DocumentsAreSound
  <1>1. Holds(c, "queued") /\ At(c, "starting") /\ UNCHANGED queue
    BY DEF StopServer
  <1>2. /\ server' = IF own \in Living THEN [server EXCEPT ![own] = "gone"] ELSE server
        /\ own' = NoServer /\ ownModel' = NoEmbedModel
        /\ UNCHANGED <<weights, docs, shutdown, restarts, lost, late>>
    BY DEF StopServer
  <1>3. /\ request'[c].stage = "starting"
        /\ \A d \in Callers \ {c} : request'[d].stage \in {"idle", "queued"}
        /\ HeadHolds' /\ request' \in [Callers -> DocRequest]
    BY <1>1, AtFacts DEF DocStages
  <1>4. DocTypeOK'
    BY <1>1, <1>2, <1>3 DEF DocTypeOK, DocRequest, DocStages
  <1>5. Living' \ lost = {}
    BY <1>2, DocTypes DEF EmbedServersAreHeld, Living
  <1>6. EmbedServersAreHeld' /\ StoppedLate'
    BY <1>2, <1>5 DEF EmbedServersAreHeld, StoppedLate
  <1>7. VectorsMatchModel' /\ LostRan'
    BY <1>2, DocTypes DEF VectorsMatchModel, LostRan, Stored
  <1>8. StageKnows'
    BY <1>2, <1>3 DEF StageKnows
  <1> QED BY <1>3, <1>4, <1>6, <1>7, <1>8

\* An answer is the lost server's, or that of the own server, which has the model.
LEMMA AnswerKeeps ==
  ASSUME DocInv, NEW c \in Callers, Answered(c)
  PROVE  DocInv'
  <1> USE DEF DocInv, DocumentsAreSound
  <1>1. Holds(c, "posting") /\ Leave(c) /\ UNCHANGED <<serverVars, shutdown, restarts, lost, late>>
    BY DEF Answered
  <1>2. PICK p \in Listening :
          docs' = [d \in DocIds |-> IF request[c].op = "index" /\ d \in request[c].doc
                                    THEN [model |-> request[c].model, from |-> weights[p]] ELSE docs[d]]
    BY DEF Answered
  <1>3. ownModel = request[c].model
    BY <1>1 DEF Holds, StageKnows
  <1>4. p \in EmbedPids /\ (p \in lost \/ weights[p] = request[c].model)
    BY <1>3 DEF Listening, Living, EmbedServersAreHeld
  <1>5. request[c].model \in EmbedModels \union {NoEmbedModel} /\ weights[p] \in EmbedModels \union {NoEmbedModel}
    BY <1>4, DocTypes DEF DocRequest
  <1>6. docs' \in [DocIds -> DocRow]
    BY <1>2, <1>5, DocTypes DEF DocRow
  <1>7. HeadHolds' /\ StageKnows' /\ queue' \in Seq(Callers) /\ request' \in [Callers -> DocRequest]
    BY <1>1, LeaveFacts
  <1>8. DocTypeOK'
    BY <1>1, <1>6, <1>7 DEF DocTypeOK, DocRequest, DocStages, DocRow, serverVars
  <1>9. EmbedServersAreHeld' /\ LostRan' /\ StoppedLate'
    BY <1>1 DEF EmbedServersAreHeld, LostRan, StoppedLate, Living, serverVars
  <1>10. VectorsMatchModel'
    <2> SUFFICES ASSUME NEW d \in Stored'
                 PROVE  docs'[d].from = docs'[d].model \/ \E q \in lost' : weights'[q] = docs'[d].from
      BY DEF VectorsMatchModel
    <2>1. d \in DocIds
      BY DEF Stored
    <2>2. CASE request[c].op = "index" /\ d \in request[c].doc
      <3>1. docs'[d].model = request[c].model /\ docs'[d].from = weights[p]
        BY <1>2, <2>1, <2>2
      <3> QED BY <1>1, <1>4, <3>1 DEF serverVars
    <2>3. CASE ~(request[c].op = "index" /\ d \in request[c].doc)
      <3>1. docs'[d] = docs[d] /\ d \in Stored
        BY <1>2, <2>1, <2>3 DEF Stored, NoDoc
      <3> QED BY <1>1, <3>1 DEF VectorsMatchModel, serverVars
    <2> QED BY <2>2, <2>3
  <1> QED BY <1>7, <1>8, <1>9, <1>10

\* Whoever does not touch the servers or the documents: the calls that move on.
LEMMA MoveKeeps ==
  ASSUME DocInv, NEW c \in Callers, KeepServer(c) \/ Healthy(c)
  PROVE  DocInv'
  <1> USE DEF DocInv, DocumentsAreSound
  <1>1. PICK from \in {"queued", "waiting"} : Holds(c, from) /\ At(c, "posting")
    BY DEF KeepServer, Healthy
  <1>2. UNCHANGED <<serverVars, queue, docs, shutdown, restarts, lost, late>>
    BY DEF KeepServer, Healthy
  <1>3. ownModel = request[c].model
    BY DEF KeepServer, Healthy, Holds, StageKnows
  <1>4. /\ request'[c].stage = "posting" /\ request'[c].model = request[c].model
        /\ \A d \in Callers \ {c} : request'[d].stage \in {"idle", "queued"}
        /\ HeadHolds' /\ request' \in [Callers -> DocRequest]
    BY <1>1, <1>2, AtFacts DEF DocStages
  <1>5. DocTypeOK'
    BY <1>2, <1>4 DEF DocTypeOK, DocRequest, DocStages, serverVars
  <1>6. EmbedServersAreHeld' /\ VectorsMatchModel' /\ LostRan' /\ StoppedLate'
    BY <1>2, ServersUntouched
  <1>7. StageKnows'
    BY <1>2, <1>3, <1>4 DEF StageKnows, serverVars
  <1> QED BY <1>4, <1>5, <1>6, <1>7

\* Whoever leaves with an error, and the stop that returns.
LEMMA FailKeeps ==
  ASSUME DocInv, NEW c \in Callers, EmbedFails(c) \/ StopReturns
  PROVE  DocInv'
  <1> USE DEF DocInv, DocumentsAreSound
  <1>1. PICK d \in Callers, from \in DocStages : Holds(d, from) /\ Leave(d)
    BY DEF EmbedFails, StopReturns, Callers, DocStages
  <1>2. UNCHANGED <<serverVars, docs, restarts, lost, late>> /\ shutdown' \in {shutdown, "stopped"}
    BY DEF EmbedFails, StopReturns
  <1>3. shutdown' = "stopped" => shutdown = "stopped" \/ Living \ lost = {}
    <2>1. CASE EmbedFails(c)
      BY <2>1 DEF EmbedFails
    <2>2. CASE StopReturns
      <3>1. own = NoServer
        BY <2>2 DEF StopReturns, Holds, StageKnows, Callers
      <3> QED BY <3>1, DocumentsAssumption DEF EmbedServersAreHeld, Living
    <2> QED BY <2>1, <2>2
  <1>4. HeadHolds' /\ StageKnows' /\ queue' \in Seq(Callers) /\ request' \in [Callers -> DocRequest]
    BY <1>1, LeaveFacts
  <1>5. DocTypeOK'
    BY <1>2, <1>4 DEF DocTypeOK, DocRequest, DocStages, serverVars
  <1>6. EmbedServersAreHeld' /\ VectorsMatchModel' /\ LostRan' /\ StoppedLate'
    BY <1>2, <1>3, ServersUntouched
  <1> QED BY <1>4, <1>5, <1>6

\* Whoever joins the line.
LEMMA JoinKeeps ==
  ASSUME DocInv,
         \/ \E c \in Searchers, m \in EmbedModels : IndexDocument(c, m) \/ SearchDocuments(c, m)
         \/ BeginShutdown
  PROVE  DocInv'
  <1> USE DEF DocInv, DocumentsAreSound
  <1>1. PICK e \in Callers, op \in {"none", "index", "search", "stop"}, k \in EmbedModels \union {NoEmbedModel},
             ds \in SUBSET DocIds : Enqueue(e, op, k, ds)
    BY DEF IndexDocument, SearchDocuments, BeginShutdown, Callers
  <1>2. UNCHANGED <<serverVars, docs, restarts, lost, late>>
    BY <1>1 DEF Enqueue
  <1>3. shutdown' \in {shutdown, "stopping"}
    BY DEF IndexDocument, SearchDocuments, BeginShutdown
  <1>4. HeadHolds' /\ StageKnows' /\ queue' \in Seq(Callers) /\ request' \in [Callers -> DocRequest]
    BY <1>1, EnqueueFacts
  <1>5. DocTypeOK'
    BY <1>2, <1>3, <1>4 DEF DocTypeOK, DocRequest, DocStages, serverVars
  <1>6. EmbedServersAreHeld' /\ VectorsMatchModel' /\ LostRan' /\ StoppedLate'
    BY <1>2, <1>3, ServersUntouched
  <1> QED BY <1>4, <1>5, <1>6

\* The operating system, a deletion, and the end of a backend.
LEMMA OutsideKeeps ==
  ASSUME DocInv,
         \/ \E p \in EmbedPids : ServerListens(p) \/ ServerEnds(p)
         \/ DeleteDocument \/ StopWorker \/ KillBackend
  PROVE  DocInv'
  <1> USE DEF DocInv, DocumentsAreSound
  <1>1. ASSUME NEW p \in EmbedPids, ServerListens(p) \/ ServerEnds(p) PROVE DocInv'
    <2>1. server' \in [EmbedPids -> {"unused", "starting", "serving", "gone"}]
      BY <1>1, DocTypes DEF ServerListens, ServerEnds
    <2>2. UNCHANGED <<weights, own, ownModel, queue, request, docs, shutdown, restarts, lost, late>>
      BY <1>1 DEF ServerListens, ServerEnds
    <2>3. Living' \subseteq Living /\ LostRan'
      BY <1>1, <2>2, DocTypes DEF ServerListens, ServerEnds, Living, LostRan
    <2>4. DocTypeOK'
      BY <2>1, <2>2 DEF DocTypeOK
    <2>5. EmbedServersAreHeld' /\ StoppedLate'
      BY <2>2, <2>3 DEF EmbedServersAreHeld, StoppedLate
    <2>6. VectorsMatchModel' /\ HeadHolds' /\ StageKnows'
      BY <2>2 DEF VectorsMatchModel, HeadHolds, StageKnows, Stored
    <2> QED BY <2>3, <2>4, <2>5, <2>6
  <1>2. CASE DeleteDocument
    <2>1. UNCHANGED <<serverVars, queue, request, shutdown, restarts, lost, late>>
      BY <1>2 DEF DeleteDocument
    <2>2. PICK d \in Stored : docs' = [docs EXCEPT ![d] = NoDoc]
      BY <1>2 DEF DeleteDocument
    <2>3. docs' \in [DocIds -> DocRow] /\ \A e \in Stored' : e \in Stored /\ docs'[e] = docs[e]
      BY <2>2, DocTypes DEF DocRow, NoDoc, Stored
    <2>4. DocTypeOK'
      BY <2>1, <2>3 DEF DocTypeOK, DocRow, serverVars
    <2>5. VectorsMatchModel'
      BY <2>1, <2>3 DEF VectorsMatchModel, serverVars
    <2>6. EmbedServersAreHeld' /\ HeadHolds' /\ StageKnows' /\ LostRan' /\ StoppedLate'
      BY <2>1 DEF EmbedServersAreHeld, HeadHolds, StageKnows, LostRan, StoppedLate, Living, serverVars
    <2> QED BY <2>4, <2>5, <2>6
  <1>3. CASE StopWorker \/ KillBackend
    <2>1. Restart
      BY <1>3 DEF StopWorker, KillBackend
    <2>2. /\ own' = NoServer /\ ownModel' = NoEmbedModel /\ queue' = <<>>
          /\ request' = [c \in Callers |-> NoRequest]
          /\ shutdown' = "up" /\ restarts' = restarts + 1 /\ lost' = lost \union Living
          /\ UNCHANGED <<server, weights, docs, late>>
      BY <2>1 DEF Restart
    <2>3. request' \in [Callers -> DocRequest] /\ \A c \in Callers : request'[c].stage = "idle"
      BY <2>2 DEF DocRequest, NoRequest, DocStages
    <2>4. DocTypeOK'
      BY <2>2, <2>3 DEF DocTypeOK, DocRequest, DocStages, Living
    <2>5. Living' \ lost' = {} /\ LostRan'
      BY <2>2 DEF Living, LostRan
    <2>6. VectorsMatchModel'
      BY <2>2 DEF VectorsMatchModel, Stored
    <2> QED BY <2>2, <2>3, <2>4, <2>5, <2>6 DEF EmbedServersAreHeld, HeadHolds, StageKnows, StoppedLate
  <1> QED BY <1>1, <1>2, <1>3

\* Every step keeps the invariant.
LEMMA DocStep == DocInv /\ [DocNext]_docVars => DocInv'
  <1> SUFFICES ASSUME DocInv, [DocNext]_docVars PROVE DocInv'
    OBVIOUS
  <1>1. ASSUME NEW c \in Callers, KeepServer(c) \/ StopServer(c) \/ StartServer(c) \/ Healthy(c)
                                  \/ EmbedFails(c) \/ Answered(c) \/ StopReturns
        PROVE  DocInv'
    BY <1>1, MoveKeeps, StopKeeps, StartKeeps, FailKeeps, AnswerKeeps
  <1>2. CASE \E p \in EmbedPids : ServerListens(p) \/ ServerEnds(p)
    BY <1>2, OutsideKeeps
  <1>3. CASE \E c \in Searchers, m \in EmbedModels : IndexDocument(c, m) \/ SearchDocuments(c, m)
    BY <1>3, JoinKeeps
  <1>4. CASE BeginShutdown
    BY <1>4, JoinKeeps
  <1>5. CASE DeleteDocument \/ StopWorker \/ KillBackend
    BY <1>5, OutsideKeeps
  <1>6. CASE UNCHANGED docVars
    BY <1>6 DEF docVars, serverVars, DocInv, DocumentsAreSound, DocTypeOK, EmbedServersAreHeld, VectorsMatchModel,
                HeadHolds, StageKnows, LostRan, StoppedLate, Living, Stored
  <1> QED BY <1>1, <1>2, <1>3, <1>4, <1>5, <1>6 DEF DocNext, EmbedStep

\* The invariant holds of every behaviour.
LEMMA DocInvariance == DocSpec => []DocInv
  <1>1. DocInit => DocInv
    <2> SUFFICES ASSUME DocInit PROVE DocInv
      OBVIOUS
    <2>1. request \in [Callers -> DocRequest] /\ \A c \in Callers : request[c].stage = "idle"
      BY DEF DocInit, DocRequest, NoRequest, DocStages
    <2>2. docs \in [DocIds -> DocRow]
      BY DEF DocInit, DocRow, NoDoc
    <2>3. Living = {} /\ Stored = {}
      BY DEF DocInit, Living, Stored
    <2>4. DocTypeOK
      BY <2>1, <2>2, DocTypes DEF DocInit
    <2> QED BY <2>1, <2>3, <2>4 DEF DocInit, DocInv, DocumentsAreSound, EmbedServersAreHeld, VectorsMatchModel,
                                    HeadHolds, StageKnows, LostRan, StoppedLate
  <1> QED BY <1>1, DocStep, PTL DEF DocSpec

\* No failed start, timeout or switch leaves a second embedding server behind, and the
\* vectors of a document come from the model in its row, save for a server that
\* outlived an earlier backend.
THEOREM DocumentsStaySound == DocSpec => []DocumentsAreSound
  <1>1. DocInv => DocumentsAreSound
    BY DEF DocInv
  <1> QED BY <1>1, DocInvariance, PTL

\* An orderly shutdown leaves only what the worker's tool started after the stop.
THEOREM ShutdownStopsServers == DocSpec => ShutdownLeavesNone
  <1>1. DocInv /\ [DocNext]_docVars =>
          [shutdown = "stopped" /\ shutdown' = "up" => lost' \ lost \subseteq late]_docVars
    <2> SUFFICES ASSUME DocInv, DocNext, shutdown = "stopped", shutdown' = "up"
                 PROVE  lost' \ lost \subseteq late
      BY DEF docVars
    <2>1. StopWorker \/ KillBackend
      BY DEF DocNext, EmbedStep, KeepServer, StopServer, StartServer, Healthy, EmbedFails, Answered, StopReturns,
             ServerListens, ServerEnds, IndexDocument, SearchDocuments, DeleteDocument, BeginShutdown
    <2>2. lost' = lost \union Living
      BY <2>1 DEF StopWorker, KillBackend, Restart
    <2> QED BY <2>2 DEF DocInv, StoppedLate
  <1> QED BY <1>1, DocInvariance, PTL DEF DocSpec, ShutdownLeavesNone

------------------------------------------------------------------------------
(* Tools: a call is a machine of its own; the pool of threads is all they share *)

\* What the fields of a call are.
CallShape ==
  call = [c \in ToolCalls |-> [tool |-> call[c].tool, model |-> call[c].model,
                               stage |-> call[c].stage, answer |-> call[c].answer]]

ToolShapes ==
  /\ CallShape
  /\ body \in [ToolCalls -> [left : Nat, read : Nat]]
  /\ input \in [ToolCalls -> BOOLEAN] /\ record \in [ToolCalls -> {"none", "broken", "whole"}]
  /\ output \in [ToolCalls -> {"none", "partial", "whole"}]
  /\ process \in [ToolCalls -> {"none", "running", "ended", "failed"}]
  /\ thread \in [ToolCalls -> {"none", "queued", "running", "ended", "failed"}]

\* Before its run a call has nothing; while it runs it has an upload, and either a
\* process or a work item; afterwards what it left agrees with its answer.
StageOK(c) ==
  /\ call[c].stage \in {"idle", "reading", "ready", "running", "over"}
  /\ call[c].stage # "over" => call[c].answer = 0 /\ record[c] = "none"
  /\ call[c].stage \in {"idle", "reading", "ready"} =>
       process[c] = "none" /\ thread[c] = "none" /\ output[c] = "none"
  /\ call[c].stage \in {"idle", "reading"} => input[c] = FALSE
  /\ call[c].stage = "reading" => body[c].read <= MaxUpload
  /\ call[c].stage \in {"ready", "running"} /\ call[c].tool # "tts" => input[c] = TRUE
  /\ call[c].stage = "running" => IF RunsProcess(c) THEN thread[c] = "none" ELSE process[c] = "none"
  /\ call[c].stage = "over" => thread[c] # "queued"
  /\ call[c].answer # 0 => process[c] # "running"
  /\ process[c] = "ended" /\ call[c].tool = "tts" => output[c] # "partial"

\* What is to be shown of one call.
CallSound(c) ==
  /\ call[c].tool \in ToolNames \union {"none"}
  /\ call[c].stage = "over" => /\ process[c] = "running" => c \in stranded
                               /\ thread[c] = "running" => call[c].answer = 504
  /\ record[c] = "whole" <=> call[c].answer = 200
  /\ call[c].answer = 200 => /\ call[c].tool = "tts" => output[c] = "whole"
                             /\ call[c].tool # "tts" => input[c] = TRUE
  /\ call[c].answer = 500 /\ call[c].tool = "tts" => output[c] # "partial"
  /\ body[c].read <= MaxUpload + 1
  /\ input[c] => body[c].read \in 1..MaxUpload /\ body[c].left = 0
  /\ StageOK(c)

ToolsInv == ToolShapes /\ stranded \subseteq ToolCalls /\ \A c \in ToolCalls : CallSound(c)

\* The invariant is what the runs check, call by call, and more.
LEMMA CallByCall == ToolsInv => ToolsAreSound
  <1> SUFFICES ASSUME ToolsInv PROVE ToolsAreSound
    OBVIOUS
  <1>1. ToolsTypeOK
    <2>1. body \in [ToolCalls -> [left : Nat, read : Nat]]
      BY DEF ToolsInv, ToolShapes
    <2> QED BY <2>1 DEF ToolsInv, ToolsTypeOK, CallSound
  <1>2. NothingIsLeft
    BY DEF ToolsInv, NothingIsLeft, CallSound
  <1>3. AnswersAreStored
    <2> SUFFICES ASSUME NEW c \in ToolCalls
                 PROVE  /\ record[c] = "whole" <=> call[c].answer = 200
                        /\ call[c].answer = 200 => /\ call[c].tool = "tts" => output[c] = "whole" /\ AudioServed(c)
                                                   /\ call[c].tool # "tts" => input[c] /\ MetadataServed(c)
                        /\ call[c].answer = 500 /\ call[c].tool = "tts" /\ AudioServed(c) => output[c] = "whole"
      BY DEF AnswersAreStored
    <2>1. CallSound(c)
      BY DEF ToolsInv
    <2>2. record[c] = "whole" <=> call[c].answer = 200
      BY <2>1 DEF CallSound
    <2>3. output[c] \in {"none", "partial", "whole"}
      BY DEF ToolsInv, ToolShapes
    <2> QED BY <2>1, <2>2, <2>3 DEF CallSound, AudioServed, MetadataServed
  <1>4. UploadsAreBounded
    BY DEF ToolsInv, UploadsAreBounded, CallSound
  <1> QED BY <1>1, <1>2, <1>3, <1>4 DEF ToolsAreSound

\* The others are none of a call's business.
LEMMA OneCall ==
  ASSUME ToolsInv, NEW c \in ToolCalls, ToolShapes', UNCHANGED stranded, CallSound(c)',
         \A d \in ToolCalls \ {c} :
           /\ call'[d] = call[d] /\ body'[d] = body[d] /\ input'[d] = input[d] /\ output'[d] = output[d]
           /\ record'[d] = record[d] /\ process'[d] = process[d] /\ thread'[d] = thread[d]
  PROVE  ToolsInv'
  <1> SUFFICES ASSUME NEW d \in ToolCalls, d # c PROVE CallSound(d)'
    BY DEF ToolsInv
  <1> QED BY DEF ToolsInv, CallSound, StageOK, RunsProcess

\* A call whose stage or answer changes has its other fields as before.
LEMMA CallMoves ==
  ASSUME CallShape, NEW c \in ToolCalls, NEW s, NEW code,
         call' = [call EXCEPT ![c] = [tool |-> call[c].tool, model |-> call[c].model, stage |-> s, answer |-> code]]
  PROVE  /\ call'[c].tool = call[c].tool /\ call'[c].stage = s /\ call'[c].answer = code
         /\ \A d \in ToolCalls \ {c} : call'[d] = call[d]
         /\ CallShape'
  <1> DEFINE rec == [tool |-> call[c].tool, model |-> call[c].model, stage |-> s, answer |-> code]
  <1>1. call' = [d \in ToolCalls |-> IF d = c THEN rec ELSE call[d]]
    <2> HIDE DEF rec
    <2> QED BY DEF CallShape, rec
  <1>2. call'[c] = rec /\ \A d \in ToolCalls \ {c} : call'[d] = call[d]
    <2> HIDE DEF rec
    <2> QED BY <1>1
  <1>3. \A d \in ToolCalls : call'[d] = [tool |-> call'[d].tool, model |-> call'[d].model,
                                         stage |-> call'[d].stage, answer |-> call'[d].answer]
    BY <1>2 DEF CallShape
  <1>4. call' = [d \in ToolCalls |-> call'[d]]
    <2> HIDE DEF rec
    <2> QED BY <1>1
  <1> QED BY <1>2, <1>3, <1>4 DEF CallShape

\* Changing a field of such a record changes nothing else.
LEMMA CallFields ==
  ASSUME NEW t, NEW m, NEW s, NEW a, NEW r, r = [tool |-> t, model |-> m, stage |-> s, answer |-> a], NEW v
  PROVE  /\ [r EXCEPT !.stage = v] = [tool |-> t, model |-> m, stage |-> v, answer |-> a]
         /\ [r EXCEPT !.answer = v] = [tool |-> t, model |-> m, stage |-> s, answer |-> v]
  OBVIOUS

\* A call is a record of its fields.
LEMMA CallIsRecord ==
  ASSUME CallShape, NEW c \in ToolCalls
  PROVE  call[c] = [tool |-> call[c].tool, model |-> call[c].model, stage |-> call[c].stage, answer |-> call[c].answer]
  BY DEF CallShape

\* An answer ends the call.
LEMMA AnswerMoves ==
  ASSUME CallShape, NEW c \in ToolCalls, NEW code, Answer(c, code)
  PROVE  /\ call'[c].tool = call[c].tool /\ call'[c].stage = "over" /\ call'[c].answer = code
         /\ \A d \in ToolCalls \ {c} : call'[d] = call[d]
         /\ CallShape'
  <1> DEFINE old == [tool |-> call[c].tool, model |-> call[c].model, stage |-> call[c].stage, answer |-> call[c].answer]
  <1>0. call[c] = old
    BY CallIsRecord
  <1>1. call' = [call EXCEPT ![c] = [tool |-> call[c].tool, model |-> call[c].model, stage |-> "over", answer |-> code]]
    <2>1. [[old EXCEPT !.stage = "over"] EXCEPT !.answer = code]
            = [tool |-> call[c].tool, model |-> call[c].model, stage |-> "over", answer |-> code]
      <3> DEFINE mid == [tool |-> call[c].tool, model |-> call[c].model, stage |-> "over", answer |-> call[c].answer]
      <3>1. [old EXCEPT !.stage = "over"] = mid
        BY ONLY CallFields
      <3>2. [mid EXCEPT !.answer = code]
              = [tool |-> call[c].tool, model |-> call[c].model, stage |-> "over", answer |-> code]
        BY ONLY CallFields
      <3> HIDE DEF old, mid
      <3> QED BY ONLY <3>1, <3>2
    <2>2. call' = [call EXCEPT ![c] = [[call[c] EXCEPT !.stage = "over"] EXCEPT !.answer = code]]
      BY DEF Answer, CallShape
    <2> HIDE DEF old
    <2> QED BY <1>0, <2>1, <2>2
  <1> QED BY <1>1, CallMoves

\* A step of a call leaves it without an answer.
LEMMA GoOnMoves ==
  ASSUME CallShape, NEW c \in ToolCalls, NEW s, GoOn(c, s)
  PROVE  /\ call'[c].tool = call[c].tool /\ call'[c].stage = s /\ call'[c].answer = call[c].answer
         /\ \A d \in ToolCalls \ {c} : call'[d] = call[d]
         /\ CallShape'
  <1>1. call' = [call EXCEPT ![c] = [tool |-> call[c].tool, model |-> call[c].model, stage |-> s,
                                     answer |-> call[c].answer]]
    <2>1. [call[c] EXCEPT !.stage = s]
            = [tool |-> call[c].tool, model |-> call[c].model, stage |-> s, answer |-> call[c].answer]
      <3> DEFINE r == call[c]
      <3>1. r = [tool |-> call[c].tool, model |-> call[c].model, stage |-> call[c].stage, answer |-> call[c].answer]
        BY CallIsRecord
      <3> HIDE DEF r
      <3>2. [r EXCEPT !.stage = s]
              = [tool |-> call[c].tool, model |-> call[c].model, stage |-> s, answer |-> call[c].answer]
        BY ONLY <3>1, CallFields
      <3> QED BY <3>2 DEF r
    <2> QED BY <2>1 DEF GoOn
  <1> QED BY <1>1, CallMoves

\* What a request for a model that is not there comes to.
LEMMA MissingCall ==
  ASSUME NEW t
  PROVE  [NoCall EXCEPT !.tool = t, !.stage = "over", !.answer = 404]
           = [tool |-> t, model |-> NoToolFile, stage |-> "over", answer |-> 404]
  <1>1. [NoCall EXCEPT !.tool = t] = [tool |-> t, model |-> NoToolFile, stage |-> "idle", answer |-> 0]
    BY DEF NoCall
  <1>2. [[tool |-> t, model |-> NoToolFile, stage |-> "idle", answer |-> 0] EXCEPT !.stage = "over"]
          = [tool |-> t, model |-> NoToolFile, stage |-> "over", answer |-> 0]
    OBVIOUS
  <1>3. [[tool |-> t, model |-> NoToolFile, stage |-> "over", answer |-> 0] EXCEPT !.answer = 404]
          = [tool |-> t, model |-> NoToolFile, stage |-> "over", answer |-> 404]
    OBVIOUS
  <1> QED BY <1>1, <1>2, <1>3

\* A request starts from nothing.
LEMMA StartToolKeeps ==
  ASSUME ToolsInv, NEW c \in ToolCalls, NEW t \in ToolNames, NEW id, NEW size \in BodySizes,
         StartTool(c, t, id, size)
  PROVE  ToolsInv'
  <1> USE ToolsAssumption DEF ToolsInv
  <1> DEFINE missing == ToolModel(t, id) = NoToolFile
             rec == IF missing THEN [tool |-> t, model |-> NoToolFile, stage |-> "over", answer |-> 404]
                    ELSE [tool |-> t, model |-> ToolModel(t, id), stage |-> IF t = "tts" THEN "ready" ELSE "reading",
                          answer |-> 0]
  <1>1. call[c] = NoCall /\ UNCHANGED <<toolFiles, toolRuns, toolHistory>>
    BY DEF StartTool
  <1>2. call' = [call EXCEPT ![c] = rec]
    <2>1. CASE missing
      <3>1. rec = [tool |-> t, model |-> NoToolFile, stage |-> "over", answer |-> 404]
        BY <2>1
      <3>2. [call[c] EXCEPT !.tool = t, !.stage = "over", !.answer = 404]
              = [tool |-> t, model |-> NoToolFile, stage |-> "over", answer |-> 404]
        BY ONLY <1>1, MissingCall
      <3>3. call' = [call EXCEPT ![c] = [call[c] EXCEPT !.tool = t, !.stage = "over", !.answer = 404]]
        BY <2>1 DEF StartTool
      <3> QED BY <3>1, <3>2, <3>3
    <2>2. CASE ~missing
      BY <2>2 DEF StartTool
    <2> QED BY <2>1, <2>2
  <1>3. body' = [body EXCEPT ![c] = [left |-> size, read |-> 0]] /\ size \in Nat
    BY DEF StartTool
  <1> DEFINE same(r) == r = [tool |-> r.tool, model |-> r.model, stage |-> r.stage, answer |-> r.answer]
  <1>4. /\ rec.tool = t /\ rec.answer = (IF missing THEN 404 ELSE 0)
        /\ rec.stage = (IF missing THEN "over" ELSE IF t = "tts" THEN "ready" ELSE "reading")
        /\ same(rec)
    <2> HIDE DEF missing
    <2> QED OBVIOUS
  <1> HIDE DEF rec
  <1>5. /\ call'[c] = rec /\ \A d \in ToolCalls \ {c} : call'[d] = call[d]
        /\ call' = [d \in ToolCalls |-> call'[d]]
    BY <1>2 DEF ToolShapes, CallShape
  <1>6. body' \in [ToolCalls -> [left : Nat, read : Nat]] /\ body'[c].read = 0
        /\ \A d \in ToolCalls \ {c} : body'[d] = body[d]
    BY <1>3 DEF ToolShapes
  <1>7. \A d \in ToolCalls : same(call'[d])
    BY <1>4, <1>5 DEF ToolShapes, CallShape
  <1>8. ToolShapes'
    BY <1>1, <1>5, <1>6, <1>7 DEF ToolShapes, CallShape, toolFiles, toolRuns
  <1>9. /\ process'[c] = "none" /\ thread'[c] = "none" /\ output'[c] = "none"
        /\ input'[c] = FALSE /\ record'[c] = "none"
    <2>1. CallSound(c)
      OBVIOUS
    <2>2. process[c] = "none" /\ thread[c] = "none" /\ output[c] = "none" /\ input[c] = FALSE
      BY <1>1, <2>1 DEF CallSound, StageOK, NoCall
    <2>3. record[c] = "none"
      BY <1>1, <2>1 DEF CallSound, StageOK, NoCall
    <2> QED BY <1>1, <2>2, <2>3 DEF toolFiles, toolRuns
  <1>10. CallSound(c)'
    <2>1. /\ call'[c].tool = t /\ call'[c].answer \in {0, 404}
          /\ call'[c].stage \in {"over", "ready", "reading"}
          /\ call'[c].stage # "over" => call'[c].answer = 0
          /\ call'[c].stage = "ready" => t = "tts"
      <3> HIDE DEF missing
      <3> QED BY <1>4, <1>5
    <2>2. MaxUpload \in Nat
      OBVIOUS
    <2>3. StageOK(c)'
      BY <1>6, <1>9, <2>1, <2>2 DEF StageOK, RunsProcess
    <2> QED BY <1>6, <1>9, <2>1, <2>2, <2>3 DEF CallSound
  <1> QED BY <1>1, <1>5, <1>6, <1>8, <1>10, OneCall DEF toolFiles, toolRuns, toolHistory

\* The upload: refused once a unit past the limit has been read.
LEMMA ReadKeeps ==
  ASSUME ToolsInv, NEW c \in ToolCalls, ReadPiece(c)
  PROVE  ToolsInv'
  <1>1. ToolShapes /\ CallSound(c) /\ MaxUpload \in Nat
    BY ToolsAssumption DEF ToolsInv
  <1>2. PICK n \in 1..body[c].left :
          /\ n <= (MaxUpload - body[c].read) + 1
          /\ body' = [body EXCEPT ![c] = [left |-> @.left - n, read |-> @.read + n]]
          /\ IF body[c].read + n > MaxUpload THEN Answer(c, 413) ELSE UNCHANGED call
    BY DEF ReadPiece
  <1>3. call[c].stage = "reading" /\ UNCHANGED <<toolFiles, toolRuns, toolHistory>>
    BY DEF ReadPiece
  <1>4. body[c].left \in Nat /\ body[c].read \in Nat /\ n \in Nat \ {0} /\ n <= body[c].left
    BY <1>1, <1>2 DEF ToolShapes
  <1>5. [left |-> body[c].left - n, read |-> body[c].read + n] \in [left : Nat, read : Nat]
    BY <1>4
  <1>6. /\ body' \in [ToolCalls -> [left : Nat, read : Nat]]
        /\ body'[c].read = body[c].read + n
        /\ \A d \in ToolCalls \ {c} : body'[d] = body[d]
    BY <1>1, <1>2, <1>5 DEF ToolShapes
  <1>7. \/ Answer(c, 413)
        \/ UNCHANGED call /\ body'[c].read <= MaxUpload
    BY <1>1, <1>2, <1>4, <1>6
  <1>8. /\ call'[c].tool = call[c].tool
        /\ \/ call'[c].stage = "over" /\ call'[c].answer = 413
           \/ call'[c] = call[c] /\ body'[c].read <= MaxUpload
        /\ \A d \in ToolCalls \ {c} : call'[d] = call[d]
        /\ CallShape'
    <2>1. CASE Answer(c, 413)
      BY <1>1, <2>1, AnswerMoves DEF ToolShapes
    <2>2. CASE UNCHANGED call /\ body'[c].read <= MaxUpload
      BY <1>1, <2>2 DEF ToolShapes, CallShape
    <2> QED BY <1>7, <2>1, <2>2
  <1>9. ToolShapes'
    BY <1>1, <1>3, <1>6, <1>8 DEF ToolShapes, toolFiles, toolRuns
  <1>10. CallSound(c)'
    <2>1. /\ process'[c] = "none" /\ thread'[c] = "none" /\ output'[c] = "none" /\ input'[c] = FALSE
          /\ record'[c] = "none" /\ call[c].answer = 0
      BY <1>1, <1>3 DEF CallSound, StageOK, ToolShapes, toolFiles, toolRuns
    <2>2. StageOK(c)'
      BY <1>1, <1>3, <1>8, <2>1 DEF CallSound, StageOK, RunsProcess
    <2>3. body'[c].read <= MaxUpload + 1
      <3>1. n <= (MaxUpload - body[c].read) + 1
        BY <1>2
      <3> QED BY <1>1, <1>4, <1>6, <3>1
    <2> QED BY <1>1, <1>3, <1>8, <2>1, <2>2, <2>3 DEF CallSound
  <1> QED BY <1>3, <1>6, <1>8, <1>9, <1>10, OneCall DEF toolFiles, toolRuns, toolHistory

\* An empty body is refused; another is within the limit, and complete.
LEMMA StoreKeeps ==
  ASSUME ToolsInv, NEW c \in ToolCalls, StoreUpload(c)
  PROVE  ToolsInv'
  <1>1. ToolShapes /\ CallSound(c) /\ MaxUpload \in Nat
    BY ToolsAssumption DEF ToolsInv
  <1>2. /\ call[c].stage = "reading" /\ body[c].left = 0
        /\ UNCHANGED <<body, output, record, toolRuns, toolHistory>>
    BY DEF StoreUpload
  <1>3. \/ Answer(c, 422) /\ UNCHANGED input
        \/ GoOn(c, "ready") /\ input' = [input EXCEPT ![c] = TRUE] /\ body[c].read # 0
    BY DEF StoreUpload
  <1>4. /\ call'[c].tool = call[c].tool
        /\ \/ call'[c].stage = "over" /\ call'[c].answer = 422 /\ input'[c] = input[c]
           \/ call'[c].stage = "ready" /\ call'[c].answer = call[c].answer /\ input'[c] = TRUE /\ body[c].read # 0
        /\ \A d \in ToolCalls \ {c} : call'[d] = call[d] /\ input'[d] = input[d]
        /\ input' \in [ToolCalls -> BOOLEAN]
        /\ CallShape'
    <2>1. CASE Answer(c, 422) /\ UNCHANGED input
      BY <1>1, <2>1, AnswerMoves DEF ToolShapes
    <2>2. CASE GoOn(c, "ready") /\ input' = [input EXCEPT ![c] = TRUE] /\ body[c].read # 0
      <3>1. /\ call'[c].tool = call[c].tool /\ call'[c].stage = "ready" /\ call'[c].answer = call[c].answer
            /\ \A d \in ToolCalls \ {c} : call'[d] = call[d]
            /\ CallShape'
        BY <1>1, <2>2, GoOnMoves DEF ToolShapes
      <3>2. /\ input'[c] = TRUE /\ input' \in [ToolCalls -> BOOLEAN]
            /\ \A d \in ToolCalls \ {c} : input'[d] = input[d]
        BY <1>1, <2>2 DEF ToolShapes
      <3> QED BY <2>2, <3>1, <3>2
    <2> QED BY <1>3, <2>1, <2>2
  <1>5. ToolShapes'
    BY <1>1, <1>2, <1>4 DEF ToolShapes, toolRuns
  <1>6. CallSound(c)'
    <2>1. /\ process'[c] = "none" /\ thread'[c] = "none" /\ output'[c] = "none" /\ input[c] = FALSE
          /\ record'[c] = "none" /\ call[c].answer = 0
      BY <1>1, <1>2 DEF CallSound, StageOK, ToolShapes, toolRuns
    <2>2. body'[c] = body[c] /\ body[c].read <= MaxUpload /\ body[c].read \in Nat
      BY <1>1, <1>2 DEF CallSound, StageOK, ToolShapes
    <2>3. StageOK(c)'
      BY <1>4, <2>1 DEF StageOK, RunsProcess
    <2> QED BY <1>1, <1>2, <1>4, <2>1, <2>2, <2>3 DEF CallSound
  <1> QED BY <1>2, <1>4, <1>5, <1>6, OneCall DEF toolRuns, toolHistory

\* The process of a call that is ready is started, or cannot be.
LEMMA SpawnKeeps ==
  ASSUME ToolsInv, NEW c \in ToolCalls, SpawnTool(c)
  PROVE  ToolsInv'
  <1>1. ToolShapes /\ CallShape /\ CallSound(c) /\ StageOK(c)
    BY DEF ToolsInv, ToolShapes, CallSound
  <1>2. /\ call[c].stage = "ready" /\ RunsProcess(c)
        /\ UNCHANGED <<body, input, output, record, thread, stranded>>
    BY DEF SpawnTool, toolFiles, toolHistory
  <1>3. \/ GoOn(c, "running") /\ process' = [process EXCEPT ![c] = "running"]
        \/ Answer(c, 500) /\ UNCHANGED process
    BY DEF SpawnTool
  <1>4. /\ call'[c].tool = call[c].tool
        /\ \/ call'[c].stage = "running" /\ call'[c].answer = call[c].answer
           \/ call'[c].stage = "over" /\ call'[c].answer = 500 /\ UNCHANGED process
        /\ \A d \in ToolCalls \ {c} : call'[d] = call[d]
        /\ CallShape'
    BY <1>1, <1>3, GoOnMoves, AnswerMoves
  <1>5. /\ process' \in [ToolCalls -> {"none", "running", "ended", "failed"}]
        /\ process'[c] \in {process[c], "running"}
        /\ \A d \in ToolCalls \ {c} : process'[d] = process[d]
    BY <1>1, <1>3 DEF ToolShapes
  <1>6. ToolShapes'
    BY <1>1, <1>2, <1>4, <1>5 DEF ToolShapes
  <1>7. process[c] = "none" /\ thread[c] = "none" /\ output[c] = "none" /\ call[c].answer = 0 /\ record[c] = "none"
    BY <1>1, <1>2 DEF CallSound, StageOK, ToolShapes
  <1>8. StageOK(c)'
    BY <1>1, <1>2, <1>4, <1>5, <1>7 DEF StageOK, RunsProcess
  <1>9. CallSound(c)'
    BY <1>1, <1>2, <1>4, <1>5, <1>7, <1>8 DEF CallSound
  <1> QED BY <1>2, <1>4, <1>5, <1>6, <1>9, OneCall

\* The process writes and ends; nobody is told before communicate() returns.
LEMMA ProcessKeeps ==
  ASSUME ToolsInv, NEW c \in ToolCalls, ToolWrites(c) \/ ToolExits(c) \/ ToolCrashes(c)
  PROVE  ToolsInv'
  <1>1. ToolShapes /\ CallSound(c) /\ StageOK(c)
    BY DEF ToolsInv, CallSound
  <1>2. process[c] = "running" /\ UNCHANGED <<call, body, input, record, thread, stranded>>
    BY DEF ToolWrites, ToolExits, ToolCrashes, toolFiles, toolRuns, toolHistory
  <1>3. /\ process' \in [ToolCalls -> {"none", "running", "ended", "failed"}]
        /\ process'[c] \in {"running", "ended", "failed"}
        /\ \A d \in ToolCalls \ {c} : process'[d] = process[d]
    BY <1>1 DEF ToolWrites, ToolExits, ToolCrashes, ToolShapes, toolRuns
  <1>4. /\ output' \in [ToolCalls -> {"none", "partial", "whole"}]
        /\ \A d \in ToolCalls \ {c} : output'[d] = output[d]
        /\ process'[c] = "ended" /\ call[c].tool = "tts" => output'[c] # "partial"
    BY <1>1 DEF ToolWrites, ToolExits, ToolCrashes, ToolShapes, toolRuns, toolFiles
  <1>5. ToolShapes'
    BY <1>1, <1>2, <1>3, <1>4 DEF ToolShapes, CallShape
  <1>6. call[c].answer = 0 /\ call[c].stage \in {"running", "over"}
    BY <1>1, <1>2 DEF StageOK
  <1>7. StageOK(c)'
    BY <1>1, <1>2, <1>3, <1>4, <1>6 DEF StageOK, RunsProcess
  <1>8. CallSound(c)'
    BY <1>1, <1>2, <1>3, <1>6, <1>7 DEF CallSound
  <1> QED BY <1>2, <1>3, <1>4, <1>5, <1>8, OneCall

\* The process has ended: it is answered 200 only for a file that is complete.
LEMMA CollectToolKeeps ==
  ASSUME ToolsInv, NEW c \in ToolCalls, CollectTool(c)
  PROVE  ToolsInv'
  <1>1. ToolShapes /\ CallShape /\ CallSound(c) /\ StageOK(c)
    BY DEF ToolsInv, ToolShapes, CallSound
  <1>2. /\ call[c].stage = "running" /\ RunsProcess(c)
        /\ process[c] \in {"ended", "failed"} /\ process' = [process EXCEPT ![c] = "none"]
        /\ UNCHANGED <<body, input, thread, stranded>>
    BY DEF CollectTool, toolHistory
  <1>3. /\ call'[c].tool = call[c].tool /\ call'[c].stage = "over" /\ call'[c].answer \in {200, 500}
        /\ \A d \in ToolCalls \ {c} : call'[d] = call[d]
        /\ CallShape'
    BY <1>1, AnswerMoves DEF CollectTool, StoreRecord
  <1>4. \/ call'[c].answer = 500 /\ (UNCHANGED record \/ \E left \in {"none", "broken"} : record' = [record EXCEPT ![c] = left])
        \/ call'[c].answer = 200 /\ record' = [record EXCEPT ![c] = "whole"]
    BY <1>1, AnswerMoves DEF CollectTool, StoreRecord
  <1>5. /\ output' \in [ToolCalls -> {"none", "partial", "whole"}]
        /\ \A d \in ToolCalls \ {c} : output'[d] = output[d]
    BY <1>1 DEF CollectTool, ToolShapes
  <1>6. call[c].tool = "tts" => output'[c] \in IF call'[c].answer = 200 THEN {"whole"} ELSE {"none", "whole"}
    <2>1. process[c] = "failed" => Answer(c, 500) /\ (call[c].tool = "tts" => output' = [output EXCEPT ![c] = "none"])
      BY DEF CollectTool
    <2>2. process[c] = "ended" => /\ UNCHANGED output
                                  /\ IF call[c].tool = "tts" /\ output[c] = "none" THEN Answer(c, 500)
                                     ELSE Answer(c, 200) \/ Answer(c, 500)
      BY DEF CollectTool, StoreRecord
    <2>3. process[c] = "ended" /\ call[c].tool = "tts" => output[c] \in {"none", "whole"}
      BY <1>1 DEF StageOK, ToolShapes
    <2> QED BY <1>1, <1>2, <2>1, <2>2, <2>3, AnswerMoves DEF ToolShapes
  <1>7. process'[c] = "none" /\ thread[c] = "none" /\ call[c].answer = 0 /\ record[c] = "none"
        /\ (call[c].tool # "tts" => input[c] = TRUE)
    BY <1>1, <1>2 DEF CallSound, StageOK, ToolShapes
  <1>8. /\ record' \in [ToolCalls -> {"none", "broken", "whole"}] /\ (record'[c] = "whole" <=> call'[c].answer = 200)
        /\ \A d \in ToolCalls \ {c} : record'[d] = record[d]
    <2>1. record \in [ToolCalls -> {"none", "broken", "whole"}]
      BY <1>1 DEF ToolShapes
    <2>2. CASE call'[c].answer = 500 /\ (UNCHANGED record \/ \E left \in {"none", "broken"} : record' = [record EXCEPT ![c] = left])
      BY <1>7, <2>1, <2>2
    <2>3. CASE call'[c].answer = 200 /\ record' = [record EXCEPT ![c] = "whole"]
      BY <2>1, <2>3
    <2> QED BY <1>4, <2>2, <2>3
  <1>9. ToolShapes'
    BY <1>1, <1>2, <1>3, <1>5, <1>8 DEF ToolShapes
  <1>10. StageOK(c)'
    BY <1>2, <1>3, <1>7 DEF StageOK
  <1>11. CallSound(c)'
    <2>1. record'[c] = "whole" <=> call'[c].answer = 200
      BY <1>8 DEF ToolShapes
    <2> QED BY <1>1, <1>2, <1>3, <1>6, <1>7, <1>10, <2>1 DEF CallSound
  <1>12. \A d \in ToolCalls \ {c} : process'[d] = process[d]
    BY <1>1, <1>2 DEF ToolShapes
  <1> QED BY <1>2, <1>3, <1>5, <1>8, <1>9, <1>11, <1>12, OneCall

\* After a timeout the process is gone.
LEMMA ProcessTimeoutKeeps ==
  ASSUME ToolsInv, NEW c \in ToolCalls, TimeoutProcess(c)
  PROVE  ToolsInv'
  <1>1. ToolShapes /\ CallShape /\ CallSound(c) /\ StageOK(c)
    BY DEF ToolsInv, ToolShapes, CallSound
  <1>2. /\ call[c].stage = "running" /\ RunsProcess(c) /\ process' = [process EXCEPT ![c] = "none"]
        /\ UNCHANGED <<body, input, output, record, thread, stranded>>
    BY DEF TimeoutProcess, toolHistory, toolFiles
  <1>3. /\ call'[c].tool = call[c].tool /\ call'[c].stage = "over" /\ call'[c].answer = 504
        /\ \A d \in ToolCalls \ {c} : call'[d] = call[d]
        /\ CallShape'
    BY <1>1, AnswerMoves DEF TimeoutProcess
  <1>4. /\ process' \in [ToolCalls -> {"none", "running", "ended", "failed"}] /\ process'[c] = "none"
        /\ \A d \in ToolCalls \ {c} : process'[d] = process[d]
    BY <1>1, <1>2 DEF ToolShapes
  <1>5. ToolShapes'
    BY <1>1, <1>2, <1>3, <1>4 DEF ToolShapes
  <1>6. thread[c] = "none" /\ call[c].answer = 0 /\ record[c] = "none"
    BY <1>1, <1>2 DEF CallSound, StageOK, ToolShapes
  <1>7. StageOK(c)'
    BY <1>2, <1>3, <1>4, <1>6 DEF StageOK
  <1>8. CallSound(c)'
    BY <1>1, <1>2, <1>3, <1>4, <1>6, <1>7 DEF CallSound
  <1> QED BY <1>2, <1>3, <1>4, <1>5, <1>8, OneCall

\* A transcription is handed to the pool; its work item starts, ends, or is given up.
LEMMA ThreadKeeps ==
  ASSUME ToolsInv, NEW c \in ToolCalls,
         SubmitTranscription(c) \/ ThreadStarts(c) \/ ThreadEnds(c) \/ TimeoutThread(c)
  PROVE  ToolsInv'
  <1>1. ToolShapes /\ CallShape /\ CallSound(c) /\ StageOK(c)
    BY DEF ToolsInv, ToolShapes, CallSound
  <1>2. UNCHANGED <<body, input, output, record, process, stranded>>
    BY DEF SubmitTranscription, ThreadStarts, ThreadEnds, TimeoutThread, toolFiles, toolHistory
  <1>3. /\ thread' \in [ToolCalls -> {"none", "queued", "running", "ended", "failed"}]
        /\ \A d \in ToolCalls \ {c} : thread'[d] = thread[d]
    BY <1>1 DEF SubmitTranscription, ThreadStarts, ThreadEnds, TimeoutThread, ToolShapes
  <1>4. /\ call'[c].tool = call[c].tool /\ CallShape'
        /\ \A d \in ToolCalls \ {c} : call'[d] = call[d]
    BY <1>1, GoOnMoves, AnswerMoves DEF SubmitTranscription, ThreadStarts, ThreadEnds, TimeoutThread, CallShape
  <1>5. ToolShapes'
    BY <1>1, <1>2, <1>3, <1>4 DEF ToolShapes
  <1>6. CallSound(c)'
    <2>1. CASE SubmitTranscription(c)
      <3>1. /\ call[c].stage = "ready" /\ call[c].tool = "transcription"
            /\ call'[c].stage = "running" /\ call'[c].answer = call[c].answer
        BY <1>1, <2>1, GoOnMoves DEF SubmitTranscription
      <3>2. process[c] = "none" /\ call[c].answer = 0
        BY <1>1, <3>1 DEF StageOK
      <3>3. StageOK(c)'
        BY <1>1, <1>2, <1>4, <3>1, <3>2 DEF StageOK, RunsProcess
      <3> QED BY <1>1, <1>2, <1>4, <3>1, <3>2, <3>3 DEF CallSound
    <2>2. CASE ThreadStarts(c) \/ ThreadEnds(c)
      <3>1. /\ UNCHANGED call /\ thread[c] \in {"queued", "running"}
            /\ thread'[c] \in {"running", "ended", "failed"}
            /\ thread'[c] = "running" => thread[c] = "queued"
        BY <1>1, <2>2 DEF ThreadStarts, ThreadEnds, ToolShapes
      <3>2. StageOK(c)'
        BY <1>1, <1>2, <3>1 DEF StageOK, RunsProcess
      <3>3. thread'[c] = "running" => call[c].stage # "over"
        BY <1>1, <3>1 DEF StageOK
      <3> QED BY <1>1, <1>2, <3>1, <3>2, <3>3 DEF CallSound
    <2>3. CASE TimeoutThread(c)
      <3>1. /\ call[c].stage = "running" /\ thread[c] \in {"queued", "running"}
            /\ call'[c].stage = "over" /\ call'[c].answer = 504
        BY <1>1, <2>3, AnswerMoves DEF TimeoutThread
      <3>2. thread'[c] # "queued"
        BY <1>1, <2>3 DEF TimeoutThread, ToolShapes
      <3>3. process[c] = "none" /\ call[c].answer = 0
        BY <1>1, <3>1 DEF StageOK
      <3>4. StageOK(c)'
        BY <1>2, <3>1, <3>2, <3>3 DEF StageOK
      <3>5. record[c] = "none"
        BY <1>1, <3>1 DEF StageOK
      <3> QED BY <1>1, <1>2, <1>4, <3>1, <3>3, <3>4, <3>5 DEF CallSound
    <2> QED BY <2>1, <2>2, <2>3
  <1> QED BY <1>2, <1>3, <1>4, <1>5, <1>6, OneCall

\* The work item has returned or raised.
LEMMA CollectThreadKeeps ==
  ASSUME ToolsInv, NEW c \in ToolCalls, CollectTranscription(c)
  PROVE  ToolsInv'
  <1>1. ToolShapes /\ CallShape /\ CallSound(c) /\ StageOK(c)
    BY DEF ToolsInv, ToolShapes, CallSound
  <1>2. /\ call[c].stage = "running" /\ thread[c] \in {"ended", "failed"}
        /\ UNCHANGED <<body, input, output, process, thread, stranded>>
    BY DEF CollectTranscription, toolRuns, toolHistory
  <1>3. /\ call'[c].tool = call[c].tool /\ call'[c].stage = "over" /\ call'[c].answer \in {200, 500}
        /\ \A d \in ToolCalls \ {c} : call'[d] = call[d]
        /\ CallShape'
    BY <1>1, AnswerMoves DEF CollectTranscription, StoreRecord
  <1>4. \/ call'[c].answer = 500 /\ (UNCHANGED record \/ \E left \in {"none", "broken"} : record' = [record EXCEPT ![c] = left])
        \/ call'[c].answer = 200 /\ record' = [record EXCEPT ![c] = "whole"]
    BY <1>1, AnswerMoves DEF CollectTranscription, StoreRecord
  <1>5. /\ process[c] = "none" /\ call[c].answer = 0 /\ record[c] = "none"
        /\ call[c].tool # "tts" /\ input[c] = TRUE
    BY <1>1, <1>2 DEF CallSound, StageOK, RunsProcess, ToolShapes
  <1>6. /\ record' \in [ToolCalls -> {"none", "broken", "whole"}] /\ (record'[c] = "whole" <=> call'[c].answer = 200)
        /\ \A d \in ToolCalls \ {c} : record'[d] = record[d]
    <2>1. record \in [ToolCalls -> {"none", "broken", "whole"}]
      BY <1>1 DEF ToolShapes
    <2>2. CASE call'[c].answer = 500 /\ (UNCHANGED record \/ \E left \in {"none", "broken"} : record' = [record EXCEPT ![c] = left])
      BY <1>5, <2>1, <2>2
    <2>3. CASE call'[c].answer = 200 /\ record' = [record EXCEPT ![c] = "whole"]
      BY <2>1, <2>3
    <2> QED BY <1>4, <2>2, <2>3
  <1>7. ToolShapes'
    BY <1>1, <1>2, <1>3, <1>6 DEF ToolShapes
  <1>8. StageOK(c)'
    BY <1>2, <1>3, <1>5 DEF StageOK
  <1>9. CallSound(c)'
    <2>1. record'[c] = "whole" <=> call'[c].answer = 200
      BY <1>6 DEF ToolShapes
    <2> QED BY <1>1, <1>2, <1>3, <1>5, <1>8, <2>1 DEF CallSound
  <1> QED BY <1>2, <1>3, <1>6, <1>7, <1>9, OneCall

\* The kill of the backend ends every call, and is why a process may be left.
LEMMA KillToolsKeeps ==
  ASSUME ToolsInv, KillTools
  PROVE  ToolsInv'
  <1> DEFINE over(c) == IF call[c].stage \in {"idle", "over"} THEN call[c] ELSE [call[c] EXCEPT !.stage = "over"]
  <1>1. /\ call' = [c \in ToolCalls |-> over(c)] /\ thread' = [c \in ToolCalls |-> "none"]
        /\ stranded' = stranded \union {c \in ToolCalls : process[c] = "running"}
        /\ UNCHANGED <<body, input, output, record, process>>
    BY DEF KillTools, toolFiles
  <1>2. ToolShapes /\ CallShape
    BY DEF ToolsInv, ToolShapes
  <1>3. ASSUME NEW c \in ToolCalls
        PROVE  /\ call'[c].tool = call[c].tool /\ call'[c].answer = call[c].answer
               /\ call'[c].stage = IF call[c].stage = "idle" THEN "idle" ELSE "over"
               /\ call'[c] = [tool |-> call'[c].tool, model |-> call'[c].model,
                              stage |-> call'[c].stage, answer |-> call'[c].answer]
    <2>1. call[c] = [tool |-> call[c].tool, model |-> call[c].model, stage |-> call[c].stage, answer |-> call[c].answer]
      BY <1>2, CallIsRecord
    <2>2. CASE call[c].stage \in {"idle", "over"}
      <3>1. call'[c] = call[c]
        BY <1>1, <2>2
      <3>2. call[c].stage = IF call[c].stage = "idle" THEN "idle" ELSE "over"
        BY <2>2
      <3> QED BY <2>1, <3>1, <3>2
    <2>3. CASE call[c].stage \notin {"idle", "over"}
      <3>0. over(c) = [call[c] EXCEPT !.stage = "over"]
        BY <2>3
      <3>1. call'[c] = over(c)
        <4> HIDE DEF over
        <4> QED BY <1>1
      <3> DEFINE r == call[c]
      <3>2. r = [tool |-> call[c].tool, model |-> call[c].model, stage |-> call[c].stage, answer |-> call[c].answer]
        BY <2>1
      <3> HIDE DEF r
      <3>3. [r EXCEPT !.stage = "over"]
              = [tool |-> call[c].tool, model |-> call[c].model, stage |-> "over", answer |-> call[c].answer]
        BY ONLY <3>2, CallFields
      <3>4. (IF call[c].stage = "idle" THEN "idle" ELSE "over") = "over"
        BY <2>3
      <3>5. [call[c] EXCEPT !.stage = "over"]
              = [tool |-> call[c].tool, model |-> call[c].model, stage |-> "over", answer |-> call[c].answer]
        BY <3>3 DEF r
      <3> HIDE DEF over
      <3> QED BY <3>0, <3>1, <3>4, <3>5
    <2> QED BY <2>2, <2>3
  <1>4. ToolShapes'
    <2>1. CallShape'
      <3>1. call' = [c \in ToolCalls |-> call'[c]]
        <4> HIDE DEF over
        <4> QED BY <1>1
      <3>2. \A c \in ToolCalls : call'[c] = [tool |-> call'[c].tool, model |-> call'[c].model,
                                             stage |-> call'[c].stage, answer |-> call'[c].answer]
        BY <1>3
      <3> QED BY <3>1, <3>2 DEF CallShape
    <2> QED BY <1>1, <1>2, <2>1 DEF ToolShapes
  <1>5. ASSUME NEW c \in ToolCalls PROVE CallSound(c)'
    <2>1. CallSound(c) /\ StageOK(c)
      BY DEF ToolsInv, CallSound
    <2>2. /\ call'[c].tool = call[c].tool /\ call'[c].answer = call[c].answer
          /\ call'[c].stage = IF call[c].stage = "idle" THEN "idle" ELSE "over"
      BY <1>3
    <2>3. thread'[c] = "none" /\ (process'[c] = "running" => c \in stranded')
      BY <1>1
    <2>4. StageOK(c)'
      BY <1>1, <2>1, <2>2, <2>3 DEF StageOK
    <2> QED BY <1>1, <2>1, <2>2, <2>3, <2>4 DEF CallSound
  <1>6. stranded' \subseteq ToolCalls
    BY <1>1 DEF ToolsInv
  <1> QED BY <1>4, <1>5, <1>6 DEF ToolsInv

\* Every step keeps the invariant.
LEMMA ToolsStep == ToolsInv /\ [ToolsNext]_toolVars => ToolsInv'
  <1> SUFFICES ASSUME ToolsInv, [ToolsNext]_toolVars PROVE ToolsInv'
    OBVIOUS
  <1>1. ASSUME NEW c \in ToolCalls, NEW t \in ToolNames, NEW size \in BodySizes, NEW id, StartTool(c, t, id, size)
        PROVE  ToolsInv'
    BY <1>1, StartToolKeeps
  <1>2. ASSUME NEW c \in ToolCalls, ReadPiece(c) \/ StoreUpload(c) \/ SpawnTool(c) PROVE ToolsInv'
    BY <1>2, ReadKeeps, StoreKeeps, SpawnKeeps
  <1>3. ASSUME NEW c \in ToolCalls, ToolWrites(c) \/ ToolExits(c) \/ ToolCrashes(c) PROVE ToolsInv'
    BY <1>3, ProcessKeeps
  <1>4. ASSUME NEW c \in ToolCalls, CollectTool(c) \/ TimeoutProcess(c) PROVE ToolsInv'
    BY <1>4, CollectToolKeeps, ProcessTimeoutKeeps
  <1>5. ASSUME NEW c \in ToolCalls, SubmitTranscription(c) \/ ThreadStarts(c) \/ ThreadEnds(c) \/ TimeoutThread(c)
        PROVE  ToolsInv'
    BY <1>5, ThreadKeeps
  <1>6. ASSUME NEW c \in ToolCalls, CollectTranscription(c) PROVE ToolsInv'
    BY <1>6, CollectThreadKeeps
  <1>7. CASE KillTools
    BY <1>7, KillToolsKeeps
  <1>8. CASE LoadStep \/ UNCHANGED toolVars
    <2>1. UNCHANGED <<call, body, input, output, record, process, thread, stranded>>
      BY <1>8 DEF LoadStep, toolVars, toolFiles, toolRuns, toolHistory
    <2> QED BY <2>1 DEF ToolsInv, ToolShapes, CallShape, CallSound, StageOK, RunsProcess
  <1> QED BY <1>1, <1>2, <1>3, <1>4, <1>5, <1>6, <1>7, <1>8 DEF ToolsNext

\* The invariant holds of every behaviour.
LEMMA ToolsInvariance == ToolsSpec => []ToolsInv
  <1>1. ToolsInit => ToolsInv
    <2> SUFFICES ASSUME ToolsInit PROVE ToolsInv
      OBVIOUS
    <2>1. ToolShapes
      BY DEF ToolsInit, ToolShapes, CallShape, NoCall
    <2>2. ASSUME NEW c \in ToolCalls PROVE CallSound(c)
      <3>1. call[c] = NoCall /\ body[c].read = 0 /\ process[c] = "none" /\ thread[c] = "none" /\ output[c] = "none"
            /\ input[c] = FALSE /\ record[c] = "none"
        BY DEF ToolsInit
      <3>2. MaxUpload \in Nat
        BY ToolsAssumption
      <3> QED BY <3>1, <3>2 DEF CallSound, StageOK, NoCall
    <2> QED BY <2>1, <2>2 DEF ToolsInit, ToolsInv
  <1> QED BY <1>1, ToolsStep, PTL DEF ToolsSpec

\* Whatever hangs, fails, is refused or comes too late: a request leaves no process
\* behind, is answered 200 for what is complete, and takes no more than its limit.
THEOREM ToolsStaySound == ToolsSpec => []ToolsAreSound
  BY ToolsInvariance, CallByCall, PTL

------------------------------------------------------------------------------
(* Tags: what normalize_tags returns for every list, by induction on its      *)
(* length; the induction is an argument about the least counterexample        *)

\* The least element of a set of numbers: what inductions below rest on.
LEMMA LeastNumber ==
  ASSUME NEW T, T \subseteq Nat, T # {}
  PROVE  \E x \in T : \A y \in T : x <= y
  <1>1. IsWellFoundedOn({p \in Nat \X Nat : p[1] < p[2]}, Nat)
    BY NatLessThanWellFounded DEF OpToRel
  <1>2. PICK x \in T : \A y \in T : <<y, x>> \notin {p \in Nat \X Nat : p[1] < p[2]}
    BY <1>1, WFMin
  <1>3. ASSUME NEW y \in T PROVE x <= y
    <2>1. x \in Nat /\ y \in Nat
      OBVIOUS
    <2>2. ~(y < x)
      <3>1. <<y, x>> \in Nat \X Nat /\ <<y, x>>[1] = y /\ <<y, x>>[2] = x
        BY <2>1
      <3> QED BY <1>2, <3>1
    <2> QED BY <2>1, <2>2
  <1> QED BY <1>3

\* Induction up to m, as a fact about sets.
LEMMA UpTo ==
  ASSUME NEW m \in Nat, NEW S, 0 \in S, \A n \in 1..m : n - 1 \in S => n \in S
  PROVE  \A n \in 0..m : n \in S
  <1> SUFFICES ASSUME (0..m) \ S # {} PROVE FALSE
    OBVIOUS
  <1> DEFINE T == (0..m) \ S
  <1>0. T \subseteq Nat /\ T # {}
    OBVIOUS
  <1>1. PICK x \in T : \A y \in T : x <= y
    <2> HIDE DEF T
    <2> QED BY <1>0, LeastNumber
  <1>2. x \in 1..m /\ x - 1 \in 0..m /\ ~(x <= x - 1)
    BY <1>1
  <1> QED BY <1>1, <1>2

\* What a tag is, and what a list of tags is that has been normalized.
TagRecord == [key : STRING, spelling : STRING, blank : BOOLEAN]
Tidy(out) ==
  /\ Len(out) <= MaxTags
  /\ \A i \in DOMAIN out : out[i].key # NoKey
  /\ \A i, j \in DOMAIN out : out[i].key = out[j].key /\ out[i].blank = out[j].blank => i = j

\* One more tag leaves the list as it should be.
LEMMA AddTagKeeps ==
  ASSUME NEW R, NEW out \in Seq(R), NEW t \in R, Tidy(out)
  PROVE  AddTag(out, t) \in Seq(R) /\ Tidy(AddTag(out, t))
  <1>1. CASE AddTag(out, t) = out
    BY <1>1
  <1>2. CASE AddTag(out, t) # out
    <2> DEFINE new == Append(out, t)
               n == Len(out)
    <2>1. AddTag(out, t) = new
      BY <1>2 DEF AddTag
    <2>2. t.key # NoKey /\ n # MaxTags
      BY <1>2 DEF AddTag
    <2>3. \A i \in 1..n : ~(out[i].key = t.key /\ out[i].blank = t.blank)
      BY <1>2 DEF AddTag
    <2>4. /\ n \in Nat /\ n <= MaxTags /\ MaxTags \in Nat
          /\ \A i \in 1..n : out[i].key # NoKey
      BY GalleryAssumption DEF Tidy
    <2>5. \A i, j \in 1..n : out[i].key = out[j].key /\ out[i].blank = out[j].blank => i = j
      BY DEF Tidy
    <2>6. /\ new \in Seq(R) /\ Len(new) = n + 1 /\ DOMAIN new = 1..n + 1
          /\ \A i \in 1..n : new[i] = out[i]
          /\ new[n + 1] = t
      OBVIOUS
    <2> HIDE DEF new, n
    <2>7. Len(new) <= MaxTags
      BY <2>2, <2>4, <2>6
    <2>8. \A i \in DOMAIN new : new[i].key # NoKey
      BY <2>2, <2>4, <2>6
    <2>9. ASSUME NEW i \in DOMAIN new, NEW j \in DOMAIN new, new[i].key = new[j].key, new[i].blank = new[j].blank
          PROVE  i = j
      <3>1. CASE i \in 1..n /\ j \in 1..n
        BY <2>5, <2>6, <2>9, <3>1
      <3>2. CASE i = n + 1
        BY <2>3, <2>4, <2>6, <2>9, <3>2
      <3>3. CASE j = n + 1
        BY <2>3, <2>4, <2>6, <2>9, <3>3
      <3> QED BY <2>4, <2>6, <3>1, <3>2, <3>3
    <2>10. Tidy(new)
      BY <2>7, <2>8, <2>9 DEF Tidy
    <2> QED BY <2>1, <2>6, <2>10
  <1> QED BY <1>1, <1>2

\* The recursion of _normalize_tags has a solution, whose last value it returns.
LEMMA KeptTags ==
  ASSUME NEW R, NEW raw \in Seq(R)
  PROVE  \E f : /\ DOMAIN f = 0..Len(raw)
                /\ f[0] = <<>> /\ \A n \in 1..Len(raw) : f[n] = AddTag(f[n - 1], raw[n])
                /\ NormalizeTags(raw) = f[Len(raw)]
  <1> DEFINE rhs(f, n) == IF n = 0 THEN <<>> ELSE AddTag(f[n - 1], raw[n])
             S == {n \in 0..Len(raw) : \E f : DOMAIN f = 0..n /\ f = [i \in 0..n |-> rhs(f, i)]}
  <1>0. Len(raw) \in Nat
    OBVIOUS
  <1>1. 0 \in S
    <2>1. [i \in 0..0 |-> <<>>] = [i \in 0..0 |-> rhs([k \in 0..0 |-> <<>>], i)]
      OBVIOUS
    <2> HIDE DEF rhs
    <2> QED BY <1>0, <2>1
  <1>2. ASSUME NEW n \in 1..Len(raw), n - 1 \in S PROVE n \in S
    <2>1. PICK f : DOMAIN f = 0..(n - 1) /\ f = [i \in 0..(n - 1) |-> rhs(f, i)]
      BY <1>2
    <2> DEFINE g == [i \in 0..n |-> IF i = n THEN AddTag(f[n - 1], raw[n]) ELSE f[i]]
    <2>2. DOMAIN g = 0..n
      OBVIOUS
    <2>3. ASSUME NEW i \in 0..n PROVE g[i] = rhs(g, i)
      <3>1. CASE i = n
        BY <3>1
      <3>2. CASE i # n
        <4>1. i \in 0..(n - 1) /\ g[i] = f[i] /\ f[i] = rhs(f, i)
          <5> HIDE DEF rhs
          <5> QED BY <2>1, <3>2
        <4>2. i # 0 => i - 1 \in 0..n /\ i - 1 # n /\ g[i - 1] = f[i - 1]
          BY <3>2
        <4> HIDE DEF g
        <4>3. rhs(g, i) = rhs(f, i)
          <5>1. CASE i = 0
            BY <5>1
          <5>2. CASE i # 0
            BY <4>2, <5>2
          <5> QED BY <5>1, <5>2
        <4> HIDE DEF rhs
        <4> QED BY <4>1, <4>3
      <3> QED BY <3>1, <3>2
    <2>4. g = [i \in 0..n |-> rhs(g, i)]
      <3>1. g = [i \in 0..n |-> g[i]]
        OBVIOUS
      <3> HIDE DEF g, rhs
      <3> QED BY <2>3, <3>1
    <2> HIDE DEF g, rhs
    <2> QED BY <2>2, <2>4
  <1>3. Len(raw) \in S
    <2> HIDE DEF S
    <2>1. \A n \in 0..Len(raw) : n \in S
      BY <1>0, <1>1, <1>2, UpTo
    <2> QED BY <1>0, <2>1
  <1>4. \E f : f = [n \in 0..Len(raw) |-> rhs(f, n)]
    <2> HIDE DEF rhs
    <2> QED BY <1>3
  <1> DEFINE k == CHOOSE f : f = [n \in 0..Len(raw) |-> rhs(f, n)]
  <1>5. k = [n \in 0..Len(raw) |-> rhs(k, n)]
    <2> HIDE DEF rhs
    <2> QED BY <1>4
  <1>6. NormalizeTags(raw) = k[Len(raw)]
    BY DEF NormalizeTags
  <1> HIDE DEF k
  <1>7. DOMAIN k = 0..Len(raw) /\ \A n \in 0..Len(raw) : k[n] = rhs(k, n)
    <2> HIDE DEF rhs
    <2> QED BY <1>5
  <1>8. k[0] = <<>> /\ \A n \in 1..Len(raw) : k[n] = AddTag(k[n - 1], raw[n])
    BY <1>0, <1>7
  <1> QED BY <1>6, <1>7, <1>8

\* Whatever a request brings: what is kept is short and different, and was asked for.
LEMMA NormalizedTags ==
  ASSUME NEW R, NEW raw \in Seq(R)
  PROVE  NormalizeTags(raw) \in Seq(R) /\ Tidy(NormalizeTags(raw))
  <1>1. PICK f : /\ DOMAIN f = 0..Len(raw)
                 /\ f[0] = <<>> /\ \A n \in 1..Len(raw) : f[n] = AddTag(f[n - 1], raw[n])
                 /\ NormalizeTags(raw) = f[Len(raw)]
    BY KeptTags
  <1> DEFINE S == {n \in 0..Len(raw) : f[n] \in Seq(R) /\ Tidy(f[n])}
  <1>2. Len(raw) \in Nat
    OBVIOUS
  <1>3. 0 \in S
    <2>1. <<>> \in Seq(R) /\ Tidy(<<>>)
      BY GalleryAssumption DEF Tidy
    <2>2. f[0] \in Seq(R) /\ Tidy(f[0])
      BY <1>1, <2>1, Zenon
    <2>3. 0 \in 0..Len(raw)
      BY <1>2
    <2> QED BY <2>2, <2>3
  <1>4. ASSUME NEW n \in 1..Len(raw), n - 1 \in S PROVE n \in S
    <2>1. f[n - 1] \in Seq(R) /\ Tidy(f[n - 1]) /\ raw[n] \in R /\ f[n] = AddTag(f[n - 1], raw[n])
      BY <1>1, <1>4
    <2> QED BY <2>1, AddTagKeeps
  <1>5. Len(raw) \in S
    <2> HIDE DEF S
    <2>1. \A n \in 0..Len(raw) : n \in S
      BY <1>2, <1>3, <1>4, UpTo
    <2> QED BY <1>2, <2>1
  <1> QED BY <1>1, <1>5

\* A list that has been normalized stays as it is.
LEMMA TidyStays ==
  ASSUME NEW R, NEW raw \in Seq(R), Tidy(raw)
  PROVE  NormalizeTags(raw) = raw
  <1>1. PICK f : /\ DOMAIN f = 0..Len(raw)
                 /\ f[0] = <<>> /\ \A n \in 1..Len(raw) : f[n] = AddTag(f[n - 1], raw[n])
                 /\ NormalizeTags(raw) = f[Len(raw)]
    BY KeptTags
  <1> DEFINE S == {n \in 0..Len(raw) : f[n] = SubSeq(raw, 1, n)}
  <1>2. Len(raw) \in Nat /\ MaxTags \in Nat /\ Len(raw) <= MaxTags
    BY GalleryAssumption DEF Tidy
  <1>3. 0 \in S
    <2>1. SubSeq(raw, 1, 0) = <<>>
      OBVIOUS
    <2>2. f[0] = SubSeq(raw, 1, 0)
      BY <1>1, <2>1, Zenon
    <2>3. 0 \in 0..Len(raw)
      BY <1>2
    <2> QED BY <2>2, <2>3
  <1>4. ASSUME NEW n \in 1..Len(raw), n - 1 \in S PROVE n \in S
    <2> DEFINE out == SubSeq(raw, 1, n - 1)
    <2>1. f[n] = AddTag(out, raw[n])
      BY <1>1, <1>4
    <2>2. out \in Seq(R) /\ Len(out) = n - 1 /\ DOMAIN out = 1..(n - 1) /\ \A i \in 1..(n - 1) : out[i] = raw[i]
      BY <1>2
    <2>3. SubSeq(raw, 1, n) = Append(out, raw[n])
      BY <1>2
    <2>4. raw[n].key # NoKey /\ \A i \in 1..(n - 1) : ~(raw[i].key = raw[n].key /\ raw[i].blank = raw[n].blank)
      BY <1>2 DEF Tidy
    <2> HIDE DEF out
    <2>5. AddTag(out, raw[n]) = Append(out, raw[n])
      <3>1. Len(out) # MaxTags
        BY <1>2, <2>2
      <3>2. ~\E i \in DOMAIN out : out[i].key = raw[n].key /\ out[i].blank = raw[n].blank
        BY <2>2, <2>4
      <3> QED BY <2>4, <3>1, <3>2 DEF AddTag
    <2>6. f[n] = SubSeq(raw, 1, n)
      BY <2>1, <2>3, <2>5, Zenon
    <2> QED BY <1>2, <2>6
  <1>5. Len(raw) \in S
    <2> HIDE DEF S
    <2>1. \A n \in 0..Len(raw) : n \in S
      BY <1>2, <1>3, <1>4, UpTo
    <2> QED BY <1>2, <2>1
  <1>6. SubSeq(raw, 1, Len(raw)) = raw
    OBVIOUS
  <1> QED BY <1>1, <1>5, <1>6

\* The tags of a picture are what the runs check of them, if they have been normalized.
LEMMA TidyIsFound ==
  ASSUME NEW stored \in Seq(TagRecord), Tidy(stored)
  PROVE  LET shown == ShownTags(stored)
         IN /\ Len(stored) <= MaxTags /\ NormalizeTags(stored) = stored /\ NormalizeTags(shown) = shown
            /\ \A i, j \in DOMAIN shown : shown[i].key = shown[j].key => i = j
            /\ \A i \in DOMAIN shown : FoundByTag(stored, shown[i]) \/ \E k \in DOMAIN stored : stored[k].blank
  <1> DEFINE plain == [i \in DOMAIN stored |-> [stored[i] EXCEPT !.blank = FALSE]]
             shown == ShownTags(stored)
             R == {t \in TagRecord : t.blank = FALSE}
  <1>1. plain \in Seq(R)
    <2>1. DOMAIN stored = 1..Len(stored) /\ Len(stored) \in Nat
      OBVIOUS
    <2>2. ASSUME NEW i \in DOMAIN stored PROVE plain[i] \in R
      <3>1. stored[i] \in TagRecord
        OBVIOUS
      <3> DEFINE t == stored[i]
      <3> HIDE DEF t
      <3>2. t \in TagRecord => [t EXCEPT !.blank = FALSE] \in R
        BY DEF TagRecord
      <3> QED BY <3>1, <3>2 DEF t
    <2>3. plain \in [1..Len(stored) -> R]
      <3> HIDE DEF R
      <3> QED BY <2>1, <2>2
    <2> HIDE DEF plain, R
    <2> QED BY <2>1, <2>3
  <1>2. shown = NormalizeTags(plain)
    BY DEF ShownTags
  <1> HIDE DEF plain, shown
  <1>3. shown \in Seq(R) /\ Tidy(shown)
    <2> HIDE DEF R
    <2> QED BY <1>1, <1>2, NormalizedTags
  <1>4. NormalizeTags(shown) = shown
    <2> HIDE DEF R
    <2> QED BY <1>3, TidyStays
  <1>5. NormalizeTags(stored) = stored
    BY TidyStays
  <1>6. ASSUME NEW i \in DOMAIN shown PROVE shown[i] \in TagRecord /\ shown[i].blank = FALSE
    BY <1>3
  <1>7. \A i, j \in DOMAIN shown : shown[i].key = shown[j].key => i = j
    BY <1>3, <1>6 DEF Tidy
  <1>8. ASSUME NEW i \in DOMAIN shown, ~\E k \in DOMAIN stored : stored[k].blank
        PROVE  FoundByTag(stored, shown[i])
    <2>1. plain = stored
      <3>1. ASSUME NEW k \in DOMAIN stored PROVE plain[k] = stored[k]
        <4>0. stored[k] \in TagRecord
          OBVIOUS
        <4>1. stored[k].blank \in BOOLEAN /\ ~stored[k].blank
          BY <1>8, <4>0 DEF TagRecord
        <4> DEFINE t == stored[k]
        <4>2. plain[k] = [t EXCEPT !.blank = FALSE]
          BY DEF plain
        <4> HIDE DEF t
        <4>3. t \in TagRecord /\ t.blank = FALSE => [t EXCEPT !.blank = FALSE] = t
          BY DEF TagRecord
        <4>4. t.blank = FALSE
          BY <4>1, Zenon DEF t
        <4> QED BY <4>0, <4>2, <4>3, <4>4 DEF t
      <3>2. plain = [k \in DOMAIN stored |-> plain[k]] /\ stored = [k \in DOMAIN stored |-> stored[k]]
        BY DEF plain
      <3> QED BY <3>1, <3>2
    <2>2. shown = stored
      BY <1>2, <1>5, <2>1
    <2> QED BY <1>6, <2>2 DEF FoundByTag
  <1> QED BY <1>4, <1>5, <1>7, <1>8 DEF Tidy, shown

------------------------------------------------------------------------------
(* Gallery: the files of a picture carry its stem, and only its own delete    *)
(* takes them away; its row may also go with its job                          *)

\* The types of an edit, of a backup and of a tag.
EditRecord == [stage : {"idle", "found", "unlinked"}, op : {"none", "delete", "tag"},
               picture : Pictures \union {NoPicture}]
BackupRecord == [whole : BOOLEAN, rows : SUBSET Pictures, files : SUBSET Stems]

GalleryShapes ==
  /\ png \in [Stems -> Pictures \union {NoPicture}]
  /\ sidecar \in [Stems -> Pictures \union {NoPicture}]
  /\ thumb \in [Stems -> Pictures \union {NoPicture}]
  /\ stem \in [Pictures -> Stems \union {NoStem}]
  /\ saving \in [Pictures -> {"no", "png", "sidecar", "thumb", "row", "failed"}]
  /\ imageRow \subseteq Pictures /\ removed \subseteq Pictures /\ cleared \subseteq Pictures
  /\ tags \in [Pictures -> Seq(TagRecord)]
  /\ edit \in [Editors -> EditRecord]
  /\ backup \in [stage : {"idle", "db"}, rows : SUBSET Pictures]
  /\ backups \in Seq(BackupRecord)

\* A file shows a picture that drew its stem.
FilesAreOwned ==
  \A s \in Stems :
    /\ png[s] \in Pictures => stem[png[s]] = s
    /\ sidecar[s] \in Pictures => stem[sidecar[s]] = s
    /\ thumb[s] \in Pictures => stem[thumb[s]] = s

\* What has been saved of a picture is there until it is removed, unless stems clash.
SavedIsThere ==
  \A p \in Pictures :
    /\ saving[p] = "no" <=> stem[p] = NoStem
    /\ ~Clash(p) =>
         /\ saving[p] \in {"png", "sidecar", "thumb", "row"} /\ p \notin removed => png[stem[p]] = p
         /\ saving[p] \in {"sidecar", "thumb", "row"} => sidecar[stem[p]] = p
         /\ saving[p] \in {"thumb", "row"} /\ p \notin removed => thumb[stem[p]] = p

\* Rows, edits and backups are of pictures that were committed.
RowsAreSaved ==
  /\ \A p \in imageRow \union backup.rows : saving[p] = "row"
  /\ \A i \in DOMAIN backups : \A p \in backups[i].rows : saving[p] = "row"
  /\ \A e \in Editors : edit[e].stage # "idle" =>
       /\ edit[e].picture \in Pictures /\ saving[edit[e].picture] = "row"
       /\ edit[e].stage = "unlinked" => edit[e].picture \in removed

\* A picture that has lost its row lost it by a delete or with its job.
LostRowsAreKnown ==
  \A p \in Pictures : saving[p] = "row" /\ p \notin imageRow /\ p \notin removed => p \in cleared

TagsAreTidy == \A p \in Pictures : Tidy(tags[p])

GalleryInv ==
  /\ GalleryShapes /\ FilesAreOwned /\ SavedIsThere /\ RowsAreSaved /\ TagsAreTidy
  /\ LostRowsAreKnown /\ BackupsAreWhole

\* The invariant implies what the runs check.
LEMMA GalleryInvImplies == GalleryInv => GalleryIsSound
  <1> SUFFICES ASSUME GalleryInv PROVE GalleryIsSound
    OBVIOUS
  <1> USE GalleryAssumption
  <1>1. GalleryTypeOK
    BY DEF GalleryInv, GalleryShapes, GalleryTypeOK
  <1>2. RowsHaveFiles
    <2> SUFFICES ASSUME NEW p \in imageRow, ~Clash(p)
                 PROVE  /\ p \notin removed => Served(p) = {p} /\ sidecar[stem[p]] = p
                        /\ Served(p) \union Exported(Pictures)[p] \subseteq {p}
      BY DEF RowsHaveFiles
    <2>1. p \in Pictures /\ saving[p] = "row" /\ stem[p] \in Stems
      BY DEF GalleryInv, GalleryShapes, RowsAreSaved, SavedIsThere
    <2>2. sidecar[stem[p]] = p /\ (p \notin removed => png[stem[p]] = p /\ thumb[stem[p]] = p)
      BY <2>1 DEF GalleryInv, SavedIsThere
    <2>3. png[stem[p]] \in {p, NoPicture} /\ thumb[stem[p]] \in {p, NoPicture}
      BY <2>1 DEF GalleryInv, GalleryShapes, FilesAreOwned, Clash
    <2>4. Exported(Pictures)[p] = {png[stem[p]]} \ {NoPicture}
      BY <2>1 DEF Exported
    <2> QED BY <2>1, <2>2, <2>3, <2>4 DEF Served
  <1>3. TagsAreFound
    <2> SUFFICES ASSUME NEW p \in Pictures
                 PROVE  LET shown == ShownTags(tags[p])
                        IN /\ Len(tags[p]) <= MaxTags /\ NormalizeTags(tags[p]) = tags[p]
                           /\ NormalizeTags(shown) = shown
                           /\ \A i, j \in DOMAIN shown : shown[i].key = shown[j].key => i = j
                           /\ \A i \in DOMAIN shown :
                                FoundByTag(tags[p], shown[i]) \/ \E k \in DOMAIN tags[p] : tags[p][k].blank
      BY DEF TagsAreFound
    <2>1. tags[p] \in Seq(TagRecord) /\ Tidy(tags[p])
      BY DEF GalleryInv, GalleryShapes, TagsAreTidy
    <2> QED BY <2>1, TidyIsFound
  <1>4. DeletedStayDeleted
    <2> SUFFICES ASSUME NEW p \in Pictures, saving[p] = "row", p \notin imageRow, p \notin removed, ~Clash(p)
                 PROVE  Served(p) = {p} /\ sidecar[stem[p]] = p
      BY DEF DeletedStayDeleted, GalleryInv, LostRowsAreKnown
    <2>1. png[stem[p]] = p /\ thumb[stem[p]] = p /\ sidecar[stem[p]] = p
      BY DEF GalleryInv, SavedIsThere
    <2> QED BY <2>1 DEF Served
  <1> QED BY <1>1, <1>2, <1>3, <1>4 DEF GalleryIsSound, GalleryInv

\* Clashes do not go away, and what the backups say does not depend on anything else.
LEMMA ClashStays ==
  ASSUME GalleryShapes, \A q \in Pictures : stem[q] # NoStem => stem'[q] = stem[q],
         NEW p \in Pictures, Clash(p)
  PROVE  Clash(p)'
  BY DEF Clash

\* What is in a backup are pictures.
LEMMA BackupRows ==
  ASSUME GalleryShapes, NEW i \in DOMAIN backups
  PROVE  backups[i] \in BackupRecord /\ backups[i].rows \subseteq Pictures
  <1>1. backups \in Seq(BackupRecord)
    BY DEF GalleryShapes
  <1>2. backups[i] \in BackupRecord
    BY <1>1
  <1> QED BY <1>2 DEF BackupRecord

\* What is left of the invariant when only the files of a picture are written.
LEMMA SaveKeepsRest ==
  ASSUME GalleryInv, UNCHANGED <<galleryRows, edit, backup, galleryBackups, removed, cleared>>,
         \A q \in Pictures : /\ stem[q] # NoStem => stem'[q] = stem[q]
                             /\ saving[q] = "row" => saving'[q] = "row"
                             /\ saving'[q] = "row" => saving[q] = "row" \/ q \in imageRow
  PROVE  RowsAreSaved' /\ TagsAreTidy' /\ LostRowsAreKnown' /\ BackupsAreWhole'
  <1>1. TagsAreTidy'
    BY DEF GalleryInv, TagsAreTidy, galleryRows
  <1>2. LostRowsAreKnown'
    BY DEF GalleryInv, LostRowsAreKnown, galleryRows
  <1>3. RowsAreSaved'
    <2>1. imageRow \union backup.rows \subseteq Pictures
      BY DEF GalleryInv, GalleryShapes
    <2>2. \A i \in DOMAIN backups : backups[i].rows \subseteq Pictures
      BY BackupRows DEF GalleryInv
    <2> QED BY <2>1, <2>2 DEF GalleryInv, RowsAreSaved, galleryRows, galleryBackups
  <1>4. BackupsAreWhole'
    <2>1. \A i \in DOMAIN backups : backups[i].rows \subseteq Pictures
      BY BackupRows DEF GalleryInv
    <2>2. \A i \in DOMAIN backups : \A p \in backups[i].rows : stem'[p] = stem[p]
      <3> SUFFICES ASSUME NEW i \in DOMAIN backups, NEW p \in backups[i].rows PROVE stem'[p] = stem[p]
        OBVIOUS
      <3>1. p \in Pictures /\ saving[p] = "row"
        BY <2>1 DEF GalleryInv, RowsAreSaved
      <3> QED BY <3>1 DEF GalleryInv, SavedIsThere
    <2>3. \A i \in DOMAIN backups : \A p \in backups[i].rows : Clash(p) => Clash(p)'
      BY <2>1, ClashStays DEF GalleryInv
    <2> QED BY <2>2, <2>3 DEF GalleryInv, BackupsAreWhole, galleryBackups
  <1> QED BY <1>1, <1>2, <1>3, <1>4

\* The PNG is written under a stem that is drawn, and may be another picture's.
LEMMA SavePngKeeps ==
  ASSUME GalleryInv, NEW p \in Pictures, NEW s \in Stems, SavePng(p, s)
  PROVE  GalleryInv'
  <1> USE GalleryAssumption
  <1>1. /\ saving[p] = "no" /\ stem[p] = NoStem
        /\ png' = [png EXCEPT ![s] = p] /\ stem' = [stem EXCEPT ![p] = s] /\ saving' = [saving EXCEPT ![p] = "png"]
        /\ UNCHANGED <<sidecar, thumb, galleryRows, edit, backup, galleryBackups, galleryHistory>>
    BY DEF SavePng, GalleryInv, SavedIsThere
  <1>2. GalleryShapes
    BY DEF GalleryInv
  <1>3. GalleryShapes'
    BY <1>1, <1>2 DEF GalleryShapes, galleryRows, galleryHistory, galleryBackups
  <1>4. /\ stem'[p] = s /\ saving'[p] = "png" /\ png'[s] = p
        /\ \A q \in Pictures \ {p} : stem'[q] = stem[q] /\ saving'[q] = saving[q]
        /\ \A t \in Stems \ {s} : png'[t] = png[t]
    BY <1>1, <1>2 DEF GalleryShapes
  <1>5. FilesAreOwned'
    <2> SUFFICES ASSUME NEW t \in Stems
                 PROVE  /\ png'[t] \in Pictures => stem'[png'[t]] = t
                        /\ sidecar'[t] \in Pictures => stem'[sidecar'[t]] = t
                        /\ thumb'[t] \in Pictures => stem'[thumb'[t]] = t
      BY DEF FilesAreOwned
    <2>1. \A q \in Pictures : stem[q] = t => stem'[q] = t
      BY <1>1, <1>4
    <2> QED BY <1>1, <1>4, <2>1 DEF GalleryInv, FilesAreOwned
  <1>6. \A q \in Pictures : stem[q] # NoStem => stem'[q] = stem[q]
    BY <1>1, <1>4
  <1>7. SavedIsThere'
    <2> SUFFICES ASSUME NEW q \in Pictures
                 PROVE  /\ saving'[q] = "no" <=> stem'[q] = NoStem
                        /\ ~Clash(q)' =>
                             /\ saving'[q] \in {"png", "sidecar", "thumb", "row"} /\ q \notin removed'
                                  => png'[stem'[q]] = q
                             /\ saving'[q] \in {"sidecar", "thumb", "row"} => sidecar'[stem'[q]] = q
                             /\ saving'[q] \in {"thumb", "row"} /\ q \notin removed' => thumb'[stem'[q]] = q
      BY DEF SavedIsThere
    <2>1. CASE q = p
      BY <1>4, <2>1
    <2>2. CASE q # p
      <3>1. saving'[q] = saving[q] /\ stem'[q] = stem[q] /\ (Clash(q) => Clash(q)')
        BY <1>2, <1>4, <1>6, <2>2, ClashStays
      <3>2. stem[q] = s => Clash(q)'
        BY <1>4, <2>2, <3>1 DEF Clash
      <3>3. stem[q] # s /\ saving[q] # "no" => png'[stem[q]] = png[stem[q]]
        BY <1>2, <1>4 DEF GalleryInv, GalleryShapes, SavedIsThere
      <3> QED BY <1>1, <3>1, <3>2, <3>3 DEF GalleryInv, SavedIsThere, galleryHistory, galleryBackups
    <2> QED BY <2>1, <2>2
  <1>8. RowsAreSaved' /\ TagsAreTidy' /\ LostRowsAreKnown' /\ BackupsAreWhole'
    <2>1. \A q \in Pictures : (saving[q] = "row" => saving'[q] = "row") /\ (saving'[q] = "row" => saving[q] = "row")
      BY <1>1, <1>4
    <2> QED BY <1>1, <1>6, <2>1, SaveKeepsRest DEF galleryHistory, galleryBackups
  <1> QED BY <1>3, <1>5, <1>7, <1>8 DEF GalleryInv

\* The steps after it write the same stem, and a row comes last.
LEMMA SaveOnKeeps ==
  ASSUME GalleryInv, NEW p \in Pictures, SaveSidecar(p) \/ SaveThumb(p) \/ SaveFails(p)
  PROVE  GalleryInv'
  <1> USE GalleryAssumption
  <1> DEFINE now == saving'[p]
  <1>1. /\ saving[p] \in {"png", "sidecar", "thumb"} /\ saving' = [saving EXCEPT ![p] = now]
        /\ now \in {"sidecar", "thumb", "failed"}
        /\ UNCHANGED <<png, stem, galleryRows, edit, backup, galleryBackups, galleryHistory>>
    BY DEF SaveSidecar, SaveThumb, SaveFails, GalleryInv, GalleryShapes, galleryFiles
  <1>2. GalleryShapes /\ stem[p] \in Stems
    BY <1>1 DEF GalleryInv, GalleryShapes, SavedIsThere
  <1>3. /\ sidecar' = IF now = "sidecar" THEN [sidecar EXCEPT ![stem[p]] = p] ELSE sidecar
        /\ thumb' = IF now = "thumb" THEN [thumb EXCEPT ![stem[p]] = p] ELSE thumb
        /\ now = "thumb" => saving[p] = "sidecar"
    BY <1>2 DEF SaveSidecar, SaveThumb, SaveFails, GalleryShapes, galleryFiles
  <1>4. GalleryShapes'
    <2>1. saving' \in [Pictures -> {"no", "png", "sidecar", "thumb", "row", "failed"}]
      BY <1>1, <1>2 DEF GalleryShapes
    <2>2. sidecar' \in [Stems -> Pictures \union {NoPicture}] /\ thumb' \in [Stems -> Pictures \union {NoPicture}]
      BY <1>2, <1>3 DEF GalleryShapes
    <2> QED BY <1>1, <1>2, <2>1, <2>2 DEF GalleryShapes, galleryRows, galleryHistory, galleryBackups
  <1> HIDE DEF now
  <1>5. \A q \in Pictures \ {p} : saving'[q] = saving[q]
    BY <1>1, <1>2 DEF GalleryShapes
  <1>6. saving'[p] = now
    BY DEF now
  <1>7. FilesAreOwned'
    BY <1>1, <1>2, <1>3 DEF GalleryInv, GalleryShapes, FilesAreOwned
  <1>8. SavedIsThere'
    <2> SUFFICES ASSUME NEW q \in Pictures
                 PROVE  /\ saving'[q] = "no" <=> stem'[q] = NoStem
                        /\ ~Clash(q)' =>
                             /\ saving'[q] \in {"png", "sidecar", "thumb", "row"} /\ q \notin removed'
                                  => png'[stem'[q]] = q
                             /\ saving'[q] \in {"sidecar", "thumb", "row"} => sidecar'[stem'[q]] = q
                             /\ saving'[q] \in {"thumb", "row"} /\ q \notin removed' => thumb'[stem'[q]] = q
      BY DEF SavedIsThere
    <2>1. Clash(q)' <=> Clash(q)
      BY <1>1 DEF Clash
    <2>2. CASE q = p
      <3>1. now = "sidecar" => sidecar'[stem[p]] = p
        BY <1>2, <1>3 DEF GalleryShapes
      <3>2. now = "thumb" => thumb'[stem[p]] = p /\ sidecar' = sidecar
        BY <1>2, <1>3 DEF GalleryShapes
      <3> QED BY <1>1, <1>2, <1>3, <1>6, <2>1, <2>2, <3>1, <3>2 DEF GalleryInv, SavedIsThere, galleryHistory, galleryBackups
    <2>3. CASE q # p
      <3>1. ~Clash(q) => stem[q] # stem[p]
        BY <1>2, <2>3 DEF Clash
      <3>2. saving[q] # "no" => stem[q] \in Stems
        BY <1>2 DEF GalleryInv, GalleryShapes, SavedIsThere
      <3>3. ~Clash(q) /\ saving[q] # "no" => sidecar'[stem[q]] = sidecar[stem[q]] /\ thumb'[stem[q]] = thumb[stem[q]]
        BY <1>2, <1>3, <3>1, <3>2 DEF GalleryShapes
      <3> QED BY <1>1, <1>5, <2>1, <2>3, <3>3 DEF GalleryInv, SavedIsThere, galleryHistory, galleryBackups
    <2> QED BY <2>2, <2>3
  <1>9. RowsAreSaved' /\ TagsAreTidy' /\ LostRowsAreKnown' /\ BackupsAreWhole'
    <2>1. \A q \in Pictures : (saving[q] = "row" => saving'[q] = "row") /\ (saving'[q] = "row" => saving[q] = "row")
      BY <1>1, <1>5, <1>6
    <2> QED BY <1>1, <2>1, SaveKeepsRest DEF galleryHistory, galleryBackups
  <1> QED BY <1>4, <1>7, <1>8, <1>9 DEF GalleryInv

\* The row is committed when all three files are there.
LEMMA CommitImageKeeps ==
  ASSUME GalleryInv, NEW p \in Pictures, CommitImage(p)
  PROVE  GalleryInv'
  <1>1. /\ saving[p] = "thumb" /\ imageRow' = imageRow \union {p} /\ saving' = [saving EXCEPT ![p] = "row"]
        /\ UNCHANGED <<galleryFiles, stem, tags, edit, backup, galleryBackups, galleryHistory>>
    BY DEF CommitImage
  <1>2. GalleryShapes
    BY DEF GalleryInv
  <1>3. saving'[p] = "row" /\ \A q \in Pictures \ {p} : saving'[q] = saving[q]
    BY <1>1, <1>2 DEF GalleryShapes
  <1>4. GalleryShapes'
    BY <1>1, <1>2 DEF GalleryShapes, galleryFiles, galleryHistory, galleryBackups
  <1>5. FilesAreOwned' /\ TagsAreTidy'
    BY <1>1 DEF GalleryInv, FilesAreOwned, TagsAreTidy, galleryFiles
  <1>6. SavedIsThere'
    <2>1. \A q \in Pictures : Clash(q)' <=> Clash(q)
      BY <1>1 DEF Clash
    <2> QED BY <1>1, <1>3, <2>1 DEF GalleryInv, SavedIsThere, galleryFiles, galleryHistory, galleryBackups
  <1>7. RowsAreSaved'
    <2>1. imageRow \union backup.rows \subseteq Pictures
      BY <1>2 DEF GalleryShapes
    <2>2. \A i \in DOMAIN backups : backups[i].rows \subseteq Pictures
      BY <1>2, BackupRows
    <2>3. \A q \in Pictures : saving[q] = "row" => saving'[q] = "row"
      BY <1>3
    <2> QED BY <1>1, <1>3, <2>1, <2>2, <2>3 DEF GalleryInv, RowsAreSaved, galleryHistory, galleryBackups
  <1>8. LostRowsAreKnown'
    BY <1>1, <1>3 DEF GalleryInv, LostRowsAreKnown, galleryHistory, galleryBackups
  <1>9. BackupsAreWhole'
    BY <1>1 DEF GalleryInv, BackupsAreWhole, Clash, galleryHistory, galleryBackups
  <1> QED BY <1>4, <1>5, <1>6, <1>7, <1>8, <1>9 DEF GalleryInv

\* A delete unlinks the files of a picture that was committed, and notes it.
LEMMA UnlinkKeeps ==
  ASSUME GalleryInv, NEW e \in Editors, UnlinkFiles(e)
  PROVE  GalleryInv'
  <1> USE GalleryAssumption
  <1> DEFINE p == edit[e].picture
  <1>1. GalleryShapes /\ edit[e].stage = "found"
    BY DEF GalleryInv, UnlinkFiles
  <1>2. p \in Pictures /\ saving[p] = "row" /\ stem[p] \in Stems
    BY <1>1 DEF GalleryInv, RowsAreSaved, SavedIsThere, GalleryShapes
  <1>3. /\ png' \in {png, [png EXCEPT ![stem[p]] = NoPicture]}
        /\ thumb' \in {thumb, [thumb EXCEPT ![stem[p]] = NoPicture]}
        /\ removed' = removed \union {p} /\ cleared' = cleared \ {p}
        /\ edit' = [edit EXCEPT ![e].stage = "unlinked"]
        /\ UNCHANGED <<sidecar, stem, saving, galleryRows, backup, galleryBackups, galleryKills>>
    BY DEF UnlinkFiles
  <1> HIDE DEF p
  <1>4. /\ png' \in [Stems -> Pictures \union {NoPicture}] /\ thumb' \in [Stems -> Pictures \union {NoPicture}]
        /\ \A s \in Stems \ {stem[p]} : png'[s] = png[s] /\ thumb'[s] = thumb[s]
        /\ \A s \in Stems : png'[s] \in {png[s], NoPicture} /\ thumb'[s] \in {thumb[s], NoPicture}
    BY <1>1, <1>2, <1>3 DEF GalleryShapes
  <1>5. /\ edit' \in [Editors -> EditRecord]
        /\ edit'[e].stage = "unlinked" /\ edit'[e].picture = p
        /\ \A d \in Editors \ {e} : edit'[d] = edit[d]
    <2>1. edit[e] \in EditRecord
      BY <1>1 DEF GalleryShapes
    <2>2. [edit[e] EXCEPT !.stage = "unlinked"] \in EditRecord
      BY <2>1 DEF EditRecord
    <2>3. edit'[e] = [edit[e] EXCEPT !.stage = "unlinked"] /\ \A d \in Editors \ {e} : edit'[d] = edit[d]
      BY <1>1, <1>3 DEF GalleryShapes
    <2> QED BY <1>1, <1>3, <2>1, <2>2, <2>3 DEF GalleryShapes, EditRecord, p
  <1>6. GalleryShapes'
    BY <1>1, <1>2, <1>3, <1>4, <1>5 DEF GalleryShapes, galleryRows, galleryBackups
  <1>7. FilesAreOwned'
    BY <1>3, <1>4 DEF GalleryInv, FilesAreOwned
  <1>8. SavedIsThere'
    <2>1. \A q \in Pictures : Clash(q)' <=> Clash(q)
      BY <1>3 DEF Clash
    <2>2. ASSUME NEW q \in Pictures, ~Clash(q), q \notin removed', saving[q] # "no"
          PROVE  q \notin removed /\ png'[stem[q]] = png[stem[q]] /\ thumb'[stem[q]] = thumb[stem[q]]
      <3>1. q # p /\ stem[q] \in Stems
        BY <1>1, <1>3, <2>2 DEF GalleryInv, SavedIsThere, GalleryShapes
      <3>2. stem[q] # stem[p]
        BY <1>2, <2>2, <3>1 DEF Clash
      <3> QED BY <1>3, <1>4, <2>2, <3>1, <3>2
    <2> QED BY <1>3, <2>1, <2>2 DEF GalleryInv, SavedIsThere
  <1>9. RowsAreSaved' /\ TagsAreTidy' /\ LostRowsAreKnown'
    BY <1>2, <1>3, <1>5 DEF GalleryInv, RowsAreSaved, TagsAreTidy, LostRowsAreKnown, galleryRows, galleryBackups
  <1>10. BackupsAreWhole'
    BY <1>3 DEF GalleryInv, BackupsAreWhole, Clash, galleryBackups
  <1> QED BY <1>6, <1>7, <1>8, <1>9, <1>10 DEF GalleryInv

\* Requests that find a row, and their commits.
LEMMA EditKeeps ==
  ASSUME GalleryInv, NEW e \in Editors,
         \/ \E p \in Pictures, op \in {"delete", "tag"} : FindImage(e, op, p)
         \/ CommitDelete(e)
         \/ \E raw \in RawTags : CommitTags(e, raw)
  PROVE  GalleryInv'
  <1> USE GalleryAssumption
  <1>1. GalleryShapes
    BY DEF GalleryInv
  <1>2. UNCHANGED <<galleryFiles, stem, saving, backup, galleryBackups, galleryHistory>>
    BY DEF FindImage, CommitDelete, CommitTags
  <1>3. NoEdit \in EditRecord /\ NoEdit.stage = "idle"
    BY DEF NoEdit, EditRecord
  <1>4. /\ edit' \in [Editors -> EditRecord]
        /\ \A d \in Editors \ {e} : edit'[d] = edit[d]
        /\ \/ edit'[e].stage = "idle"
           \/ edit'[e].stage = "found" /\ edit'[e].picture \in imageRow
    <2>1. CASE \E p \in Pictures, op \in {"delete", "tag"} : FindImage(e, op, p)
      <3>1. PICK p \in imageRow, op \in {"delete", "tag"} :
              edit' = [edit EXCEPT ![e] = [stage |-> "found", op |-> op, picture |-> p]]
        BY <2>1 DEF FindImage
      <3> DEFINE new == [stage |-> "found", op |-> op, picture |-> p]
      <3>2. new \in EditRecord /\ new.stage = "found" /\ new.picture = p
        BY <1>1 DEF EditRecord, GalleryShapes
      <3> HIDE DEF new
      <3> QED BY <1>1, <3>1, <3>2 DEF GalleryShapes, new
    <2>2. CASE edit' = [edit EXCEPT ![e] = NoEdit]
      BY <1>1, <1>3, <2>2 DEF GalleryShapes
    <2> QED BY <2>1, <2>2 DEF CommitDelete, CommitTags
  <1>5. imageRow' \subseteq imageRow /\ \A p \in imageRow \ imageRow' : p \in removed
    BY DEF FindImage, CommitDelete, CommitTags, galleryRows, GalleryInv, RowsAreSaved
  <1>6. \A p \in Pictures : tags'[p] \in Seq(TagRecord) /\ Tidy(tags'[p])
    <2>1. \A p \in Pictures : tags[p] \in Seq(TagRecord) /\ Tidy(tags[p])
      BY DEF GalleryInv, GalleryShapes, TagsAreTidy
    <2>2. ASSUME NEW raw \in RawTags, CommitTags(e, raw)
          PROVE  \A p \in Pictures : tags'[p] \in Seq(TagRecord) /\ Tidy(tags'[p])
      <3>1. raw \in Seq(TagRecord)
        BY DEF TagRecord
      <3>2. NormalizeTags(raw) \in Seq(TagRecord) /\ Tidy(NormalizeTags(raw))
        BY <3>1, NormalizedTags
      <3>3. \A p \in Pictures : tags'[p] \in {tags[p], NormalizeTags(raw)}
        BY <1>1, <2>2 DEF CommitTags, GalleryShapes
      <3> QED BY <2>1, <3>2, <3>3
    <2>3. CASE UNCHANGED tags
      BY <2>1, <2>3
    <2> QED BY <2>2, <2>3 DEF FindImage, CommitDelete, galleryRows
  <1>7. GalleryShapes'
    <2>1. tags' = [p \in Pictures |-> tags'[p]]
      BY <1>1 DEF FindImage, CommitDelete, CommitTags, galleryRows, GalleryShapes
    <2>2. tags' \in [Pictures -> Seq(TagRecord)]
      BY <1>6, <2>1
    <2> QED BY <1>1, <1>2, <1>4, <1>5, <2>2 DEF GalleryShapes, galleryFiles, galleryHistory, galleryBackups
  <1>8. FilesAreOwned' /\ SavedIsThere' /\ BackupsAreWhole'
    BY <1>2 DEF GalleryInv, FilesAreOwned, SavedIsThere, BackupsAreWhole, Clash, galleryFiles, galleryHistory, galleryBackups
  <1>9. RowsAreSaved'
    BY <1>1, <1>2, <1>4, <1>5 DEF GalleryInv, RowsAreSaved, GalleryShapes, galleryHistory, galleryBackups
  <1>10. LostRowsAreKnown'
    BY <1>2, <1>5 DEF GalleryInv, LostRowsAreKnown, galleryHistory, galleryBackups
  <1>11. TagsAreTidy'
    BY <1>6 DEF TagsAreTidy
  <1> QED BY <1>7, <1>8, <1>9, <1>10, <1>11 DEF GalleryInv

\* What the retention leaves are backups there were, and the last of them, if any.
LEMMA RetainedFacts ==
  ASSUME NEW all \in Seq(BackupRecord)
  PROVE  /\ Retained(all) \in Seq(BackupRecord)
         /\ \A i \in DOMAIN Retained(all) : \E j \in DOMAIN all : Retained(all)[i] = all[j]
         /\ KeepBackups > 0 /\ Len(all) > 0 => \E i \in DOMAIN Retained(all) : Retained(all)[i] = all[Len(all)]
  <1> USE GalleryAssumption
  <1> DEFINE n == Len(all)
             from == n - KeepBackups + 1
  <1>0. n \in Nat /\ KeepBackups \in Nat
    OBVIOUS
  <1>1. CASE KeepBackups >= n
    <2>1. Retained(all) = all
      BY <1>1 DEF Retained
    <2>2. n > 0 => n \in DOMAIN all
      OBVIOUS
    <2> QED BY <2>1, <2>2
  <1>2. CASE ~(KeepBackups >= n)
    <2>1. Retained(all) = SubSeq(all, from, n)
      BY <1>2 DEF Retained
    <2>2. from \in 1..(n + 1) /\ n - from + 1 = KeepBackups
      BY <1>0, <1>2
    <2> HIDE DEF from
    <2>3. /\ SubSeq(all, from, n) \in Seq(BackupRecord) /\ Len(SubSeq(all, from, n)) = KeepBackups
          /\ \A i \in 1..KeepBackups : SubSeq(all, from, n)[i] = all[from + i - 1] /\ from + i - 1 \in 1..n
      BY <1>0, <2>2
    <2>4. DOMAIN SubSeq(all, from, n) = 1..KeepBackups /\ DOMAIN all = 1..n
      BY <2>3
    <2>5. \A i \in DOMAIN SubSeq(all, from, n) : \E j \in DOMAIN all : SubSeq(all, from, n)[i] = all[j]
      <3> HIDE DEF n
      <3> QED BY <2>3, <2>4
    <2>6. KeepBackups > 0 => KeepBackups \in 1..KeepBackups /\ from + KeepBackups - 1 = n
      BY <1>0, <2>2
    <2>7. KeepBackups > 0 => \E i \in DOMAIN SubSeq(all, from, n) : SubSeq(all, from, n)[i] = all[n]
      <3> HIDE DEF n
      <3> QED BY <2>3, <2>4, <2>6
    <2> QED BY <2>1, <2>3, <2>5, <2>7
  <1> QED BY <1>1, <1>2

\* The backup copies rows first and files afterwards, whatever happens in between.
LEMMA BackupKeeps ==
  ASSUME GalleryInv, SnapshotDb \/ WriteManifest \/ BackupFails \/ KillBackup
  PROVE  GalleryInv'
  <1> USE GalleryAssumption
  <1>1. GalleryShapes
    BY DEF GalleryInv
  <1>2. UNCHANGED <<galleryFiles, stem, saving, galleryRows, edit, removed, cleared>>
    BY DEF SnapshotDb, WriteManifest, BackupFails, KillBackup, galleryHistory
  <1>3. /\ backup' \in [stage : {"idle", "db"}, rows : SUBSET Pictures]
        /\ backup'.rows \subseteq imageRow
    BY <1>1 DEF SnapshotDb, WriteManifest, BackupFails, KillBackup, NoBackup, GalleryShapes
  <1> DEFINE files == {s \in Stems : png[s] # NoPicture}
             full == [whole |-> TRUE, rows |-> backup.rows, files |-> files]
             torn == [whole |-> FALSE, rows |-> {}, files |-> {}]
  <1>4. full \in BackupRecord /\ full.rows = backup.rows /\ full.files = files
    BY <1>1 DEF BackupRecord, GalleryShapes
  <1>5. torn \in BackupRecord /\ torn.rows = {} /\ torn.whole = FALSE
    BY DEF BackupRecord
  <1>6. \/ UNCHANGED galleryBackups
        \/ backups' = Append(backups, torn) /\ UNCHANGED lastBackup
        \/ backups' = Retained(Append(backups, full)) /\ lastBackup' = full
    BY DEF SnapshotDb, WriteManifest, BackupFails, KillBackup
  <1> HIDE DEF full, torn, files
  <1>7. ASSUME NEW new \in BackupRecord
        PROVE  LET all == Append(backups, new)
               IN /\ all \in Seq(BackupRecord) /\ Len(all) > 0 /\ all[Len(all)] = new
                  /\ \A i \in DOMAIN all : all[i] = new \/ \E k \in DOMAIN backups : all[i] = backups[k]
                  /\ \A k \in DOMAIN backups : k \in DOMAIN all /\ all[k] = backups[k]
    <2>1. backups \in Seq(BackupRecord)
      BY <1>1 DEF GalleryShapes
    <2> QED BY <1>7, <2>1
  <1>8. /\ backups' \in Seq(BackupRecord)
        /\ \A i \in DOMAIN backups' : backups'[i] \in {full, torn} \/ \E k \in DOMAIN backups : backups'[i] = backups[k]
        /\ KeepBackups > 0 /\ lastBackup' # NoneYet => \E i \in DOMAIN backups' : backups'[i] = lastBackup'
    <2>1. CASE UNCHANGED galleryBackups
      BY <1>1, <2>1 DEF GalleryInv, BackupsAreWhole, GalleryShapes, galleryBackups
    <2>2. CASE backups' = Append(backups, torn) /\ UNCHANGED lastBackup
      BY <1>5, <1>7, <2>2 DEF GalleryInv, BackupsAreWhole
    <2>3. CASE backups' = Retained(Append(backups, full)) /\ lastBackup' = full
      <3> DEFINE all == Append(backups, full)
      <3>1. /\ all \in Seq(BackupRecord) /\ Len(all) > 0 /\ all[Len(all)] = full
            /\ \A i \in DOMAIN all : all[i] = full \/ \E k \in DOMAIN backups : all[i] = backups[k]
        BY <1>4, <1>7
      <3> HIDE DEF all
      <3>2. /\ Retained(all) \in Seq(BackupRecord)
            /\ \A i \in DOMAIN Retained(all) : \E m \in DOMAIN all : Retained(all)[i] = all[m]
            /\ KeepBackups > 0 => \E i \in DOMAIN Retained(all) : Retained(all)[i] = full
        BY <3>1, RetainedFacts
      <3>3. backups' = Retained(all)
        BY <2>3 DEF all
      <3> QED BY <2>3, <3>1, <3>2, <3>3
    <2> QED BY <1>6, <2>1, <2>2, <2>3
  <1>9. GalleryShapes'
    BY <1>1, <1>2, <1>3, <1>8 DEF GalleryShapes, galleryFiles, galleryRows
  <1>10. RowsAreSaved'
    <2>1. \A p \in full.rows \union torn.rows : saving[p] = "row"
      BY <1>4, <1>5 DEF GalleryInv, RowsAreSaved
    <2>2. \A i \in DOMAIN backups' : \A p \in backups'[i].rows : saving[p] = "row"
      BY <1>8, <2>1 DEF GalleryInv, RowsAreSaved
    <2> QED BY <1>2, <1>3, <2>2 DEF GalleryInv, RowsAreSaved, galleryRows
  <1>11. BackupsAreWhole'
    <2>1. ASSUME NEW p \in full.rows PROVE stem[p] \in full.files \/ p \in removed \/ Clash(p)
      <3>1. p \in Pictures /\ saving[p] = "row" /\ stem[p] \in Stems
        BY <1>1, <1>4 DEF GalleryInv, GalleryShapes, RowsAreSaved, SavedIsThere
      <3>2. p \notin removed /\ ~Clash(p) => png[stem[p]] = p
        BY <3>1 DEF GalleryInv, SavedIsThere
      <3> QED BY <1>4, <3>1, <3>2 DEF files
    <2>2. \A i \in DOMAIN backups' : backups'[i].whole => \A p \in backups'[i].rows :
            stem[p] \in backups'[i].files \/ p \in removed \/ Clash(p)
      BY <1>5, <1>8, <2>1 DEF GalleryInv, BackupsAreWhole
    <2> QED BY <1>2, <1>8, <2>2 DEF BackupsAreWhole, Clash
  <1>12. FilesAreOwned' /\ SavedIsThere' /\ TagsAreTidy' /\ LostRowsAreKnown'
    BY <1>2 DEF GalleryInv, FilesAreOwned, SavedIsThere, TagsAreTidy, LostRowsAreKnown, Clash,
                galleryFiles, galleryRows
  <1> QED BY <1>9, <1>10, <1>11, <1>12 DEF GalleryInv

\* Jobs that are cleared away take rows with them, and leave every file.
LEMMA ClearKeeps ==
  ASSUME GalleryInv, ClearFinished
  PROVE  GalleryInv'
  <1>1. PICK finished \in SUBSET imageRow :
          /\ imageRow' = imageRow \ finished /\ cleared' = cleared \union (finished \ removed)
          /\ UNCHANGED <<galleryFiles, stem, saving, tags, edit, backup, galleryBackups, removed, galleryKills>>
    BY DEF ClearFinished
  <1>2. GalleryShapes'
    BY <1>1 DEF GalleryInv, GalleryShapes, galleryFiles, galleryBackups
  <1>3. FilesAreOwned' /\ SavedIsThere' /\ TagsAreTidy'
    BY <1>1 DEF GalleryInv, FilesAreOwned, SavedIsThere, TagsAreTidy, Clash, galleryFiles
  <1>4. RowsAreSaved' /\ LostRowsAreKnown'
    BY <1>1 DEF GalleryInv, GalleryShapes, RowsAreSaved, LostRowsAreKnown, galleryBackups
  <1>5. BackupsAreWhole'
    BY <1>1 DEF GalleryInv, BackupsAreWhole, Clash, galleryBackups
  <1> QED BY <1>2, <1>3, <1>4, <1>5 DEF GalleryInv

\* The kill of the backend leaves files and rows as they are.
LEMMA KillGalleryKeeps ==
  ASSUME GalleryInv, KillGallery
  PROVE  GalleryInv'
  <1> USE GalleryAssumption
  <1>1. /\ edit' = [e \in Editors |-> NoEdit]
        /\ saving' = [p \in Pictures |-> IF saving[p] \in {"no", "row"} THEN saving[p] ELSE "failed"]
        /\ UNCHANGED <<galleryFiles, stem, galleryRows, backup, galleryBackups, removed, cleared>>
    BY DEF KillGallery
  <1>2. GalleryShapes
    BY DEF GalleryInv
  <1>3. NoEdit \in EditRecord /\ NoEdit.stage = "idle"
    BY DEF NoEdit, EditRecord
  <1>4. GalleryShapes'
    BY <1>1, <1>2, <1>3 DEF GalleryShapes, galleryFiles, galleryRows, galleryBackups
  <1>5. \A p \in Pictures : /\ \/ saving'[p] = saving[p]
                               \/ saving'[p] = "failed" /\ saving[p] \notin {"no", "row"}
                            /\ saving'[p] = "row" <=> saving[p] = "row"
    BY <1>1
  <1>6. SavedIsThere'
    <2>1. \A q \in Pictures : Clash(q)' <=> Clash(q)
      BY <1>1 DEF Clash
    <2> QED BY <1>1, <1>5, <2>1 DEF GalleryInv, SavedIsThere, galleryFiles
  <1>7. RowsAreSaved'
    <2>1. imageRow \union backup.rows \subseteq Pictures
      BY <1>2 DEF GalleryShapes
    <2>2. \A i \in DOMAIN backups : backups[i].rows \subseteq Pictures
      BY <1>2, BackupRows
    <2> QED BY <1>1, <1>3, <1>5, <2>1, <2>2 DEF GalleryInv, RowsAreSaved, galleryRows, galleryBackups
  <1>8. FilesAreOwned' /\ TagsAreTidy' /\ LostRowsAreKnown' /\ BackupsAreWhole'
    BY <1>1, <1>5 DEF GalleryInv, FilesAreOwned, TagsAreTidy, LostRowsAreKnown, BackupsAreWhole, Clash,
                      galleryFiles, galleryRows, galleryBackups
  <1> QED BY <1>4, <1>6, <1>7, <1>8 DEF GalleryInv

\* Every step keeps the invariant.
LEMMA GalleryStep == GalleryInv /\ [GalleryNext]_galleryVars => GalleryInv'
  <1> SUFFICES ASSUME GalleryInv, [GalleryNext]_galleryVars PROVE GalleryInv'
    OBVIOUS
  <1>1. CASE \E p \in Pictures : (\E s \in Stems : SavePng(p, s)) \/ SaveSidecar(p) \/ SaveThumb(p)
                                 \/ CommitImage(p) \/ SaveFails(p)
    BY <1>1, SavePngKeeps, SaveOnKeeps, CommitImageKeeps
  <1>2. CASE \E e \in Editors :
               \/ \E p \in Pictures, op \in {"delete", "tag"} : FindImage(e, op, p)
               \/ UnlinkFiles(e) \/ CommitDelete(e) \/ \E raw \in RawTags : CommitTags(e, raw)
    BY <1>2, EditKeeps, UnlinkKeeps
  <1>3. CASE ClearFinished \/ SnapshotDb \/ WriteManifest \/ BackupFails \/ KillBackup
    BY <1>3, ClearKeeps, BackupKeeps
  <1>4. CASE KillGallery
    BY <1>4, KillGalleryKeeps
  <1>5. CASE UNCHANGED galleryVars
    BY <1>5 DEF galleryVars, galleryFiles, galleryRows, galleryBackups, galleryHistory, GalleryInv, GalleryShapes, FilesAreOwned,
                SavedIsThere, RowsAreSaved, TagsAreTidy, LostRowsAreKnown, BackupsAreWhole, Clash
  <1> QED BY <1>1, <1>2, <1>3, <1>4, <1>5 DEF GalleryNext

\* The invariant holds of every behaviour.
LEMMA GalleryInvariance == GallerySpec => []GalleryInv
  <1>1. GalleryInit => GalleryInv
    <2> SUFFICES ASSUME GalleryInit PROVE GalleryInv
      OBVIOUS
    <2> USE GalleryAssumption
    <2>1. GalleryShapes
      BY DEF GalleryInit, GalleryShapes, NoEdit, NoBackup, EditRecord
    <2>2. Tidy(<<>>)
      BY DEF Tidy
    <2>3. FilesAreOwned /\ SavedIsThere /\ TagsAreTidy /\ LostRowsAreKnown
      BY <2>2 DEF GalleryInit, FilesAreOwned, SavedIsThere, TagsAreTidy, LostRowsAreKnown
    <2>4. RowsAreSaved /\ BackupsAreWhole
      BY DEF GalleryInit, RowsAreSaved, BackupsAreWhole, NoEdit, NoBackup
    <2> QED BY <2>1, <2>3, <2>4 DEF GalleryInv
  <1> QED BY <1>1, GalleryStep, PTL DEF GallerySpec

\* A row has its own files until it is deleted; a picture whose row went with its job has
\* them still, and one whose row is gone has no row again; its tags are found and stay as
\* they are; a completed backup has the files of its rows, and the last one is kept: for
\* any pictures, stems, requests and tags, and through any kill.
THEOREM GalleryStaysSound == GallerySpec => []GalleryIsSound
  BY GalleryInvariance, GalleryInvImplies, PTL

------------------------------------------------------------------------------
(* ImageBackend: while there is a pipeline to speak of, cache and features    *)
(* describe it                                                                *)

BuildStages == {"attention", "cache", "turbo", "compile"}
JobStages == {"loras", "run", "tidy"}
JobRecord == [asked : SUBSET Adapters, turbo : BOOLEAN, steps : Nat, left : Int]

ImageShapes ==
  /\ isLoaded \in BOOLEAN /\ isWarm \in BOOLEAN /\ pruned \in BOOLEAN
  /\ work \in {"idle", "build"} \union BuildStages \union JobStages
  /\ pipe \in PipeRecord \union {NoPipe}
  /\ generationIndex \in Nat
  /\ lastUsed \in [Adapters -> Nat] /\ lastAsked \in [Adapters -> Nat]
  /\ imageJob \in JobRecord

\* Jobs run on a loaded backend, and a load begins with one that is neither loaded nor warm.
WorkFollowsFlags ==
  /\ work \in JobStages => isLoaded
  /\ work \in {"build"} \union BuildStages => ~isLoaded /\ ~isWarm
  /\ ~(isLoaded /\ isWarm)
  /\ ~isLoaded /\ ~isWarm => loadedLoras = {}

\* From the assignment of _pipe until it is dropped, cache and features describe it.
Assembled == isLoaded \/ isWarm \/ work \in BuildStages
PipeIsDescribed ==
  Assembled =>
    /\ pipe \in PipeRecord
    /\ loadedLoras = pipe.lora
    /\ "turbo" \in features <=> pipe.turbo
    /\ "compile" \in features <=> pipe.compiled

\* When an image is made, what its job wants is what is switched on.
WantedIsOn == work = "run" => pipe.on = Wanted

\* The cache knows of each LoRA the last image for which it was asked.
CacheKnowsUse == \A l \in loadedLoras : lastUsed[l] = lastAsked[l]

\* A job that could prune has pruned, and between jobs nothing is loaded; parked or not.
PrunedToSize ==
  work = "idle" /\ pruned => Cardinality(loadedLoras) <= CacheMax \/ loadedLoras \subseteq imageJob.asked

ImageInv ==
  /\ ImageShapes /\ WorkFollowsFlags /\ PipeIsDescribed
  /\ WantedIsOn /\ CacheKnowsUse /\ PrunedToSize /\ ImagesUseTheirLoras

LEMMA ImageStart == ImageInit => ImageInv
  <1> SUFFICES ASSUME ImageInit PROVE ImageInv
    OBVIOUS
  <1>1. ImageShapes
    <2>1. NoImageJob \in JobRecord
      BY DEF JobRecord, NoImageJob
    <2>2. [l \in Adapters |-> 0] \in [Adapters -> Nat]
      OBVIOUS
    <2> QED BY <2>1, <2>2 DEF ImageInit, ImageShapes
  <1>2. Cardinality(loadedLoras) <= CacheMax
    BY FS_EmptySet, ImageAssumption DEF ImageInit
  <1>3. WorkFollowsFlags /\ PipeIsDescribed /\ WantedIsOn /\ CacheKnowsUse /\ PrunedToSize /\ ImagesUseTheirLoras
    BY <1>2 DEF ImageInit, WorkFollowsFlags, PipeIsDescribed, Assembled, BuildStages, JobStages,
       WantedIsOn, CacheKnowsUse, PrunedToSize, ImagesUseTheirLoras
  <1> QED BY <1>1, <1>3 DEF ImageInv

\* What depends on the job alone stays where the job, its images and the cache do.
LEMMA SameJob ==
  ASSUME ImageInv, UNCHANGED <<made, imageJob, features, pipe, loadedLoras, lastUsed, lastAsked, pruned>>,
         work' = "idle" => work = "idle", work' = "run" => work = "run"
  PROVE  WantedIsOn' /\ CacheKnowsUse' /\ PrunedToSize' /\ ImagesUseTheirLoras'
  BY DEF ImageInv, WantedIsOn, Wanted, CacheKnowsUse, PrunedToSize, ImagesUseTheirLoras

\* An empty cache is within its limit, and nothing of it is old.
LEMMA EmptyCache ==
  ASSUME ImageInv, UNCHANGED made, loadedLoras' = {}, work' # "run"
  PROVE  WantedIsOn' /\ CacheKnowsUse' /\ PrunedToSize' /\ ImagesUseTheirLoras'
  BY DEF ImageInv, WantedIsOn, CacheKnowsUse, PrunedToSize, ImagesUseTheirLoras

LEMMA BeginLoadKeeps ==
  ASSUME ImageInv, BeginLoad
  PROVE  ImageInv'
  <1>1. WantedIsOn' /\ CacheKnowsUse' /\ PrunedToSize' /\ ImagesUseTheirLoras'
    BY EmptyCache DEF BeginLoad, ClearLoras, jobState
  <1>2. ImageShapes'
    BY DEF ImageInv, ImageShapes, BeginLoad, ClearLoras, imageFlags, jobState
  <1>3. WorkFollowsFlags' /\ PipeIsDescribed'
    BY DEF ImageInv, WorkFollowsFlags, PipeIsDescribed, Assembled, BuildStages, JobStages, BeginLoad, ClearLoras, imageFlags
  <1> QED BY <1>1, <1>2, <1>3 DEF ImageInv

LEMMA BuildPipeKeeps ==
  ASSUME ImageInv, BuildPipe
  PROVE  ImageInv'
  <1>0. loadedLoras = {} /\ loadedLoras' = {}
    BY DEF ImageInv, WorkFollowsFlags, BuildPipe, loraCache
  <1>1. WantedIsOn' /\ CacheKnowsUse' /\ PrunedToSize' /\ ImagesUseTheirLoras'
    BY <1>0, EmptyCache DEF BuildPipe, jobState
  <1>2. Place \in {"gpu", "offload", "refused"}
    BY DEF Place, PlaceSdxl, PlaceFlux, PlaceZImage, PlaceNunchakuQwen, PlaceQwen, PlaceNunchakuFlux2,
       PlaceFlux2, PlaceRepo
  <1>3. CASE work' = "idle" /\ UNCHANGED <<pipe, features>>
    BY <1>0, <1>1, <1>3 DEF ImageInv, ImageShapes, WorkFollowsFlags, PipeIsDescribed, Assembled, BuildStages,
       JobStages, BuildPipe, imageFlags, loraCache, jobState
  <1>4. CASE work' = "attention" /\ pipe' = [place |-> Place, lora |-> {}, on |-> {}, turbo |-> FALSE, compiled |-> FALSE]
             /\ features' = IF kind.family \in {"flux2", "qwen", "z"} THEN {kind.family} ELSE {}
    <2>1. pipe' \in PipeRecord /\ pipe'.lora = {} /\ ~pipe'.turbo /\ ~pipe'.compiled
      BY <1>4, <1>2 DEF PipeRecord
    <2>2. "turbo" \notin features' /\ "compile" \notin features'
      BY <1>4
    <2>3. ImageShapes'
      BY <2>1, <1>4 DEF ImageInv, ImageShapes, BuildStages, BuildPipe, imageFlags, loraCache, jobState
    <2>4. WorkFollowsFlags'
      BY <1>4, <1>0 DEF ImageInv, WorkFollowsFlags, BuildStages, JobStages, BuildPipe, imageFlags
    <2>5. PipeIsDescribed'
      BY <1>0, <2>1, <2>2 DEF PipeIsDescribed
    <2> QED BY <1>1, <2>3, <2>4, <2>5 DEF ImageInv
  <1> QED BY <1>3, <1>4 DEF BuildPipe

\* A feature that is neither turbo nor compile is put on, or its loader fails.
LEMMA FeatureKeeps ==
  ASSUME ImageInv, ConfigureAttention \/ ApplyStepCache
  PROVE  ImageInv'
  <1>0. loadedLoras = {} /\ loadedLoras' = {} /\ work' # "run" /\ UNCHANGED <<made, pipe, isLoaded, isWarm>>
    BY DEF ImageInv, WorkFollowsFlags, BuildStages, ConfigureAttention, ApplyStepCache, loraCache, jobState, imageFlags
  <1>1. WantedIsOn' /\ CacheKnowsUse' /\ PrunedToSize' /\ ImagesUseTheirLoras'
    BY <1>0, EmptyCache
  <1>2. ImageShapes'
    BY <1>0 DEF ImageInv, ImageShapes, BuildStages, ConfigureAttention, ApplyStepCache, imageFlags, loraCache, jobState
  <1>3. WorkFollowsFlags'
    BY <1>0 DEF ImageInv, WorkFollowsFlags, BuildStages, JobStages, ConfigureAttention, ApplyStepCache
  <1>4. Assembled
    BY DEF Assembled, BuildStages, ConfigureAttention, ApplyStepCache
  <1>5. ("turbo" \in features' <=> "turbo" \in features) /\ ("compile" \in features' <=> "compile" \in features)
    BY DEF ConfigureAttention, ApplyStepCache
  <1>6. PipeIsDescribed'
    BY <1>0, <1>4, <1>5 DEF ImageInv, PipeIsDescribed
  <1> QED BY <1>1, <1>2, <1>3, <1>6 DEF ImageInv

\* A record of a pipeline with other flags is one.
LEMMA PipeFlags ==
  ASSUME NEW p \in PipeRecord
  PROVE  /\ [p EXCEPT !.turbo = TRUE, !.on = {Turbo}] \in PipeRecord
         /\ [p EXCEPT !.turbo = TRUE, !.on = {Turbo}].turbo
         /\ [p EXCEPT !.turbo = TRUE, !.on = {Turbo}].lora = p.lora
         /\ [p EXCEPT !.turbo = TRUE, !.on = {Turbo}].compiled = p.compiled
         /\ [p EXCEPT !.compiled = TRUE] \in PipeRecord
         /\ [p EXCEPT !.compiled = TRUE].compiled
         /\ [p EXCEPT !.compiled = TRUE].lora = p.lora
         /\ [p EXCEPT !.compiled = TRUE].turbo = p.turbo
  BY DEF PipeRecord

LEMMA TurboKeeps ==
  ASSUME ImageInv, ApplyTurboLora
  PROVE  ImageInv'
  <1>0. loadedLoras = {} /\ loadedLoras' = {} /\ work' # "run" /\ UNCHANGED <<made, isLoaded, isWarm>>
    BY DEF ImageInv, WorkFollowsFlags, BuildStages, ApplyTurboLora, loraCache, jobState, imageFlags
  <1>1. WantedIsOn' /\ CacheKnowsUse' /\ PrunedToSize' /\ ImagesUseTheirLoras'
    BY <1>0, EmptyCache
  <1>2. Assembled
    BY DEF Assembled, BuildStages, ApplyTurboLora
  <1>3. PipeIsDescribed' /\ pipe' \in PipeRecord
    <2>1. CASE UNCHANGED <<pipe, features>>
      BY <1>0, <1>2, <2>1 DEF ImageInv, PipeIsDescribed
    <2>2. CASE features' = features \union {"turbo"} /\ pipe' = [pipe EXCEPT !.turbo = TRUE, !.on = {Turbo}]
      BY <1>0, <1>2, <2>2, PipeFlags DEF ImageInv, PipeIsDescribed
    <2> QED BY <2>1, <2>2 DEF ApplyTurboLora
  <1>4. ImageShapes'
    BY <1>0, <1>3 DEF ImageInv, ImageShapes, BuildStages, ApplyTurboLora, imageFlags, loraCache, jobState
  <1>5. WorkFollowsFlags'
    BY <1>0 DEF ImageInv, WorkFollowsFlags, BuildStages, JobStages, ApplyTurboLora
  <1> QED BY <1>1, <1>3, <1>4, <1>5 DEF ImageInv

LEMMA CompileKeeps ==
  ASSUME ImageInv, CompileTransformer
  PROVE  ImageInv'
  <1>0. loadedLoras = {} /\ loadedLoras' = {} /\ work' = "idle" /\ isLoaded' /\ ~isWarm' /\ UNCHANGED made
    BY DEF ImageInv, WorkFollowsFlags, BuildStages, CompileTransformer, loraCache, jobState
  <1>1. WantedIsOn' /\ CacheKnowsUse' /\ PrunedToSize' /\ ImagesUseTheirLoras'
    BY <1>0, EmptyCache
  <1>2. Assembled
    BY DEF Assembled, BuildStages, CompileTransformer
  <1>3. PipeIsDescribed' /\ pipe' \in PipeRecord
    <2>1. CASE UNCHANGED <<pipe, features>>
      BY <1>0, <1>2, <2>1 DEF ImageInv, PipeIsDescribed
    <2>2. CASE features' = features \union {"compile"} /\ pipe' = [pipe EXCEPT !.compiled = TRUE]
      BY <1>0, <1>2, <2>2, PipeFlags DEF ImageInv, PipeIsDescribed
    <2> QED BY <2>1, <2>2 DEF CompileTransformer
  <1>4. ImageShapes'
    BY <1>0, <1>3 DEF ImageInv, ImageShapes, CompileTransformer, imageFlags, loraCache, jobState
  <1>5. WorkFollowsFlags'
    BY <1>0 DEF WorkFollowsFlags, BuildStages, JobStages
  <1> QED BY <1>1, <1>3, <1>4, <1>5 DEF ImageInv

\* A record of a pipeline whose weights are elsewhere is one, and otherwise the same.
LEMMA PipePlace ==
  ASSUME NEW p \in PipeRecord, NEW x \in {"gpu", "offload", "refused", "cpu", "split"}
  PROVE  /\ [p EXCEPT !.place = x] \in PipeRecord
         /\ [p EXCEPT !.place = x].lora = p.lora
         /\ [p EXCEPT !.place = x].turbo = p.turbo
         /\ [p EXCEPT !.place = x].compiled = p.compiled
  BY DEF PipeRecord

\* A park, a resume or a failed move changes where the pipeline is, and nothing else of it.
LEMMA PipeMoves ==
  ASSUME ImageInv, Assembled, NEW x \in {"gpu", "offload", "refused", "cpu", "split"},
         pipe' = [pipe EXCEPT !.place = x], UNCHANGED <<loadedLoras, features>>
  PROVE  PipeIsDescribed' /\ pipe' \in PipeRecord
  BY PipePlace DEF ImageInv, PipeIsDescribed

\* Between jobs the order of the flags does not matter to what is kept.
LEMMA MovedKeeps ==
  ASSUME ImageInv, Park \/ Resume
  PROVE  ImageInv'
  <1>0. /\ Assembled /\ work = "idle" /\ work' = "idle" /\ UNCHANGED <<made, imageJob, features, loadedLoras, lastUsed, lastAsked, pruned>>
        /\ isLoaded' \in BOOLEAN /\ isWarm' \in BOOLEAN /\ ~(isLoaded' /\ isWarm') /\ (isLoaded' \/ isWarm')
    <2>1. UNCHANGED <<made, imageJob, features, loadedLoras, lastUsed, lastAsked, pruned, work>> /\ work = "idle"
      BY DEF Park, Resume, loraCache, jobState
    <2>2. CASE UNCHANGED imageFlags
      BY <2>1, <2>2 DEF ImageInv, ImageShapes, WorkFollowsFlags, Assembled, Park, Resume, imageFlags
    <2>3. CASE Park /\ isLoaded' = FALSE /\ isWarm' = TRUE
      BY <2>1, <2>3 DEF Assembled, Park
    <2>4. CASE Resume /\ isLoaded' = TRUE /\ isWarm' = FALSE
      BY <2>1, <2>4 DEF Assembled, Resume
    <2> QED BY <2>2, <2>3, <2>4 DEF Park, Resume
  <1>1. PipeIsDescribed' /\ pipe' \in PipeRecord
    <2>0. pipe \in PipeRecord /\ pipe.place \in {"gpu", "offload", "refused", "cpu", "split"}
      BY <1>0 DEF ImageInv, PipeIsDescribed, PipeRecord
    <2>1. PICK x \in {"gpu", "offload", "refused", "cpu", "split"} : pipe' = [pipe EXCEPT !.place = x]
      BY <2>0 DEF Park, Resume
    <2> QED BY <1>0, <2>1, PipeMoves
  <1>2. ImageShapes'
    BY <1>0, <1>1 DEF ImageInv, ImageShapes, Park, Resume
  <1>3. WorkFollowsFlags'
    BY <1>0 DEF WorkFollowsFlags, BuildStages, JobStages
  <1>4. WantedIsOn' /\ CacheKnowsUse' /\ PrunedToSize' /\ ImagesUseTheirLoras'
    BY <1>0 DEF ImageInv, WantedIsOn, CacheKnowsUse, PrunedToSize, ImagesUseTheirLoras
  <1> QED BY <1>1, <1>2, <1>3, <1>4 DEF ImageInv

\* Wherever an unload or a failed load drops the pipeline, nothing is left to describe.
LEMMA DroppedKeeps ==
  ASSUME ImageInv, Unload \/ Recycle
  PROVE  ImageInv'
  <1>0. /\ UNCHANGED <<made, imageJob, lastAsked, pruned>> /\ loadedLoras' = {} /\ pipe' = NoPipe /\ ~isLoaded' /\ ~isWarm'
        /\ isLoaded' \in BOOLEAN /\ isWarm' \in BOOLEAN
        /\ work' \in {"idle", "build"} /\ generationIndex' \in Nat /\ lastUsed' = [l \in Adapters |-> 0]
    <2>1. generationIndex \in Nat
      BY DEF ImageInv, ImageShapes
    <2>2. CASE Unload
      BY <2>2 DEF Unload, ClearLoras, jobState
    <2>3. CASE Recycle
      BY <2>1, <2>3 DEF Recycle, ClearLoras, jobState
    <2> QED BY <2>2, <2>3
  <1>1. WantedIsOn' /\ CacheKnowsUse' /\ PrunedToSize' /\ ImagesUseTheirLoras'
    BY <1>0, EmptyCache
  <1>2. ImageShapes'
    BY <1>0 DEF ImageInv, ImageShapes
  <1>3. WorkFollowsFlags' /\ PipeIsDescribed'
    BY <1>0 DEF WorkFollowsFlags, PipeIsDescribed, Assembled, BuildStages, JobStages
  <1> QED BY <1>1, <1>2, <1>3 DEF ImageInv

\* The number of steps recorded with an image gives the same number again.
LEMMA StepsAgain ==
  ASSUME NEW p, NEW turbo
  PROVE  Steps(Steps(p, turbo), turbo) = Steps(p, turbo)
  BY DEF Steps

LEMMA GenerateKeeps ==
  ASSUME ImageInv, NEW loras \in SUBSET Adapters, NEW turbo \in BOOLEAN, NEW steps \in StepChoices,
         NEW batch \in 1..MaxBatch, NEW source \in BOOLEAN, NEW mask \in BOOLEAN,
         Generate(loras, turbo, steps, batch, source, mask)
  PROVE  ImageInv'
  <1>0. /\ UNCHANGED <<isLoaded, isWarm, pipe, features, loadedLoras, lastUsed, lastAsked, pruned, made, generationIndex>>
        /\ isLoaded /\ work' \in {"loras", "tidy"}
    BY DEF Generate, imageFlags, loraCache
  <1>1. imageJob' \in JobRecord
    <2>1. steps \in Nat /\ batch \in Int
      BY ImageAssumption
    <2> QED BY <2>1 DEF Generate, JobRecord
  <1>2. ImageShapes'
    BY <1>0, <1>1 DEF ImageInv, ImageShapes, JobStages
  <1>3. WorkFollowsFlags' /\ PipeIsDescribed'
    BY <1>0 DEF ImageInv, WorkFollowsFlags, PipeIsDescribed, Assembled, BuildStages, JobStages
  <1>4. WantedIsOn' /\ CacheKnowsUse' /\ PrunedToSize' /\ ImagesUseTheirLoras'
    BY <1>0 DEF ImageInv, WantedIsOn, CacheKnowsUse, PrunedToSize, ImagesUseTheirLoras
  <1> QED BY <1>2, <1>3, <1>4 DEF ImageInv

\* LoRAs put on a pipeline, and others switched on.
WithLoras(p, ls, on) == [p EXCEPT !.lora = ls, !.on = on]

\* The LoRAs of a pipeline are LoRAs.
LEMMA PipeLoras ==
  ASSUME NEW p \in PipeRecord, NEW ls \in SUBSET Adapters, NEW on \in SUBSET (Adapters \union {Turbo})
  PROVE  LET q == WithLoras(p, ls, on)
         IN  /\ q \in PipeRecord /\ q.lora = ls /\ q.on = on
             /\ q.turbo = p.turbo /\ q.compiled = p.compiled
  BY DEF PipeRecord, WithLoras

\* An image asks for some LoRAs: the cache takes note of the ones that are loaded.
LEMMA NotedUse ==
  ASSUME ImageInv, NEW ls \in SUBSET Adapters, lastUsed' = UsedNow(ls), loadedLoras' = loadedLoras \union ls,
         lastAsked' = [l \in Adapters |-> IF l \in ls THEN generationIndex + 1 ELSE lastAsked[l]]
  PROVE  CacheKnowsUse' /\ lastUsed' \in [Adapters -> Nat] /\ lastAsked' \in [Adapters -> Nat]
  <1>1. loadedLoras \subseteq Adapters \/ loadedLoras = {} \/ Assembled
    BY DEF ImageInv, WorkFollowsFlags, Assembled
  <1>2. loadedLoras \subseteq Adapters
    BY <1>1 DEF ImageInv, PipeIsDescribed, PipeRecord
  <1>3. \A l \in loadedLoras' : lastUsed'[l] = lastAsked'[l]
    BY <1>2 DEF ImageInv, CacheKnowsUse, UsedNow
  <1>4. lastUsed' \in [Adapters -> Nat] /\ lastAsked' \in [Adapters -> Nat]
    BY DEF ImageInv, ImageShapes, UsedNow
  <1> QED BY <1>3, <1>4 DEF CacheKnowsUse

\* What a job wants are adapters of the pipeline.
LEMMA WantedAreAdapters ==
  ASSUME ImageInv
  PROVE  Wanted \subseteq Adapters \union {Turbo}
  BY DEF ImageInv, ImageShapes, JobRecord, Wanted

LEMMA ApplyLorasKeeps ==
  ASSUME ImageInv, ApplyLoras
  PROVE  ImageInv'
  <1>0. /\ UNCHANGED <<isLoaded, isWarm, features, imageJob, pruned, made>> /\ generationIndex' = generationIndex + 1
        /\ work = "loras" /\ work' = "run" /\ isLoaded
    BY DEF ApplyLoras, imageFlags, ImageInv, WorkFollowsFlags, JobStages
  <1>1. Assembled /\ pipe \in PipeRecord /\ loadedLoras = pipe.lora /\ pipe.lora \subseteq Adapters
        /\ imageJob.asked \subseteq Adapters
    BY <1>0 DEF ImageInv, Assembled, PipeIsDescribed, PipeRecord, ImageShapes, JobRecord
  <1>2. pipe' = WithLoras(pipe, pipe.lora \union imageJob.asked, Wanted)
    BY <1>1 DEF ApplyLoras, WithLoras
  <1>3. pipe' \in PipeRecord /\ pipe'.lora = pipe.lora \union imageJob.asked /\ pipe'.on = Wanted
        /\ pipe'.turbo = pipe.turbo /\ pipe'.compiled = pipe.compiled
    <2>1. pipe.lora \union imageJob.asked \in SUBSET Adapters /\ Wanted \in SUBSET (Adapters \union {Turbo})
      BY <1>1, WantedAreAdapters
    <2> QED BY <2>1, <1>1, <1>2, PipeLoras
  <1>4. CacheKnowsUse' /\ lastUsed' \in [Adapters -> Nat] /\ lastAsked' \in [Adapters -> Nat]
    BY <1>1, NotedUse DEF ApplyLoras
  <1>5. ImageShapes'
    BY <1>0, <1>3, <1>4 DEF ImageInv, ImageShapes, JobStages
  <1>6. PipeIsDescribed'
    BY <1>0, <1>1, <1>3 DEF ImageInv, PipeIsDescribed, ApplyLoras
  <1>7. WorkFollowsFlags' /\ PrunedToSize' /\ ImagesUseTheirLoras'
    BY <1>0 DEF ImageInv, WorkFollowsFlags, BuildStages, JobStages, PrunedToSize, ImagesUseTheirLoras
  <1>8. WantedIsOn'
    BY <1>0, <1>3 DEF WantedIsOn, Wanted
  <1> QED BY <1>4, <1>5, <1>6, <1>7, <1>8 DEF ImageInv

LEMMA LoraFailsKeeps ==
  ASSUME ImageInv, LoraFails
  PROVE  ImageInv'
  <1>0. /\ UNCHANGED <<isLoaded, isWarm, features, imageJob, pruned, made>> /\ generationIndex' = generationIndex + 1
        /\ work = "loras" /\ work' = "tidy" /\ isLoaded
    BY DEF LoraFails, imageFlags, ImageInv, WorkFollowsFlags, JobStages
  <1>1. Assembled /\ pipe \in PipeRecord /\ loadedLoras = pipe.lora /\ pipe.lora \subseteq Adapters
        /\ imageJob.asked \subseteq Adapters /\ pipe.on \subseteq Adapters \union {Turbo}
    BY <1>0 DEF ImageInv, Assembled, PipeIsDescribed, PipeRecord, ImageShapes, JobRecord
  <1>2. PICK ls \in SUBSET imageJob.asked :
       /\ loadedLoras' = loadedLoras \union ls /\ lastUsed' = UsedNow(ls)
       /\ lastAsked' = [l \in Adapters |-> IF l \in ls THEN generationIndex + 1 ELSE lastAsked[l]]
       /\ pipe' = [pipe EXCEPT !.lora = @ \union ls, !.on = @ \union (ls \ loadedLoras)]
    BY DEF LoraFails
  <1>3. pipe' = WithLoras(pipe, pipe.lora \union ls, pipe.on \union (ls \ loadedLoras))
    BY <1>1, <1>2 DEF WithLoras
  <1>4. ls \subseteq Adapters
    BY <1>1
  <1>5. pipe' \in PipeRecord /\ pipe'.lora = pipe.lora \union ls
        /\ pipe'.turbo = pipe.turbo /\ pipe'.compiled = pipe.compiled
    <2>1. /\ pipe.lora \union ls \in SUBSET Adapters
          /\ pipe.on \union (ls \ loadedLoras) \in SUBSET (Adapters \union {Turbo})
      BY <1>1, <1>4
    <2> QED BY <2>1, <1>1, <1>3, PipeLoras
  <1>6. CacheKnowsUse' /\ lastUsed' \in [Adapters -> Nat] /\ lastAsked' \in [Adapters -> Nat]
    BY <1>2, <1>4, NotedUse
  <1>7. ImageShapes'
    BY <1>0, <1>5, <1>6 DEF ImageInv, ImageShapes, JobStages
  <1>8. PipeIsDescribed'
    BY <1>0, <1>1, <1>2, <1>5 DEF ImageInv, PipeIsDescribed
  <1>9. WorkFollowsFlags' /\ PrunedToSize' /\ ImagesUseTheirLoras' /\ WantedIsOn'
    BY <1>0 DEF ImageInv, WorkFollowsFlags, BuildStages, JobStages, PrunedToSize, ImagesUseTheirLoras, WantedIsOn
  <1> QED BY <1>6, <1>7, <1>8, <1>9 DEF ImageInv

LEMMA RunPipeKeeps ==
  ASSUME ImageInv, RunPipe
  PROVE  ImageInv'
  <1>0. /\ UNCHANGED <<isLoaded, isWarm, features, loadedLoras, lastUsed, lastAsked, pruned, pipe, generationIndex>>
        /\ work = "run" /\ work' \in {"tidy", "loras"} /\ isLoaded
    BY DEF RunPipe, imageFlags, loraCache, ImageInv, WorkFollowsFlags, JobStages
  <1>1. Assembled
    BY <1>0 DEF Assembled
  <1>2. imageJob' \in JobRecord
    BY DEF RunPipe, ImageInv, ImageShapes, JobRecord
  <1>3. ImagesUseTheirLoras'
    <2> DEFINE taken == [wanted |-> Wanted, on |-> pipe.on, steps |-> Steps(imageJob.steps, imageJob.turbo),
                         again |-> Steps(Steps(imageJob.steps, imageJob.turbo), imageJob.turbo),
                         claimed |-> features, compiled |-> pipe.compiled]
    <2>1. made' = {taken}
      BY DEF RunPipe
    <2>2. taken.on = taken.wanted
      BY <1>0 DEF ImageInv, WantedIsOn
    <2>3. "compile" \in features <=> pipe.compiled
      BY <1>1 DEF ImageInv, PipeIsDescribed
    <2>4. "compile" \in taken.claimed <=> taken.compiled
      BY <2>3
    <2>5. taken.again = taken.steps
      BY StepsAgain
    <2> HIDE DEF taken
    <2> QED BY <2>1, <2>2, <2>4, <2>5 DEF ImagesUseTheirLoras
  <1>4. ImageShapes'
    BY <1>0, <1>2 DEF ImageInv, ImageShapes, JobStages
  <1>5. WorkFollowsFlags' /\ PipeIsDescribed'
    BY <1>0, <1>1 DEF ImageInv, WorkFollowsFlags, PipeIsDescribed, Assembled, BuildStages, JobStages
  <1>6. WantedIsOn' /\ CacheKnowsUse' /\ PrunedToSize'
    BY <1>0 DEF ImageInv, WantedIsOn, CacheKnowsUse, PrunedToSize
  <1> QED BY <1>3, <1>4, <1>5, <1>6 DEF ImageInv

LEMMA StoppedKeeps ==
  ASSUME ImageInv, RunStops \/ RequestStop
  PROVE  ImageInv'
  <1>0. /\ UNCHANGED <<isLoaded, isWarm, features, loadedLoras, lastUsed, lastAsked, pruned, pipe, generationIndex, imageJob, made>>
        /\ work \in {"loras", "run"} /\ (work' = "tidy" \/ work' = work)
    BY DEF RunStops, RequestStop, imageFlags, loraCache, jobState
  <1>1. ImageShapes'
    BY <1>0 DEF ImageInv, ImageShapes, JobStages
  <1>2. WorkFollowsFlags' /\ PipeIsDescribed'
    BY <1>0 DEF ImageInv, WorkFollowsFlags, PipeIsDescribed, Assembled, BuildStages, JobStages
  <1>3. WantedIsOn' /\ CacheKnowsUse' /\ PrunedToSize' /\ ImagesUseTheirLoras'
    BY <1>0, SameJob
  <1> QED BY <1>1, <1>2, <1>3 DEF ImageInv

\* A prune that was not cut short leaves the cache within its size, or only what
\* the job asked for.
LEMMA PruneFits ==
  ASSUME NEW ls \in Pruned
  PROVE  /\ loadedLoras \ ls \subseteq loadedLoras
         /\ Cardinality(loadedLoras \ ls) <= CacheMax \/ loadedLoras \ ls \subseteq imageJob.asked
  <1>1. CASE CacheMax = 0
    BY <1>1 DEF Pruned
  <1>2. CASE CacheMax # 0
    <2>1. Cardinality(loadedLoras \ ls) <= CacheMax \/ ls = loadedLoras \ imageJob.asked
      BY <1>2 DEF Pruned
    <2> QED BY <2>1
  <1> QED BY <1>1, <1>2

LEMMA AfterJobKeeps ==
  ASSUME ImageInv, AfterJob
  PROVE  ImageInv'
  <1>0. /\ UNCHANGED <<isLoaded, isWarm, features, imageJob, made, lastAsked, generationIndex>>
        /\ work = "tidy" /\ work' = "idle" /\ isLoaded
    BY DEF AfterJob, imageFlags, ImageInv, WorkFollowsFlags, JobStages
  <1>1. Assembled /\ pipe \in PipeRecord /\ loadedLoras = pipe.lora /\ pipe.lora \subseteq Adapters
        /\ pipe.on \subseteq Adapters \union {Turbo}
    BY <1>0 DEF ImageInv, Assembled, PipeIsDescribed, PipeRecord
  <1>2. PICK ls \in Pruned \union {{}} :
       /\ loadedLoras' = loadedLoras \ ls
       /\ lastUsed' = [l \in Adapters |-> IF l \in ls THEN 0 ELSE lastUsed[l]]
       /\ pipe' = [pipe EXCEPT !.lora = @ \ ls, !.on = @ \ ls]
       /\ pruned' = (ls \in Pruned)
    BY DEF AfterJob
  <1>3. pipe' = WithLoras(pipe, pipe.lora \ ls, pipe.on \ ls)
    BY <1>1, <1>2 DEF WithLoras
  <1>4. pipe' \in PipeRecord /\ pipe'.lora = pipe.lora \ ls
        /\ pipe'.turbo = pipe.turbo /\ pipe'.compiled = pipe.compiled
    <2>1. pipe.lora \ ls \in SUBSET Adapters /\ pipe.on \ ls \in SUBSET (Adapters \union {Turbo})
      BY <1>1
    <2> QED BY <2>1, <1>1, <1>3, PipeLoras
  <1>5. CacheKnowsUse' /\ lastUsed' \in [Adapters -> Nat]
    <2>1. \A l \in loadedLoras' : lastUsed'[l] = lastAsked'[l]
      BY <1>0, <1>1, <1>2 DEF ImageInv, CacheKnowsUse
    <2>2. lastUsed' \in [Adapters -> Nat]
      BY <1>2 DEF ImageInv, ImageShapes
    <2> QED BY <2>1, <2>2 DEF CacheKnowsUse
  <1>6. PrunedToSize' /\ pruned' \in BOOLEAN
    <2>1. pruned' \in BOOLEAN
      BY <1>2
    <2>2. ASSUME pruned' PROVE Cardinality(loadedLoras') <= CacheMax \/ loadedLoras' \subseteq imageJob'.asked
      <3>1. ls \in Pruned
        BY <1>2, <2>2
      <3> QED BY <1>0, <1>2, <3>1, PruneFits
    <2> QED BY <2>1, <2>2 DEF PrunedToSize
  <1>7. ImageShapes'
    BY <1>0, <1>4, <1>5, <1>6 DEF ImageInv, ImageShapes
  <1>8. PipeIsDescribed'
    BY <1>0, <1>1, <1>2, <1>4 DEF ImageInv, PipeIsDescribed
  <1>9. WorkFollowsFlags' /\ ImagesUseTheirLoras' /\ WantedIsOn'
    BY <1>0 DEF ImageInv, WorkFollowsFlags, BuildStages, JobStages, ImagesUseTheirLoras, WantedIsOn
  <1> QED BY <1>5, <1>6, <1>7, <1>8, <1>9 DEF ImageInv

LEMMA ImageStep ==
  ASSUME ImageInv, [ImageNext]_imageVars
  PROVE  ImageInv'
  <1>1. CASE UNCHANGED imageVars
    <2>1. UNCHANGED <<pipe, isLoaded, isWarm, features, loadedLoras, lastUsed, generationIndex, work, imageJob,
                      made, lastAsked, pruned>>
      BY <1>1 DEF imageVars, imageFlags, loraCache, jobState
    <2> QED BY <2>1 DEF ImageInv, ImageShapes, WorkFollowsFlags, PipeIsDescribed, Assembled, WantedIsOn, Wanted,
            CacheKnowsUse, PrunedToSize, ImagesUseTheirLoras
  <1>2. CASE BeginLoad \/ BuildPipe \/ ConfigureAttention \/ ApplyStepCache \/ ApplyTurboLora \/ CompileTransformer
    BY <1>2, BeginLoadKeeps, BuildPipeKeeps, FeatureKeeps, TurboKeeps, CompileKeeps
  <1>3. CASE Park \/ Resume \/ Unload \/ Recycle
    BY <1>3, MovedKeeps, DroppedKeeps
  <1>4. ASSUME NEW loras \in SUBSET Adapters, NEW turbo \in BOOLEAN, NEW steps \in StepChoices,
               NEW batch \in 1..MaxBatch, NEW source \in BOOLEAN, NEW mask \in BOOLEAN,
               Generate(loras, turbo, steps, batch, source, mask)
        PROVE  ImageInv'
    BY <1>4, GenerateKeeps
  <1>5. CASE ApplyLoras \/ LoraFails \/ RunPipe \/ RunStops \/ RequestStop \/ AfterJob
    BY <1>5, ApplyLorasKeeps, LoraFailsKeeps, RunPipeKeeps, StoppedKeeps, AfterJobKeeps
  <1> QED BY <1>1, <1>2, <1>3, <1>4, <1>5 DEF ImageNext

LEMMA ImageInvImplies == ImageInv => ImageBackendIsSound
  <1> SUFFICES ASSUME ImageInv PROVE ImageBackendIsSound
    OBVIOUS
  <1>1. loadedLoras \subseteq Adapters
    BY DEF ImageInv, WorkFollowsFlags, PipeIsDescribed, Assembled, PipeRecord
  <1>2. ImageTypeOK
    BY <1>1, ImageAssumption DEF ImageInv, ImageShapes, WorkFollowsFlags, PipeIsDescribed, Assembled, ImageTypeOK
  <1>3. CacheIsThePipes
    BY DEF ImageInv, PipeIsDescribed, Assembled, CacheIsThePipes
  <1>4. LorasAreBounded
    BY DEF ImageInv, CacheKnowsUse, PrunedToSize, LorasAreBounded
  <1> QED BY <1>2, <1>3, <1>4 DEF ImageInv, ImageBackendIsSound

\* Whatever fails between the steps of a load, a job or a park, an image has the
\* LoRAs of its job and no others, the features it claims, and a step count that
\* reproduces it; and the cache is the pipeline's and within its size.
THEOREM ImageBackendStaysSound == ImageSpec => []ImageBackendIsSound
  <1>1. ImageSpec => []ImageInv
    BY ImageStart, ImageStep, PTL DEF ImageSpec
  <1> QED BY <1>1, ImageInvImplies, PTL

------------------------------------------------------------------------------
(* PhaseBatching: a model, or a type, that still has a job waiting in the     *)
(* tier of one that has run has not been left since                           *)

\* The model that the next pick will find resident, if the load that goes on succeeds.
Upcoming == IF phase = "idle" THEN resident ELSE Needed

\* It is the model of the last job that was picked, unless that one failed to load.
LastIsResident == cleanFrom < Len(drained) => Upcoming = ModelAt(Len(drained))

\* Nothing but a request takes a model from the job that runs with it.
HeldWhileGenerating == phase = "generating" /\ drained # <<>> => resident = Needed

\* No waiting job has a higher priority than one that has run.
TiersDescend == \A i \in DOMAIN drained, w \in waiting : row[w].priority <= TierAt(i)

\* A waiting job that belongs to the tier of the i-th job.
SameTier(w, i) == row[w].priority = TierAt(i)

ModelNotLeft ==
  \A i \in DOMAIN drained, w \in waiting :
    cleanFrom < i /\ SameTier(w, i) /\ row[w].model = ModelAt(i) => \A j \in DOMAIN drained : i < j => ModelAt(j) = ModelAt(i)

TypeNotLeft ==
  \A i \in DOMAIN drained, w \in waiting :
    cleanFrom < i /\ SameTier(w, i) /\ TypeOf[row[w].model] = TypeOf[ModelAt(i)] =>
      \A j \in DOMAIN drained : i < j => TypeOf[ModelAt(j)] = TypeOf[ModelAt(i)]

\* A job of its model that still waits is no older.
WaitersAreYounger ==
  \A i \in DOMAIN drained, w \in waiting :
    SameTier(w, i) /\ row[w].model = ModelAt(i) => CreatedAt[drained[i]] <= CreatedAt[w]

BatchInv ==
  /\ BatchTypeOK /\ LastIsResident /\ HeldWhileGenerating /\ TiersDescend /\ ModelNotLeft /\ TypeNotLeft /\ WaitersAreYounger
  /\ BatchesAreOrdered

\* With nothing run since the queue changed, there is nothing to order.
LEMMA NothingDrained ==
  ASSUME drained = <<>>, BatchTypeOK
  PROVE  BatchInv
  <1>1. DOMAIN drained = {} /\ ~(cleanFrom < Len(drained))
    BY DEF BatchTypeOK
  <1>2. LastIsResident /\ HeldWhileGenerating
    BY <1>1 DEF LastIsResident, HeldWhileGenerating
  <1>3. TiersDescend /\ ModelNotLeft /\ TypeNotLeft /\ WaitersAreYounger
    BY <1>1 DEF TiersDescend, ModelNotLeft, TypeNotLeft, WaitersAreYounger
  <1>4. BatchesAreOrdered
    BY <1>1 DEF BatchesAreOrdered, ModelRunsAreContiguous, TypeRunsAreContiguous, FifoWithinModel
  <1> QED BY <1>2, <1>3, <1>4 DEF BatchInv

\* What select_in_tier chooses is of the tier; the resident model comes first, then its
\* type; and of the jobs of its model none is older.
LEMMA Chosen ==
  ASSUME BatchTypeOK, NEW x \in SelectInTier(TopTier(waiting), resident)
  PROVE  /\ x \in waiting /\ \A w \in waiting : row[w].priority <= row[x].priority
         /\ \A w \in waiting : row[w].priority = row[x].priority => w \in TopTier(waiting)
         /\ \A w \in TopTier(waiting) :
              resident # NoModel =>
                /\ row[w].model = resident => row[x].model = resident
                /\ TypeOf[row[w].model] = TypeOf[resident] => TypeOf[row[x].model] = TypeOf[resident]
         /\ \A w \in TopTier(waiting) : row[w].model = row[x].model => CreatedAt[x] <= CreatedAt[w]
  <1> DEFINE tier == TopTier(waiting)
  <1>1. x \in tier
    BY DEF SelectInTier, Oldest, ModelMatches, TypeMatches
  <1>2. /\ x \in waiting /\ \A w \in waiting : row[w].priority <= row[x].priority
        /\ \A w \in waiting : row[w].priority = row[x].priority => w \in tier
    BY <1>1 DEF TopTier
  <1>3. ASSUME NEW w \in tier, resident # NoModel, row[w].model = resident
        PROVE  row[x].model = resident
    <2>1. w \in ModelMatches(tier, resident)
      BY <1>3 DEF ModelMatches
    <2>2. x \in Oldest(ModelMatches(tier, resident))
      BY <1>3, <2>1 DEF SelectInTier
    <2> QED BY <2>2 DEF Oldest, ModelMatches
  <1>4. ASSUME NEW w \in tier, resident # NoModel, TypeOf[row[w].model] = TypeOf[resident]
        PROVE  TypeOf[row[x].model] = TypeOf[resident]
    <2>1. w \in TypeMatches(tier, resident)
      BY <1>4 DEF TypeMatches
    <2>2. x \in Oldest(ModelMatches(tier, resident)) \/ x \in Oldest(TypeMatches(tier, resident))
      BY <1>4, <2>1 DEF SelectInTier
    <2> QED BY <2>2 DEF Oldest, ModelMatches, TypeMatches
  <1>5. ASSUME NEW w \in tier, row[w].model = row[x].model
        PROVE  CreatedAt[x] <= CreatedAt[w]
    <2>1. CASE x \in Oldest(ModelMatches(tier, resident))
      BY <2>1, <1>5 DEF Oldest, ModelMatches
    <2>2. CASE x \in Oldest(TypeMatches(tier, resident))
      BY <2>2, <1>5 DEF Oldest, TypeMatches
    <2>3. CASE x \in Oldest(tier)
      BY <2>3, <1>5 DEF Oldest
    <2> QED BY <2>1, <2>2, <2>3 DEF SelectInTier
  <1> HIDE DEF tier
  <1>6. tier = TopTier(waiting)
    BY DEF tier
  <1> QED BY <1>2, <1>3, <1>4, <1>5, <1>6

LEMMA PickNextKeeps ==
  ASSUME BatchInv, PickNext
  PROVE  BatchInv'
  <1>1. PICK x \in SelectInTier(TopTier(waiting), resident) :
          waiting' = waiting \ {x} /\ drained' = Append(drained, x) /\ running' = x
    BY DEF PickNext
  <1>2. /\ BatchTypeOK /\ row' = row /\ resident' = resident /\ cleanFrom' = cleanFrom
        /\ phase = "idle" /\ phase' = "picked"
    BY DEF BatchInv, PickNext
  <1>0. PICK n \in Nat : n = Len(drained)
    BY <1>2 DEF BatchTypeOK
  <1>3. /\ x \in waiting /\ \A w \in waiting : row[w].priority <= row[x].priority
        /\ \A w \in waiting : row[w].priority = row[x].priority => w \in TopTier(waiting)
        /\ \A w \in TopTier(waiting) : row[w].model = row[x].model => CreatedAt[x] <= CreatedAt[w]
    BY <1>2, Chosen
  <1>4. \A w \in TopTier(waiting) :
              resident # NoModel =>
                /\ row[w].model = resident => row[x].model = resident
                /\ TypeOf[row[w].model] = TypeOf[resident] => TypeOf[row[x].model] = TypeOf[resident]
    BY <1>2, Chosen
  <1>5. /\ n \in Nat /\ DOMAIN drained = 1..n /\ DOMAIN drained' = 1..(n + 1) /\ drained'[n + 1] = x
        /\ \A i \in 1..n : drained'[i] = drained[i]
        /\ Len(drained') = n + 1
    BY <1>0, <1>1, <1>2, <1>3 DEF BatchTypeOK
  <1>6. /\ \A i \in 1..n : i \in DOMAIN drained /\ ModelAt(i)' = ModelAt(i) /\ TierAt(i)' = TierAt(i)
        /\ ModelAt(n + 1)' = row[x].model /\ TierAt(n + 1)' = row[x].priority
        /\ \A i \in DOMAIN drained' : i \in 1..n \/ i = n + 1
    BY <1>2, <1>5 DEF ModelAt, TierAt
  <1>20. cleanFrom \in Nat /\ cleanFrom <= n
    BY <1>0, <1>2 DEF BatchTypeOK
  <1>7. ASSUME NEW i \in 1..n, cleanFrom < i PROVE resident # NoModel /\ resident = ModelAt(n)
    <2>1. cleanFrom < Len(drained) /\ n \in 1..n /\ drained[n] \in Jobs
      BY <1>0, <1>2, <1>5, <1>7, <1>20 DEF BatchTypeOK
    <2>2. resident = ModelAt(n)
      BY <2>1, <1>0, <1>2 DEF BatchInv, LastIsResident, Upcoming
    <2>3. ModelAt(n) \in Models
      BY <2>1, <1>2 DEF ModelAt, BatchTypeOK, Row
    <2> QED BY <2>2, <2>3, BatchingAssumption
  <1>8. ASSUME NEW i \in 1..n, NEW w \in waiting, row[w].priority = TierAt(i)
        PROVE  w \in TopTier(waiting) /\ row[x].priority = TierAt(i)
    <2>1. row[x].priority <= TierAt(i)
      BY <1>3, <1>6 DEF BatchInv, TiersDescend
    <2>2. row[w].priority <= row[x].priority
      BY <1>3
    <2>3. row[w].priority \in Int /\ row[x].priority \in Int
      BY <1>2, <1>3, BatchingAssumption DEF BatchTypeOK, Row
    <2>4. row[w].priority = row[x].priority
      BY <2>1, <2>2, <2>3, <1>8
    <2> QED BY <2>4, <1>3, <1>8
  <1>9. ASSUME NEW i \in 1..n, NEW w \in waiting, cleanFrom < i, row[w].priority = TierAt(i), row[w].model = ModelAt(i)
        PROVE  row[x].model = ModelAt(i) /\ \A j \in 1..n : i <= j => ModelAt(j) = ModelAt(i)
    <2>1. \A j \in 1..n : i < j => ModelAt(j) = ModelAt(i)
      BY <1>5, <1>9 DEF BatchInv, ModelNotLeft, SameTier
    <2>2. \A j \in 1..n : i <= j => ModelAt(j) = ModelAt(i)
      BY <1>5, <2>1
    <2>3. ModelAt(n) = ModelAt(i)
      BY <1>5, <2>2
    <2>4. row[x].model = resident
      BY <1>4, <1>7, <1>8, <1>9, <2>3
    <2> QED BY <2>2, <2>3, <2>4, <1>7, <1>9
  <1>10. ASSUME NEW i \in 1..n, NEW w \in waiting, cleanFrom < i,
                row[w].priority = TierAt(i), TypeOf[row[w].model] = TypeOf[ModelAt(i)]
         PROVE  TypeOf[row[x].model] = TypeOf[ModelAt(i)] /\ \A j \in 1..n : i <= j => TypeOf[ModelAt(j)] = TypeOf[ModelAt(i)]
    <2>1. \A j \in 1..n : i < j => TypeOf[ModelAt(j)] = TypeOf[ModelAt(i)]
      BY <1>5, <1>10 DEF BatchInv, TypeNotLeft, SameTier
    <2>2. \A j \in 1..n : i <= j => TypeOf[ModelAt(j)] = TypeOf[ModelAt(i)]
      BY <1>5, <2>1
    <2>3. TypeOf[ModelAt(n)] = TypeOf[ModelAt(i)]
      BY <1>5, <2>2
    <2>4. TypeOf[row[x].model] = TypeOf[resident]
      BY <1>4, <1>7, <1>8, <1>10, <2>3
    <2> QED BY <2>2, <2>3, <2>4, <1>7, <1>10
  <1>11. BatchTypeOK'
    <2>1. x \in Jobs /\ x # NoRun
      BY <1>2, <1>3, BatchingAssumption DEF BatchTypeOK
    <2>2. cleanFrom' \in 0..Len(drained')
      BY <1>2, <1>5, <1>20
    <2>3. drained' \in Seq(Jobs)
      BY <1>1, <1>2, <2>1 DEF BatchTypeOK
    <2> QED BY <1>1, <1>2, <2>1, <2>2, <2>3 DEF BatchTypeOK
  <1>12. LastIsResident' /\ HeldWhileGenerating'
    BY <1>1, <1>2, <1>5, <1>6 DEF LastIsResident, HeldWhileGenerating, Upcoming, Needed, ModelAt, TierAt
  <1>13. TiersDescend'
    <2>1. ASSUME NEW i \in DOMAIN drained', NEW w \in waiting' PROVE row'[w].priority <= TierAt(i)'
      <3>1. CASE i \in 1..n
        BY <1>1, <1>2, <1>5, <1>6, <3>1 DEF BatchInv, TiersDescend
      <3>2. CASE i = n + 1
        BY <1>1, <1>2, <1>3, <1>6, <3>2 DEF ModelAt, TierAt
      <3> QED BY <1>6, <3>1, <3>2
    <2> QED BY <2>1 DEF TiersDescend
  <1>14. ModelNotLeft'
    <2>1. ASSUME NEW i \in DOMAIN drained', NEW w \in waiting', cleanFrom < i,
                 row'[w].priority = TierAt(i)', row'[w].model = ModelAt(i)', NEW j \in DOMAIN drained', i < j
          PROVE  ModelAt(j)' = ModelAt(i)'
      <3>1. i \in 1..n /\ (j \in 1..n \/ j = n + 1)
        BY <1>5, <2>1
      <3>2. row[w].priority = TierAt(i) /\ row[w].model = ModelAt(i) /\ w \in waiting
        BY <1>1, <1>2, <1>6, <2>1, <3>1
      <3>3. row[x].model = ModelAt(i) /\ \A v \in 1..n : i <= v => ModelAt(v) = ModelAt(i)
        BY <1>9, <2>1, <3>1, <3>2
      <3> QED BY <1>6, <2>1, <3>1, <3>3 DEF ModelAt, TierAt
    <2> QED BY <1>2, <2>1 DEF ModelNotLeft, SameTier
  <1>15. TypeNotLeft'
    <2>1. ASSUME NEW i \in DOMAIN drained', NEW w \in waiting', cleanFrom < i, row'[w].priority = TierAt(i)',
                 TypeOf[row'[w].model] = TypeOf[ModelAt(i)'], NEW j \in DOMAIN drained', i < j
          PROVE  TypeOf[ModelAt(j)'] = TypeOf[ModelAt(i)']
      <3>1. i \in 1..n /\ (j \in 1..n \/ j = n + 1)
        BY <1>5, <2>1
      <3>2. row[w].priority = TierAt(i) /\ TypeOf[row[w].model] = TypeOf[ModelAt(i)] /\ w \in waiting
        BY <1>1, <1>2, <1>6, <2>1, <3>1
      <3>3. TypeOf[row[x].model] = TypeOf[ModelAt(i)] /\ \A v \in 1..n : i <= v => TypeOf[ModelAt(v)] = TypeOf[ModelAt(i)]
        BY <1>10, <2>1, <3>1, <3>2
      <3> QED BY <1>6, <2>1, <3>1, <3>3 DEF ModelAt, TierAt
    <2> QED BY <1>2, <2>1 DEF TypeNotLeft, SameTier
  <1>16. WaitersAreYounger'
    <2>1. ASSUME NEW i \in DOMAIN drained', NEW w \in waiting', row'[w].priority = TierAt(i)', row'[w].model = ModelAt(i)'
          PROVE  CreatedAt[drained'[i]] <= CreatedAt[w]
      <3>1. CASE i \in 1..n
        BY <1>1, <1>2, <1>5, <1>6, <2>1, <3>1 DEF BatchInv, WaitersAreYounger, SameTier
      <3>2. CASE i = n + 1
        BY <1>1, <1>2, <1>3, <1>5, <1>6, <2>1, <3>2 DEF ModelAt, TierAt
      <3> QED BY <1>6, <3>1, <3>2
    <2> QED BY <2>1 DEF WaitersAreYounger, SameTier
  <1>17. ModelRunsAreContiguous'
    <2>1. ASSUME NEW i \in DOMAIN drained', NEW j \in DOMAIN drained', NEW k \in DOMAIN drained',
                 cleanFrom < i, i < j, j < k, TierAt(i)' = TierAt(k)', ModelAt(i)' = ModelAt(k)'
          PROVE  ModelAt(j)' = ModelAt(i)'
      <3>1. i \in 1..n /\ j \in 1..n /\ (k \in 1..n \/ k = n + 1)
        BY <1>5, <2>1
      <3>2. CASE k \in 1..n
        BY <1>5, <1>6, <2>1, <3>1, <3>2 DEF BatchInv, BatchesAreOrdered, ModelRunsAreContiguous
      <3>3. CASE k = n + 1
        <4>1. row[x].priority = TierAt(i) /\ row[x].model = ModelAt(i)
          BY <1>6, <2>1, <3>1, <3>3 DEF ModelAt, TierAt
        <4>2. \A v \in 1..n : i <= v => ModelAt(v) = ModelAt(i)
          BY <1>3, <1>9, <2>1, <3>1, <4>1
        <4> QED BY <1>6, <2>1, <3>1, <4>2
      <3> QED BY <3>1, <3>2, <3>3
    <2> QED BY <1>2, <2>1 DEF ModelRunsAreContiguous
  <1>18. TypeRunsAreContiguous'
    <2>1. ASSUME NEW i \in DOMAIN drained', NEW j \in DOMAIN drained', NEW k \in DOMAIN drained',
                 cleanFrom < i, i < j, j < k, TierAt(i)' = TierAt(k)', TypeOf[ModelAt(i)'] = TypeOf[ModelAt(k)']
          PROVE  TypeOf[ModelAt(j)'] = TypeOf[ModelAt(i)']
      <3>1. i \in 1..n /\ j \in 1..n /\ (k \in 1..n \/ k = n + 1)
        BY <1>5, <2>1
      <3>2. CASE k \in 1..n
        BY <1>5, <1>6, <2>1, <3>1, <3>2 DEF BatchInv, BatchesAreOrdered, TypeRunsAreContiguous
      <3>3. CASE k = n + 1
        <4>1. row[x].priority = TierAt(i) /\ TypeOf[row[x].model] = TypeOf[ModelAt(i)]
          BY <1>6, <2>1, <3>1, <3>3 DEF ModelAt, TierAt
        <4>2. \A v \in 1..n : i <= v => TypeOf[ModelAt(v)] = TypeOf[ModelAt(i)]
          BY <1>3, <1>10, <2>1, <3>1, <4>1
        <4> QED BY <1>6, <2>1, <3>1, <4>2
      <3> QED BY <3>1, <3>2, <3>3
    <2> QED BY <1>2, <2>1 DEF TypeRunsAreContiguous
  <1>19. FifoWithinModel'
    <2>1. ASSUME NEW i \in DOMAIN drained', NEW k \in DOMAIN drained', i < k
          PROVE  /\ TierAt(k)' <= TierAt(i)'
                 /\ TierAt(i)' = TierAt(k)' /\ ModelAt(i)' = ModelAt(k)' => CreatedAt[drained'[i]] <= CreatedAt[drained'[k]]
      <3>1. i \in 1..n /\ (k \in 1..n \/ k = n + 1)
        BY <1>5, <2>1
      <3>2. CASE k \in 1..n
        BY <1>5, <1>6, <2>1, <3>1, <3>2 DEF BatchInv, BatchesAreOrdered, FifoWithinModel
      <3>3. CASE k = n + 1
        <4>1. TierAt(k)' <= TierAt(i)'
          BY <1>3, <1>6, <3>1, <3>3 DEF BatchInv, TiersDescend, ModelAt, TierAt
        <4>2. TierAt(i) = row[x].priority /\ ModelAt(i) = row[x].model => CreatedAt[drained[i]] <= CreatedAt[x]
          BY <1>3, <1>6, <3>1 DEF BatchInv, WaitersAreYounger, SameTier
        <4> QED BY <1>5, <1>6, <3>1, <3>3, <4>1, <4>2 DEF ModelAt, TierAt
      <3> QED BY <3>1, <3>2, <3>3
    <2> QED BY <2>1 DEF FifoWithinModel
  <1> QED BY <1>11, <1>12, <1>13, <1>14, <1>15, <1>16, <1>17, <1>18, <1>19 DEF BatchInv, BatchesAreOrdered

\* A change from outside, and a job that is given back, begin the histories anew.
LEMMA StartingOverKeeps ==
  ASSUME BatchInv, StartOver,
         \/ \E j \in Jobs : CreateJob(j)
         \/ \E j \in Jobs, p \in Priorities : SetPriority(j, p)
         \/ Requeue \/ FreeGpu
  PROVE  BatchInv'
  <1>1. BatchTypeOK /\ drained' = <<>> /\ cleanFrom' = 0
    BY DEF BatchInv, StartOver
  <1>2. BatchTypeOK'
    <2>1. CASE (\E j \in Jobs : CreateJob(j)) \/ FreeGpu
      BY <1>1, <2>1 DEF BatchTypeOK, CreateJob, FreeGpu
    <2>2. ASSUME NEW j \in Jobs, NEW p \in Priorities, SetPriority(j, p) PROVE BatchTypeOK'
      <3>1. row' = [row EXCEPT ![j].priority = p] /\ UNCHANGED <<waiting, phase, running, resident>>
        BY <2>2 DEF SetPriority
      <3>2. row' \in [Jobs -> Row]
        BY <1>1, <3>1 DEF BatchTypeOK, Row
      <3> QED BY <1>1, <3>1, <3>2 DEF BatchTypeOK
    <2>3. CASE Requeue
      <3>1. running \in Jobs
        BY <1>1, <2>3 DEF BatchTypeOK, Requeue
      <3> QED BY <1>1, <2>3, <3>1 DEF BatchTypeOK, Requeue
    <2> QED BY <2>1, <2>2, <2>3
  <1>3. DOMAIN drained' = {} /\ ~(cleanFrom' < Len(drained'))
    BY <1>1
  <1>4. LastIsResident' /\ HeldWhileGenerating'
    BY <1>1, <1>3 DEF LastIsResident, HeldWhileGenerating
  <1>5. TiersDescend' /\ ModelNotLeft' /\ TypeNotLeft' /\ WaitersAreYounger'
    BY <1>3 DEF TiersDescend, ModelNotLeft, TypeNotLeft, WaitersAreYounger
  <1>6. BatchesAreOrdered'
    BY <1>2, <1>3 DEF BatchesAreOrdered, ModelRunsAreContiguous, TypeRunsAreContiguous, FifoWithinModel
  <1> QED BY <1>2, <1>4, <1>5, <1>6 DEF BatchInv

\* Where rows, queue and histories stay, all but the resident does.
LEMMA EqualQueueKeeps ==
  ASSUME BatchInv, UNCHANGED <<row, waiting, drained, cleanFrom>>, BatchTypeOK', LastIsResident', HeldWhileGenerating'
  PROVE  BatchInv'
  BY DEF BatchInv, TiersDescend, ModelNotLeft, TypeNotLeft, WaitersAreYounger, SameTier,
     BatchesAreOrdered, ModelRunsAreContiguous, TypeRunsAreContiguous, FifoWithinModel, ModelAt, TierAt

\* A run that goes on, or ends with its model loaded, leaves what the next pick will find.
LEMMA RunGoesOnKeeps ==
  ASSUME BatchInv, BeginEnsure \/ UnloadForSwap \/ BecomeResident \/ FinishRun
  PROVE  BatchInv'
  <1>1. UNCHANGED <<row, waiting, drained, cleanFrom>> /\ BatchTypeOK
    BY DEF BatchInv, BeginEnsure, UnloadForSwap, BecomeResident, FinishRun
  <1>2. BatchTypeOK'
    <2>1. phase # "idle" => running \in Jobs /\ Needed \in Models
      BY <1>1 DEF BatchTypeOK, Needed, Row
    <2> QED BY <1>1, <2>1 DEF BatchTypeOK, BeginEnsure, UnloadForSwap, BecomeResident, FinishRun
  <1>3. LastIsResident' /\ HeldWhileGenerating'
    <2>1. CASE phase' # "idle"
      <3>1. phase # "idle" /\ running' = running
        BY <2>1 DEF BeginEnsure, UnloadForSwap, BecomeResident, FinishRun
      <3>2. Upcoming' = Upcoming /\ Needed' = Needed
        BY <1>1, <2>1, <3>1 DEF Upcoming, Needed
      <3>3. phase' = "generating" => resident' = Needed
        BY DEF BeginEnsure, UnloadForSwap, BecomeResident, FinishRun
      <3> QED BY <1>1, <3>2, <3>3 DEF BatchInv, LastIsResident, HeldWhileGenerating, ModelAt
    <2>2. CASE phase' = "idle"
      <3>1. phase = "generating" /\ resident' = resident
        BY <2>2 DEF BeginEnsure, UnloadForSwap, BecomeResident, FinishRun, BatchInv, BatchTypeOK
      <3>2. cleanFrom < Len(drained) => drained # <<>>
        BY <1>1 DEF BatchTypeOK
      <3>3. cleanFrom < Len(drained) => Upcoming' = Upcoming
        BY <2>2, <3>1, <3>2 DEF Upcoming, BatchInv, HeldWhileGenerating
      <3> QED BY <1>1, <2>2, <3>3 DEF BatchInv, LastIsResident, HeldWhileGenerating, ModelAt
    <2> QED BY <2>1, <2>2
  <1> QED BY <1>1, <1>2, <1>3, EqualQueueKeeps

\* Behind a run that failed to load, nothing has been left yet.
LEMMA FailRunKeeps ==
  ASSUME BatchInv, FailRun
  PROVE  BatchInv'
  <1>1. /\ UNCHANGED <<row, waiting, resident, drained>> /\ BatchTypeOK /\ cleanFrom' = Len(drained)
        /\ phase' = "idle" /\ running' = NoRun
    BY DEF BatchInv, FailRun
  <1>2. PICK n \in Nat : n = Len(drained) /\ Len(drained') = n /\ cleanFrom' = n /\ DOMAIN drained' = 1..n
    BY <1>1 DEF BatchTypeOK
  <1>3. \A i \in DOMAIN drained' : ~(cleanFrom' < i)
    BY <1>2
  <1>4. BatchTypeOK' /\ LastIsResident' /\ HeldWhileGenerating'
    BY <1>1, <1>2 DEF BatchTypeOK, LastIsResident, HeldWhileGenerating
  <1>5. ModelNotLeft' /\ TypeNotLeft' /\ ModelRunsAreContiguous' /\ TypeRunsAreContiguous'
    BY <1>3 DEF ModelNotLeft, TypeNotLeft, ModelRunsAreContiguous, TypeRunsAreContiguous
  <1>6. TiersDescend' /\ WaitersAreYounger' /\ FifoWithinModel'
    BY <1>1 DEF BatchInv, TiersDescend, WaitersAreYounger, SameTier, BatchesAreOrdered, FifoWithinModel, ModelAt, TierAt
  <1> QED BY <1>4, <1>5, <1>6 DEF BatchInv, BatchesAreOrdered

\* A queue that loses a row is ordered as it was.
LEMMA CancelQueuedKeeps ==
  ASSUME BatchInv, NEW j \in Jobs, CancelQueued(j)
  PROVE  BatchInv'
  <1>1. /\ UNCHANGED <<row, phase, running, resident, drained, cleanFrom>> /\ waiting' \subseteq waiting
    BY DEF CancelQueued
  <1>2. BatchTypeOK' /\ LastIsResident' /\ HeldWhileGenerating'
    BY <1>1 DEF BatchInv, BatchTypeOK, LastIsResident, HeldWhileGenerating, Upcoming, Needed, ModelAt
  <1>3. TiersDescend' /\ ModelNotLeft' /\ TypeNotLeft' /\ WaitersAreYounger'
    BY <1>1 DEF BatchInv, TiersDescend, ModelNotLeft, TypeNotLeft, WaitersAreYounger, SameTier, ModelAt, TierAt
  <1>4. ModelRunsAreContiguous' /\ TypeRunsAreContiguous' /\ FifoWithinModel'
    BY <1>1 DEF BatchInv, BatchesAreOrdered, ModelRunsAreContiguous, TypeRunsAreContiguous, FifoWithinModel, ModelAt, TierAt
  <1> QED BY <1>2, <1>3, <1>4 DEF BatchInv, BatchesAreOrdered

\* While the queue is left alone each tier runs each model, and each type, in one
\* unbroken run from one failed load to the next, and the jobs of a model in the order they
\* came whatever fails (select_in_tier, _pick_next, _run and the arbiter's ensure), however
\* many jobs, models and priorities there are.
THEOREM BatchesStayOrdered == Spec => []BatchesAreOrdered
  <1>1. Init => BatchInv
    BY NothingDrained DEF Init, BatchTypeOK
  <1>2. BatchInv /\ [Next]_vars => BatchInv'
    <2> SUFFICES ASSUME BatchInv, [Next]_vars PROVE BatchInv'
      OBVIOUS
    <2>1. CASE QueuePlan \/ UNCHANGED vars
      <3>1. UNCHANGED <<row, waiting, phase, running, resident, drained, cleanFrom>>
        BY <2>1 DEF vars, QueuePlan
      <3>2. BatchTypeOK' /\ LastIsResident' /\ HeldWhileGenerating'
        BY <3>1 DEF BatchInv, BatchTypeOK, LastIsResident, HeldWhileGenerating, Upcoming, Needed, ModelAt
      <3> QED BY <3>1, <3>2, EqualQueueKeeps
    <2>2. CASE \/ \E j \in Jobs : CreateJob(j)
               \/ \E j \in Jobs, p \in Priorities : SetPriority(j, p)
               \/ Requeue \/ FreeGpu
      <3>1. StartOver
        BY <2>2 DEF CreateJob, SetPriority, Requeue, FreeGpu
      <3> QED BY <2>2, <3>1, StartingOverKeeps
    <2>3. CASE \E j \in Jobs : CancelQueued(j)
      BY <2>3, CancelQueuedKeeps
    <2> QED BY <2>1, <2>2, <2>3, PickNextKeeps, RunGoesOnKeeps, FailRunKeeps DEF Next
  <1>3. BatchInv => BatchesAreOrdered
    BY DEF BatchInv
  <1> QED BY <1>1, <1>2, <1>3, PTL DEF Spec

------------------------------------------------------------------------------
(* Recursion over the parts of a finite set, as a fact about functions       *)

\* A rule h that gives the value for a set from the values for its proper subsets.
Descends(h, S, V) ==
  /\ h \in [SUBSET S -> [[SUBSET S -> V] -> V]]
  /\ \A T \in SUBSET S : \A f, g \in [SUBSET S -> V] :
       (\A U \in SUBSET T : U # T => f[U] = g[U]) => h[T][f] = h[T][g]

\* f is what the rule defines.
Follows(f, h, S) == \A T \in SUBSET S : f[T] = h[T][f]

\* Such a rule defines a function on a finite set: built up by the number of elements.
LEMMA RecursionExists ==
  ASSUME NEW S, IsFiniteSet(S), NEW V, V # {}, NEW h, Descends(h, S, V)
  PROVE  \E f \in [SUBSET S -> V] : Follows(f, h, S)
  <1> USE DEF Descends, Follows
  <1> DEFINE Solved(f, n) == \A T \in SUBSET S : Cardinality(T) <= n => f[T] = h[T][f]
             N == {n \in Nat : \E f \in [SUBSET S -> V] : Solved(f, n)}
  <1>1. \A T \in SUBSET S : IsFiniteSet(T) /\ Cardinality(T) \in Nat /\ Cardinality(T) <= Cardinality(S)
    BY FS_Subset, FS_CardinalityType
  <1>2. Cardinality(S) \in Nat
    BY FS_CardinalityType
  <1>3. ASSUME NEW f \in [SUBSET S -> V], NEW n \in Nat, \A T \in SUBSET S : Cardinality(T) < n => f[T] = h[T][f]
        PROVE  n \in N
    <2> DEFINE g == [T \in SUBSET S |-> IF Cardinality(T) = n THEN h[T][f] ELSE f[T]]
    <2>1. g \in [SUBSET S -> V]
      OBVIOUS
    <2>2. ASSUME NEW T \in SUBSET S, Cardinality(T) <= n PROVE g[T] = h[T][f] /\ h[T][g] = h[T][f]
      <3>1. ASSUME NEW U \in SUBSET T, U # T PROVE g[U] = f[U]
        <4>1. U \in SUBSET S /\ Cardinality(U) <= Cardinality(T) /\ Cardinality(U) # Cardinality(T)
          BY <1>1, <3>1, FS_Subset
        <4>2. Cardinality(U) # n
          <5>1. Cardinality(U) \in Nat /\ Cardinality(T) \in Nat
            BY ONLY <1>1, <4>1, T \in SUBSET S
          <5>2. \A a, b, c \in Nat : a <= b /\ a # b /\ b <= c => a # c
            OBVIOUS
          <5> QED BY ONLY <2>2, <4>1, <5>1, <5>2, n \in Nat
        <4> QED BY <4>1, <4>2
      <3>2. h[T][g] = h[T][f]
        <4> HIDE DEF g
        <4> QED BY <2>1, <3>1
      <3>3. Cardinality(T) \in Nat
        BY <1>1
      <3>4. CASE Cardinality(T) = n
        BY <3>2, <3>4
      <3>5. CASE Cardinality(T) < n
        BY <1>3, <3>2, <3>5
      <3> QED BY <2>2, <3>3, <3>4, <3>5
    <2> HIDE DEF g
    <2>3. Solved(g, n)
      BY <2>2
    <2> QED BY <2>1, <2>3
  <1>4. 0 \in N
    <2>1. PICK v : v \in V
      OBVIOUS
    <2> DEFINE f == [T \in SUBSET S |-> v]
    <2>2. f \in [SUBSET S -> V]
      BY <2>1
    <2>3. \A T \in SUBSET S : ~(Cardinality(T) < 0)
      BY <1>1
    <2> HIDE DEF f, N
    <2> QED BY <1>3, <2>2, <2>3
  <1>5. ASSUME NEW n \in 1..Cardinality(S), n - 1 \in N PROVE n \in N
    <2>1. PICK f \in [SUBSET S -> V] : Solved(f, n - 1)
      BY <1>5
    <2>2. n \in Nat /\ \A T \in SUBSET S : Cardinality(T) < n => Cardinality(T) <= n - 1
      BY <1>1, <1>2
    <2> HIDE DEF N
    <2> QED BY <1>3, <2>1, <2>2
  <1>6. Cardinality(S) \in N
    <2> HIDE DEF N
    <2> QED BY <1>2, <1>4, <1>5, UpTo
  <1>7. PICK f \in [SUBSET S -> V] : Solved(f, Cardinality(S))
    BY <1>6
  <1> QED BY <1>1, <1>7

\* Of finitely many things one has the largest number.
LEMMA Largest ==
  ASSUME NEW J, IsFiniteSet(J), NEW f \in [J -> Int]
  PROVE  \A T \in SUBSET J : T # {} => \E x \in T : \A y \in T : f[y] <= f[x]
  <1> DEFINE N == {n \in Nat : \A T \in SUBSET J : Cardinality(T) = n /\ T # {} =>
                                 \E x \in T : \A y \in T : f[y] <= f[x]}
  <1>1. \A T \in SUBSET J : IsFiniteSet(T) /\ Cardinality(T) \in Nat /\ Cardinality(T) <= Cardinality(J)
    BY FS_Subset, FS_CardinalityType
  <1>2. Cardinality(J) \in Nat
    BY FS_CardinalityType
  <1>3. 0 \in N
    BY <1>1, FS_EmptySet
  <1>4. ASSUME NEW n \in 1..Cardinality(J), n - 1 \in N PROVE n \in N
    <2>1. ASSUME NEW T \in SUBSET J, Cardinality(T) = n, T # {}
          PROVE  \E x \in T : \A y \in T : f[y] <= f[x]
      <3>1. PICK e \in T : TRUE
        BY <2>1
      <3>2. T \ {e} \in SUBSET J /\ Cardinality(T \ {e}) = n - 1
        BY <1>1, <2>1, FS_RemoveElement
      <3>3. CASE T \ {e} = {}
        BY <3>3
      <3>4. CASE T \ {e} # {}
        <4>1. PICK x \in T \ {e} : \A y \in T \ {e} : f[y] <= f[x]
          BY <1>4, <3>2, <3>4
        <4>2. CASE f[e] <= f[x]
          BY <4>1, <4>2
        <4>3. CASE ~(f[e] <= f[x])
          <5>1. \A y \in T : f[y] \in Int
            OBVIOUS
          <5>2. \A y \in T : f[y] <= f[e]
            BY <4>1, <4>3, <5>1
          <5> QED BY <5>2
        <4> QED BY <4>2, <4>3
      <3> QED BY <3>3, <3>4
    <2> QED BY <2>1
  <1>5. \A n \in 0..Cardinality(J) : n \in N
    <2> HIDE DEF N
    <2> QED BY <1>2, <1>3, <1>4, UpTo
  <1> QED BY <1>1, <1>5

------------------------------------------------------------------------------
(* The preview: what plan_queue computes, and what its steps stand for        *)

StepRecord == [model : Models, type : {"llm", "image"}, count : Nat]
PlanRecord == [swaps : Nat, steps : Seq(StepRecord)]
NoSteps == [swaps |-> 0, steps |-> <<>>]

\* As many runs of a model as a step counts.
Runs(x) == [i \in 1 .. x.count |-> x.model]

\* The models that a list of steps stands for.
Unrolled(steps) ==
  FoldLeft(LAMBDA acc, s : acc \o [i \in 1 .. s.count |-> s.model], <<>>, steps)

\* The fold, step by step.
Unrolls(steps, v) ==
  /\ v \in [0..Len(steps) -> Seq(Models)] /\ v[0] = <<>>
  /\ \A n \in 1..Len(steps) : v[n] = v[n - 1] \o Runs(steps[n])

\* A step stands for as many models as it counts.
LEMMA RunsAreModels ==
  ASSUME NEW x \in StepRecord
  PROVE  Runs(x) \in Seq(Models) /\ Len(Runs(x)) = x.count
  BY DEF Runs, StepRecord

\* Of a segment of numbers the last one is the largest.
LEMMA LastIsMax ==
  ASSUME NEW n \in Nat, n > 0
  PROVE  Max(1..n) = n /\ (1..n) \ {n} = 1..(n - 1)
  <1>1. n \in 1..n /\ \A y \in 1..n : n >= y
    OBVIOUS
  <1>2. \A x \in 1..n : (\A y \in 1..n : x >= y) => x = n
    OBVIOUS
  <1>3. Max(1..n) \in 1..n /\ \A y \in 1..n : Max(1..n) >= y
    BY <1>1 DEF Max
  <1> QED BY <1>2, <1>3

\* A finite set of numbers has its largest element.
LEMMA MaxOf ==
  ASSUME NEW n \in Nat
  PROVE  \A T \in SUBSET (1..n) : T # {} => Max(T) \in T
  <1>1. IsFiniteSet(1..n)
    BY FS_Interval
  <1> DEFINE f == [i \in 1..n |-> i]
  <1>2. f \in [1..n -> Int]
    OBVIOUS
  <1>3. \A T \in SUBSET (1..n) : T # {} => \E x \in T : \A y \in T : f[y] <= f[x]
    <2> HIDE DEF f
    <2> QED BY <1>1, <1>2, Largest
  <1>4. ASSUME NEW T \in SUBSET (1..n), T # {} PROVE Max(T) \in T
    <2>1. \E x \in T : \A y \in T : x >= y
      <3>1. PICK x \in T : \A y \in T : f[y] <= f[x]
        BY <1>3, <1>4
      <3>2. \A y \in T : x >= y
        BY <3>1
      <3> QED BY <3>2
    <2> QED BY <2>1 DEF Max
  <1> QED BY <1>4

\* The fold has a value after each step, a list of models.
LEMMA UnrollsExist ==
  ASSUME NEW steps \in Seq(StepRecord)
  PROVE  \E v : Unrolls(steps, v) /\ Unrolled(steps) = v[Len(steps)]
  <1> DEFINE S == DOMAIN steps
             V == Seq(Models)
             h == [T \in SUBSET S |-> [f \in [SUBSET S -> V] |->
                     IF T = {} THEN <<>> ELSE f[T \ {Max(T)}] \o Runs(steps[Max(T)])]]
  <1>1. PICK l \in Nat : l = Len(steps) /\ S = 1..l
    OBVIOUS
  <1>2. \A T \in SUBSET S : T # {} => Max(T) \in T
    BY <1>1, MaxOf
  <1>3. \A x \in S : Runs(steps[x]) \in V
    BY RunsAreModels
  <1>4. h \in [SUBSET S -> [[SUBSET S -> V] -> V]]
    <2>1. ASSUME NEW T \in SUBSET S, NEW f \in [SUBSET S -> V], T # {}
          PROVE  f[T \ {Max(T)}] \o Runs(steps[Max(T)]) \in V
      <3>1. T \ {Max(T)} \in SUBSET S /\ Max(T) \in S
        BY <1>2, <2>1
      <3>2. f[T \ {Max(T)}] \in Seq(Models) /\ Runs(steps[Max(T)]) \in Seq(Models)
        BY <1>3, <3>1
      <3> QED BY <3>2
    <2>2. <<>> \in V
      OBVIOUS
    <2> HIDE DEF S, V
    <2> QED BY <2>1, <2>2
  <1>5. ASSUME NEW T \in SUBSET S, NEW f \in [SUBSET S -> V], NEW g \in [SUBSET S -> V],
               \A U \in SUBSET T : U # T => f[U] = g[U]
        PROVE  h[T][f] = h[T][g]
    <2>1. T # {} => T \ {Max(T)} \in SUBSET T /\ T \ {Max(T)} # T
      BY <1>2
    <2>2. T # {} => f[T \ {Max(T)}] = g[T \ {Max(T)}]
      BY <1>5, <2>1
    <2> HIDE DEF S, V
    <2> QED BY <2>2
  <1>6. PICK f \in [SUBSET S -> V] : Follows(f, h, S)
    <2>1. IsFiniteSet(S)
      BY <1>1, FS_Interval
    <2>2. <<>> \in V
      OBVIOUS
    <2>3. \A T \in SUBSET S : \A f, g \in [SUBSET S -> V] :
            (\A U \in SUBSET T : U # T => f[U] = g[U]) => h[T][f] = h[T][g]
      <3> HIDE DEF S, V, h
      <3> QED BY <1>5
    <2> HIDE DEF S, V, h
    <2>4. Descends(h, S, V) /\ V # {}
      BY <1>4, <2>2, <2>3 DEF Descends
    <2> QED BY <2>1, <2>4, RecursionExists
  <1>7. f = [T \in SUBSET S |-> IF T = {} THEN <<>> ELSE f[T \ {Max(T)}] \o Runs(steps[Max(T)])]
    <2> HIDE DEF S, V
    <2> QED BY <1>6 DEF Follows
  <1>8. PICK g : /\ g = [T \in SUBSET S |-> IF T = {} THEN <<>> ELSE g[T \ {Max(T)}] \o Runs(steps[Max(T)])]
                 /\ Unrolled(steps) = g[S]
    BY <1>7 DEF Unrolled, FoldLeft, MapThenFoldSet, Runs
  <1> DEFINE v == [n \in 0..l |-> g[1..n]]
  <1>9. v[0] = <<>> /\ \A n \in 1..l : v[n] = v[n - 1] \o Runs(steps[n])
    <2>1. g[{}] = <<>> /\ 1..0 = {}
      BY <1>8
    <2>2. ASSUME NEW n \in 1..l PROVE g[1..n] = g[1..(n - 1)] \o Runs(steps[n])
      <3>1. Max(1..n) = n /\ (1..n) \ {n} = 1..(n - 1) /\ 1..n \in SUBSET S /\ 1..n # {}
        BY <1>1, LastIsMax
      <3> HIDE DEF S
      <3> QED BY <1>8, <3>1
    <2>3. v[0] = g[1..0] /\ \A n \in 1..l : v[n] = g[1..n] /\ v[n - 1] = g[1..(n - 1)]
      <3>1. 0 \in 0..l /\ \A n \in 1..l : n \in 0..l /\ n - 1 \in 0..l
        OBVIOUS
      <3> QED BY <3>1
    <2> HIDE DEF v
    <2> QED BY <2>1, <2>2, <2>3
  <1>10. \A n \in 0..l : v[n] \in Seq(Models)
    <2> DEFINE N == {n \in 0..l : v[n] \in Seq(Models)}
    <2>1. 0 \in N
      <3>1. 0 \in 0..l /\ v[0] = <<>> /\ <<>> \in Seq(Models)
        BY <1>9
      <3> HIDE DEF v
      <3> QED BY <3>1
    <2>2. ASSUME NEW n \in 1..l, n - 1 \in N PROVE n \in N
      <3>1. v[n - 1] \in Seq(Models) /\ Runs(steps[n]) \in Seq(Models) /\ n \in 0..l
        BY <1>1, <1>3, <2>2
      <3>2. v[n - 1] \o Runs(steps[n]) \in Seq(Models)
        <4> HIDE DEF v
        <4> QED BY <3>1
      <3> HIDE DEF v
      <3> QED BY <1>9, <3>1, <3>2
    <2>3. \A n \in 0..l : n \in N
      <3> HIDE DEF N
      <3> QED BY <2>1, <2>2, UpTo
    <2> QED BY <2>3
  <1>11. Unrolls(steps, v)
    <2>1. v \in [0..l -> Seq(Models)]
      BY <1>10
    <2> HIDE DEF v
    <2> QED BY <1>1, <1>9, <2>1 DEF Unrolls
  <1>12. v[Len(steps)] = Unrolled(steps)
    BY <1>1, <1>8
  <1> QED BY <1>11, <1>12

\* A step in front of others stands for its runs before theirs.
LEMMA UnrolledCons ==
  ASSUME NEW x \in StepRecord, NEW t \in Seq(StepRecord)
  PROVE  Unrolled(<<x>> \o t) = Runs(x) \o Unrolled(t) /\ Unrolled(t) \in Seq(Models)
  <1> DEFINE s == <<x>> \o t
  <1>1. PICK l \in Nat : l = Len(t)
    OBVIOUS
  <1>2. s \in Seq(StepRecord) /\ Len(s) = l + 1 /\ s[1] = x /\ \A n \in 1..l : s[n + 1] = t[n]
    BY <1>1
  <1>3. PICK u : Unrolls(s, u) /\ Unrolled(s) = u[Len(s)]
    <2> HIDE DEF s
    <2> QED BY <1>2, UnrollsExist
  <1>4. PICK v : Unrolls(t, v) /\ Unrolled(t) = v[Len(t)]
    BY UnrollsExist
  <1>5. Runs(x) \in Seq(Models) /\ \A n \in 1..l : Runs(t[n]) \in Seq(Models)
    BY <1>1, RunsAreModels
  <1>6. /\ \A n \in 0..l : v[n] \in Seq(Models)
        /\ v[0] = <<>> /\ \A n \in 1..l : v[n] = v[n - 1] \o Runs(t[n])
    BY <1>1, <1>4 DEF Unrolls
  <1>7. /\ u[0] = <<>> /\ u[1] = u[0] \o Runs(s[1])
        /\ \A n \in 0..l : u[n + 1] = u[n] \o Runs(s[n + 1])
    <2>1. 1 \in 1..(l + 1) /\ 1 - 1 = 0 /\ \A n \in 0..l : n + 1 \in 1..(l + 1) /\ (n + 1) - 1 = n
      OBVIOUS
    <2> HIDE DEF s
    <2> QED BY <1>2, <1>3, <2>1 DEF Unrolls
  <1> HIDE DEF s
  <1> DEFINE N == {n \in 0..l : u[n + 1] = Runs(x) \o v[n]}
  <1>8. 0 \in N
    <2>1. 0 \in 0..l /\ 0 + 1 = 1
      OBVIOUS
    <2>2. <<>> \o Runs(x) = Runs(x) /\ Runs(x) \o <<>> = Runs(x)
      BY <1>5
    <2> QED BY <1>2, <1>6, <1>7, <2>1, <2>2
  <1>9. ASSUME NEW n \in 1..l, n - 1 \in N PROVE n \in N
    <2>1. n \in 0..l /\ n - 1 \in 0..l /\ (n - 1) + 1 = n
      OBVIOUS
    <2>2. u[n] = Runs(x) \o v[n - 1]
      BY <1>9, <2>1
    <2>3. u[n + 1] = u[n] \o Runs(t[n])
      BY <1>2, <1>7, <2>1
    <2>4. (Runs(x) \o v[n - 1]) \o Runs(t[n]) = Runs(x) \o (v[n - 1] \o Runs(t[n]))
      <3>1. PICK a \in Seq(Models), b \in Seq(Models), c \in Seq(Models) :
              a = Runs(x) /\ b = v[n - 1] /\ c = Runs(t[n])
        BY <1>5, <1>6, <2>1
      <3>2. (a \o b) \o c = a \o (b \o c)
        BY ConcatAssociative
      <3> QED BY <3>1, <3>2
    <2>5. v[n] = v[n - 1] \o Runs(t[n])
      BY <1>6
    <2>6. u[n + 1] = Runs(x) \o v[n]
      BY ONLY <2>2, <2>3, <2>4, <2>5
    <2> QED BY <2>1, <2>6
  <1>10. u[l + 1] = Runs(x) \o v[l]
    <2>1. \A n \in 0..l : n \in N
      <3> HIDE DEF N
      <3> QED BY <1>8, <1>9, UpTo
    <2>2. l \in 0..l
      OBVIOUS
    <2> QED BY <2>1, <2>2
  <1>11. l \in 0..l
    OBVIOUS
  <1> QED BY <1>1, <1>2, <1>3, <1>4, <1>6, <1>10, <1>11 DEF s

\* Lists of steps stand for lists of models, and no step for none.
LEMMA UnrolledAll ==
  /\ Unrolled(<<>>) = <<>>
  /\ \A steps \in Seq(StepRecord) : Unrolled(steps) \in Seq(Models)
  <1>1. ASSUME NEW steps \in Seq(StepRecord) PROVE Unrolled(steps) \in Seq(Models)
    <2>1. PICK v : Unrolls(steps, v) /\ Unrolled(steps) = v[Len(steps)]
      BY UnrollsExist
    <2>2. Len(steps) \in 0..Len(steps)
      OBVIOUS
    <2> QED BY <2>1, <2>2 DEF Unrolls
  <1>2. PICK w : Unrolls(<<>>, w) /\ Unrolled(<<>>) = w[Len(<<>>)]
    <2>1. <<>> \in Seq(StepRecord)
      OBVIOUS
    <2> QED BY <2>1, UnrollsExist
  <1>3. Len(<<>>) = 0 /\ w[0] = <<>>
    BY <1>2 DEF Unrolls
  <1> QED BY <1>1, <1>2, <1>3

\* One more run in front of a list of steps stands for one more model in front.
LEMMA PrependRuns ==
  ASSUME NEW m \in Models, NEW steps \in Seq(StepRecord)
  PROVE  /\ Prepend(m, steps) \in Seq(StepRecord)
         /\ Unrolled(Prepend(m, steps)) = <<m>> \o Unrolled(steps)
         /\ Unrolled(steps) \in Seq(Models)
  <1> DEFINE one == [model |-> m, type |-> TypeOf[m], count |-> 1]
             more == [Head(steps) EXCEPT !.count = @ + 1]
  <1>0. one \in StepRecord
    BY BatchingAssumption DEF StepRecord
  <1>1. CASE steps # <<>> /\ Head(steps).model = m
    <2>1. PICK x \in StepRecord : x = Head(steps)
      BY <1>1
    <2>2. PICK t \in Seq(StepRecord) : t = Tail(steps)
      BY <1>1, HeadTailProperties
    <2>3. more = [model |-> m, type |-> x.type, count |-> x.count + 1] /\ more \in StepRecord
      <3>1. x.model = m /\ x.type \in {"llm", "image"} /\ x.count + 1 \in Nat
            /\ x = [model |-> m, type |-> x.type, count |-> x.count]
        BY <1>1, <2>1 DEF StepRecord
      <3>2. more = [x EXCEPT !.count = @ + 1]
        BY <2>1
      <3>3. [x EXCEPT !.count = @ + 1] = [model |-> m, type |-> x.type, count |-> x.count + 1]
        BY <3>1
      <3>4. [model |-> m, type |-> x.type, count |-> x.count + 1] \in StepRecord
        BY <3>1 DEF StepRecord
      <3> HIDE DEF more
      <3> QED BY <3>2, <3>3, <3>4
    <2>4. Prepend(m, steps) = <<more>> \o t
      BY <1>1, <2>2 DEF Prepend
    <2>5. steps = <<x>> \o t
      BY <1>1, <2>1, <2>2
    <2>6. Runs(more) = <<m>> \o Runs(x)
      <3>1. PICK c \in Nat : c = x.count
        BY DEF StepRecord
      <3>2. Runs(more) = [i \in 1..(c + 1) |-> m]
        BY <2>3, <3>1 DEF Runs
      <3>3. Runs(x) = [i \in 1..c |-> m]
        BY <1>1, <2>1, <3>1 DEF Runs
      <3> DEFINE r == [i \in 1..c |-> m]
      <3>4. r \in Seq(Models) /\ Len(r) = c /\ \A i \in 1..c : r[i] = m
        OBVIOUS
      <3> HIDE DEF r
      <3>5. <<m>> \o r \in Seq(Models) /\ Len(<<m>> \o r) = c + 1 /\ \A i \in 1..(c + 1) : (<<m>> \o r)[i] = m
        BY <3>1, <3>4
      <3>6. <<m>> \o r = [i \in 1..(c + 1) |-> m]
        <4>1. PICK q \in Seq(Models) : q = <<m>> \o r
          BY <3>5
        <4>2. DOMAIN q = 1..(c + 1) /\ \A i \in 1..(c + 1) : q[i] = m
          BY <3>5, <4>1
        <4> QED BY <4>1, <4>2
      <3> QED BY <3>1, <3>2, <3>3, <3>6 DEF r
    <2> HIDE DEF more
    <2>7. /\ Unrolled(<<more>> \o t) = Runs(more) \o Unrolled(t)
          /\ Unrolled(<<x>> \o t) = Runs(x) \o Unrolled(t) /\ Unrolled(t) \in Seq(Models)
      BY <2>3, UnrolledCons
    <2>8. Runs(x) \in Seq(Models) /\ <<m>> \in Seq(Models)
      BY RunsAreModels
    <2>9. (<<m>> \o Runs(x)) \o Unrolled(t) = <<m>> \o (Runs(x) \o Unrolled(t))
      BY <2>7, <2>8, ConcatAssociative
    <2>10. <<more>> \o t \in Seq(StepRecord)
      BY <2>3
    <2>11. Runs(x) \o Unrolled(t) \in Seq(Models)
      BY <2>7, <2>8
    <2> QED BY <2>4, <2>5, <2>6, <2>7, <2>9, <2>10, <2>11
  <1>2. CASE ~(steps # <<>> /\ Head(steps).model = m)
    <2>1. Prepend(m, steps) = <<one>> \o steps
      BY <1>2 DEF Prepend
    <2>2. Runs(one) = <<m>>
      BY DEF Runs
    <2>3. <<one>> \o steps \in Seq(StepRecord)
      BY <1>0
    <2> HIDE DEF one
    <2> QED BY <1>0, <2>1, <2>2, <2>3, UnrolledCons
  <1> QED BY <1>1, <1>2

------------------------------------------------------------------------------
(* The plan of a queue, and of what is left of it after one run               *)

Residents == Models \union {NoModel}

\* The row that plan_queue takes next.
NextJob(T, r) == CHOOSE j \in SelectInTier(TopTier(T), r) : TRUE

\* One step of the plan: f is the plan of the smaller queues.
PlanBody(f, T) ==
  [r \in Residents |->
     IF T = {} THEN NoSteps
     ELSE LET j == NextJob(T, r)
              rest == f[T \ {j}][row[j].model]
          IN [swaps |-> rest.swaps + (IF IsSwap(r, row[j].model) THEN 1 ELSE 0),
              steps |-> Prepend(row[j].model, rest.steps)]]

\* f is the plan of every part of the queue S.
IsPlan(f, S) == f = [T \in SUBSET S |-> PlanBody(f, T)]

\* plan_queue's recursion is the choice of such a function.
LEMMA PlanIsChosen ==
  ASSUME NEW S, NEW m
  PROVE  PlanQueue(S, m) = (CHOOSE f : IsPlan(f, S))[S][m]
  BY DEF PlanQueue, IsPlan, PlanBody, NextJob, NoSteps, Residents

\* Of finitely many rows select_in_tier finds one.
LEMMA NextIsThere ==
  ASSUME row \in [Jobs -> Row], IsFiniteSet(Jobs), NEW T \in SUBSET Jobs, T # {}, NEW r \in Residents
  PROVE  NextJob(T, r) \in SelectInTier(TopTier(T), r) /\ NextJob(T, r) \in T
  <1>1. \A U \in SUBSET Jobs : U # {} => Oldest(U) # {}
    <2> DEFINE f == [j \in Jobs |-> -CreatedAt[j]]
    <2>1. f \in [Jobs -> Int] /\ \A j \in Jobs : CreatedAt[j] \in Nat
      BY BatchingAssumption
    <2>2. \A U \in SUBSET Jobs : U # {} => \E x \in U : \A y \in U : f[y] <= f[x]
      <3> HIDE DEF f
      <3> QED BY <2>1, Largest
    <2>3. \A j, k \in Jobs : f[k] <= f[j] => CreatedAt[j] <= CreatedAt[k]
      BY <2>1
    <2> HIDE DEF f
    <2> QED BY <2>2, <2>3 DEF Oldest
  <1>2. TopTier(T) # {} /\ TopTier(T) \in SUBSET T
    <2> DEFINE f == [j \in Jobs |-> row[j].priority]
    <2>1. f \in [Jobs -> Int]
      BY BatchingAssumption DEF Row
    <2>2. \E x \in T : \A y \in T : f[y] <= f[x]
      <3> HIDE DEF f
      <3> QED BY <2>1, Largest
    <2> QED BY <2>2 DEF TopTier
  <1>3. SelectInTier(TopTier(T), r) # {} /\ SelectInTier(TopTier(T), r) \in SUBSET TopTier(T)
    <2>1. ModelMatches(TopTier(T), r) \in SUBSET TopTier(T) /\ TypeMatches(TopTier(T), r) \in SUBSET TopTier(T)
      BY DEF ModelMatches, TypeMatches
    <2>2. \A U : Oldest(U) \in SUBSET U
      BY DEF Oldest
    <2>3. \A U \in SUBSET TopTier(T) : U \in SUBSET Jobs
      BY <1>2
    <2> QED BY <1>1, <1>2, <2>1, <2>2, <2>3 DEF SelectInTier
  <1> QED BY <1>2, <1>3 DEF NextJob

\* The recursion of plan_queue has a solution for a finite queue.
LEMMA PlanExists ==
  ASSUME row \in [Jobs -> Row], IsFiniteSet(Jobs), NEW S \in SUBSET Jobs
  PROVE  \E f \in [SUBSET S -> [Residents -> PlanRecord]] : IsPlan(f, S)
  <1> DEFINE V == [Residents -> PlanRecord]
             h == [T \in SUBSET S |-> [f \in [SUBSET S -> V] |-> PlanBody(f, T)]]
  <1>1. IsFiniteSet(S)
    BY FS_Subset
  <1>2. NoSteps \in PlanRecord
    BY DEF NoSteps, PlanRecord
  <1>3. ASSUME NEW T \in SUBSET S, T # {}, NEW r \in Residents
        PROVE  /\ NextJob(T, r) \in T /\ T \ {NextJob(T, r)} \in SUBSET S
               /\ row[NextJob(T, r)].model \in Models /\ row[NextJob(T, r)].model \in Residents
    BY <1>3, NextIsThere DEF Row, Residents
  <1>4. ASSUME NEW f \in [SUBSET S -> V], NEW T \in SUBSET S PROVE PlanBody(f, T) \in V
    <2>1. ASSUME T # {}, NEW r \in Residents
          PROVE  [swaps |-> f[T \ {NextJob(T, r)}][row[NextJob(T, r)].model].swaps
                             + (IF IsSwap(r, row[NextJob(T, r)].model) THEN 1 ELSE 0),
                  steps |-> Prepend(row[NextJob(T, r)].model,
                              f[T \ {NextJob(T, r)}][row[NextJob(T, r)].model].steps)] \in PlanRecord
      <3>1. PICK m \in Models : m = row[NextJob(T, r)].model /\ m \in Residents
        BY <1>3, <2>1
      <3>2. PICK rest \in PlanRecord : rest = f[T \ {NextJob(T, r)}][m]
        BY <1>3, <2>1, <3>1
      <3>3. rest.swaps \in Nat /\ rest.steps \in Seq(StepRecord)
        BY DEF PlanRecord
      <3>4. Prepend(m, rest.steps) \in Seq(StepRecord)
        BY <3>3, PrependRuns
      <3>5. rest.swaps + (IF IsSwap(r, m) THEN 1 ELSE 0) \in Nat
        BY <3>3
      <3> QED BY <3>1, <3>2, <3>4, <3>5 DEF PlanRecord
    <2> QED BY <1>2, <2>1 DEF PlanBody
  <1>5. h \in [SUBSET S -> [[SUBSET S -> V] -> V]]
    <2> HIDE DEF V
    <2> QED BY <1>4
  <1>6. ASSUME NEW T \in SUBSET S, NEW f \in [SUBSET S -> V], NEW g \in [SUBSET S -> V],
               \A U \in SUBSET T : U # T => f[U] = g[U]
        PROVE  h[T][f] = h[T][g]
    <2>1. ASSUME T # {}, NEW r \in Residents PROVE f[T \ {NextJob(T, r)}] = g[T \ {NextJob(T, r)}]
      BY <1>3, <1>6, <2>1
    <2>2. PlanBody(f, T) = PlanBody(g, T)
      BY <2>1 DEF PlanBody
    <2> HIDE DEF V
    <2> QED BY <2>2
  <1>7. Descends(h, S, V) /\ V # {}
    <2>1. [r \in Residents |-> NoSteps] \in V
      BY <1>2
    <2> HIDE DEF h, V
    <2> QED BY <1>5, <1>6, <2>1 DEF Descends
  <1>8. PICK f \in [SUBSET S -> V] : Follows(f, h, S)
    <2> HIDE DEF h, V
    <2> QED BY <1>1, <1>7, RecursionExists
  <1>9. IsPlan(f, S)
    <2>1. \A T \in SUBSET S : f[T] = PlanBody(f, T)
      <3> HIDE DEF V
      <3> QED BY <1>8 DEF Follows
    <2> HIDE DEF V, h
    <2> QED BY <2>1 DEF IsPlan
  <1> QED BY <1>9

\* The plans of a queue and of a part of it agree on what both plan.
LEMMA PlansAgree ==
  ASSUME row \in [Jobs -> Row], IsFiniteSet(Jobs), NEW S \in SUBSET Jobs, NEW R \in SUBSET S,
         NEW f, NEW g, IsPlan(f, S), IsPlan(g, R)
  PROVE  \A T \in SUBSET R : f[T] = g[T]
  <1> DEFINE N == {n \in Nat : \A T \in SUBSET R : Cardinality(T) = n => f[T] = g[T]}
             Below(n) == \A k \in 0..n : k \in N
             M == {n \in Nat : Below(n)}
  <1>1. \A T \in SUBSET R : IsFiniteSet(T) /\ Cardinality(T) \in Nat /\ Cardinality(T) <= Cardinality(R)
    <2>1. IsFiniteSet(R)
      BY FS_Subset
    <2> QED BY <2>1, FS_Subset, FS_CardinalityType
  <1>2. Cardinality(R) \in Nat
    BY <1>1
  <1>3. \A T \in SUBSET R : f[T] = PlanBody(f, T) /\ g[T] = PlanBody(g, T)
    BY DEF IsPlan
  <1>4. ASSUME NEW T \in SUBSET R,
               \A r \in Residents : T # {} => f[T \ {NextJob(T, r)}] = g[T \ {NextJob(T, r)}]
        PROVE  f[T] = g[T]
    <2>1. PlanBody(f, T) = PlanBody(g, T)
      BY <1>4 DEF PlanBody
    <2> QED BY <1>3, <2>1
  <1>5. 0 \in M
    <2>1. ASSUME NEW T \in SUBSET R, Cardinality(T) = 0 PROVE f[T] = g[T]
      <3>1. T = {}
        BY <1>1, <2>1, FS_EmptySet
      <3> QED BY <1>4, <3>1
    <2>2. 0 \in N
      BY <2>1
    <2>3. \A k \in 0..0 : k = 0
      OBVIOUS
    <2> HIDE DEF N
    <2> QED BY <2>2, <2>3
  <1>6. ASSUME NEW n \in 1..Cardinality(R), n - 1 \in M PROVE n \in M
    <2>1. ASSUME NEW T \in SUBSET R, Cardinality(T) = n PROVE f[T] = g[T]
      <3>1. ASSUME NEW r \in Residents, T # {} PROVE f[T \ {NextJob(T, r)}] = g[T \ {NextJob(T, r)}]
        <4>1. NextJob(T, r) \in T
          BY <3>1, NextIsThere
        <4>2. T \ {NextJob(T, r)} \in SUBSET R /\ Cardinality(T \ {NextJob(T, r)}) = n - 1
          BY <1>1, <2>1, <4>1, FS_RemoveElement
        <4>3. n - 1 \in 0..(n - 1)
          BY <1>2
        <4>4. n - 1 \in N
          <5> HIDE DEF N
          <5> QED BY <1>6, <4>3
        <4> QED BY <4>2, <4>4
      <3> QED BY <1>4, <3>1
    <2>2. n \in N
      BY <1>2, <2>1
    <2>3. \A k \in 0..n : k \in 0..(n - 1) \/ k = n
      BY <1>2
    <2> HIDE DEF N
    <2> QED BY <1>2, <1>6, <2>2, <2>3
  <1>7. \A n \in 0..Cardinality(R) : n \in M
    <2> HIDE DEF M
    <2> QED BY <1>2, <1>5, <1>6, UpTo
  <1>8. \A n \in 0..Cardinality(R) : n \in N
    <2>1. \A n \in 0..Cardinality(R) : n \in 0..n
      BY <1>2
    <2> HIDE DEF N
    <2> QED BY <1>7, <2>1
  <1>9. \A T \in SUBSET R : Cardinality(T) \in 0..Cardinality(R)
    BY <1>1, <1>2
  <1> QED BY <1>8, <1>9

\* What plan_queue computes: nothing for an empty queue, else the next row in front of the
\* plan for the others, with its model resident.
LEMMA PlanNext ==
  ASSUME row \in [Jobs -> Row], IsFiniteSet(Jobs), NEW S \in SUBSET Jobs, NEW r \in Residents
  PROVE  /\ PlanQueue(S, r) \in PlanRecord
         /\ S = {} => PlanQueue(S, r) = NoSteps
         /\ S # {} => PlanQueue(S, r).steps =
                        Prepend(row[NextJob(S, r)].model,
                                PlanQueue(S \ {NextJob(S, r)}, row[NextJob(S, r)].model).steps)
         /\ S # {} => PlanQueue(S, r).swaps =
                        PlanQueue(S \ {NextJob(S, r)}, row[NextJob(S, r)].model).swaps
                          + (IF IsSwap(r, row[NextJob(S, r)].model) THEN 1 ELSE 0)
  <1>1. ASSUME NEW T \in SUBSET Jobs, NEW q \in Residents
        PROVE  \E f : IsPlan(f, T) /\ f \in [SUBSET T -> [Residents -> PlanRecord]]
                      /\ PlanQueue(T, q) = f[T][q]
    <2>1. PICK f \in [SUBSET T -> [Residents -> PlanRecord]] : IsPlan(f, T)
      BY PlanExists
    <2>2. PICK g : IsPlan(g, T) /\ PlanQueue(T, q) = g[T][q]
      BY <2>1, PlanIsChosen
    <2>3. \A U \in SUBSET T : f[U] = g[U]
      <3>1. T \in SUBSET T
        OBVIOUS
      <3> QED BY <2>1, <2>2, <3>1, PlansAgree
    <2>4. T \in SUBSET T
      OBVIOUS
    <2> QED BY <2>1, <2>2, <2>3, <2>4
  <1>2. PICK f : IsPlan(f, S) /\ f \in [SUBSET S -> [Residents -> PlanRecord]] /\ PlanQueue(S, r) = f[S][r]
    BY <1>1
  <1>3. PlanQueue(S, r) \in PlanRecord
    BY <1>2
  <1>4. f[S] = PlanBody(f, S)
    BY <1>2 DEF IsPlan
  <1>5. CASE S = {}
    BY <1>2, <1>3, <1>4, <1>5 DEF PlanBody
  <1>6. CASE S # {}
    <2> DEFINE j == NextJob(S, r)
               m == row[j].model
    <2>1. j \in S /\ m \in Residents /\ S \ {j} \in SUBSET Jobs /\ S \ {j} \in SUBSET S
      BY <1>6, NextIsThere DEF Row, Residents
    <2>2. /\ f[S][r].steps = Prepend(m, f[S \ {j}][m].steps)
          /\ f[S][r].swaps = f[S \ {j}][m].swaps + (IF IsSwap(r, m) THEN 1 ELSE 0)
      BY <1>4, <1>6 DEF PlanBody
    <2> HIDE DEF j, m
    <2>3. PICK g : IsPlan(g, S \ {j}) /\ PlanQueue(S \ {j}, m) = g[S \ {j}][m]
      BY <1>1, <2>1
    <2>4. f[S \ {j}] = g[S \ {j}]
      <3>1. \A T \in SUBSET (S \ {j}) : f[T] = g[T]
        BY <1>2, <2>1, <2>3, PlansAgree
      <3> QED BY <3>1
    <2> QED BY <1>2, <1>3, <1>6, <2>2, <2>3, <2>4 DEF j, m
  <1> QED BY <1>5, <1>6

\* Rows without a common stamp leave select_in_tier no choice.
LEMMA NextIsOnly ==
  ASSUME DistinctStamps, NEW T \in SUBSET Jobs, NEW r \in Residents, NEW x \in SelectInTier(TopTier(T), r)
  PROVE  x = NextJob(T, r)
  <1>1. ASSUME NEW U \in SUBSET Jobs, NEW y \in Oldest(U), NEW z \in Oldest(U) PROVE y = z
    <2>1. CreatedAt[y] <= CreatedAt[z] /\ CreatedAt[z] <= CreatedAt[y] /\ y \in Jobs /\ z \in Jobs
      BY DEF Oldest
    <2>2. CreatedAt[y] \in Nat /\ CreatedAt[z] \in Nat
      BY <2>1, BatchingAssumption
    <2>3. CreatedAt[y] = CreatedAt[z]
      BY <2>1, <2>2
    <2> QED BY <2>1, <2>3 DEF DistinctStamps
  <1>2. PICK U \in SUBSET Jobs : SelectInTier(TopTier(T), r) = Oldest(U)
    <2>1. /\ TopTier(T) \in SUBSET Jobs /\ ModelMatches(TopTier(T), r) \in SUBSET Jobs
          /\ TypeMatches(TopTier(T), r) \in SUBSET Jobs
      BY DEF TopTier, ModelMatches, TypeMatches
    <2> QED BY <2>1 DEF SelectInTier
  <1>3. NextJob(T, r) \in Oldest(U)
    BY <1>2 DEF NextJob
  <1> QED BY <1>1, <1>2, <1>3

\* The models that ran since the preview, and those that the plan of the rest will run,
\* with their swaps; and the swap of the job that was picked but is not loaded.
Ran == [i \in DOMAIN SincePreview |-> row[SincePreview[i]].model]
ToRun == Unrolled(PlanQueue(waiting, Upcoming).steps)
SwapsToCome == PlanQueue(waiting, Upcoming).swaps
Pending == IF phase # "idle" /\ IsSwap(resident, Needed) THEN 1 ELSE 0

PreviewRecord == [swaps : Nat \union {-1}, steps : Seq(StepRecord), from : Nat, exact : BOOLEAN, swapped : Nat]

\* The previewed runs are those that have been, followed by those that the plan would
\* give now, and so are the swaps.
PlanHolds ==
  /\ preview \in PreviewRecord
  /\ preview.exact =>
       /\ preview.from <= Len(drained) /\ preview.swaps \in Nat
       /\ phase = "generating" => resident = Needed
       /\ phase # "idle" /\ resident # Needed => preview.from < Len(drained)
       /\ DistinctStamps => /\ Unrolled(preview.steps) = Ran \o ToRun
                            /\ preview.swaps = preview.swapped + Pending + SwapsToCome

\* The models of the rows in d behind the k-th.
RanOf(rows, d, k) ==
  LET since == SubSeq(d, k + 1, Len(d)) IN [i \in DOMAIN since |-> rows[since[i]].model]

\* What ran since a preview, run by run.
LEMMA RanIs ==
  ASSUME NEW rows \in [Jobs -> Row], NEW d \in Seq(Jobs), NEW k \in 0..Len(d)
  PROVE  /\ RanOf(rows, d, k) \in Seq(Models) /\ Len(RanOf(rows, d, k)) = Len(d) - k
         /\ \A i \in 1..(Len(d) - k) : RanOf(rows, d, k)[i] = rows[d[k + i]].model
  <1>1. PICK n \in Nat : n = Len(d) /\ k \in Nat /\ k <= n
    OBVIOUS
  <1>2. \A i \in (k + 1)..n : d[i] \in Jobs
    BY <1>1
  <1>3. PICK s : s = SubSeq(d, k + 1, n)
    OBVIOUS
  <1>4. s \in Seq(Jobs) /\ Len(s) = n - k /\ \A i \in 1..(n - k) : s[i] = d[k + i]
    <2>1. /\ s \in Seq(Jobs)
          /\ Len(s) = IF k + 1 <= n THEN n - (k + 1) + 1 ELSE 0
          /\ \A i \in 1..(n - (k + 1) + 1) : s[i] = d[(k + 1) + i - 1]
      <3>1. k + 1 \in Int /\ n \in Int
        BY <1>1
      <3> QED BY <1>2, <1>3, <3>1, SubSeqProperties
    <2>2. (IF k + 1 <= n THEN n - (k + 1) + 1 ELSE 0) = n - k /\ n - (k + 1) + 1 = n - k
      BY <1>1
    <2>3. \A i \in 1..(n - k) : (k + 1) + i - 1 = k + i
      BY <1>1
    <2> QED BY <2>1, <2>2, <2>3
  <1>5. n - k \in Nat /\ DOMAIN s = 1..(n - k)
    BY <1>1, <1>4
  <1>6. RanOf(rows, d, k) = [i \in 1..(n - k) |-> rows[s[i]].model]
    BY <1>1, <1>3, <1>5 DEF RanOf
  <1>7. \A i \in 1..(n - k) : s[i] \in Jobs /\ rows[s[i]].model \in Models
    BY <1>4, <1>5 DEF Row
  <1>8. /\ RanOf(rows, d, k) \in Seq(Models) /\ Len(RanOf(rows, d, k)) = n - k
        /\ \A i \in 1..(n - k) : RanOf(rows, d, k)[i] = rows[s[i]].model
    BY <1>5, <1>6, <1>7
  <1> QED BY <1>1, <1>4, <1>8

\* While a plan is to be followed, what is to run is what plan_queue computes.
LEMMA ToRunIs ==
  ASSUME BatchTypeOK, IsFiniteSet(Jobs), Upcoming \in Residents
  PROVE  /\ PlanQueue(waiting, Upcoming).steps \in Seq(StepRecord) /\ ToRun \in Seq(Models) /\ SwapsToCome \in Nat
         /\ waiting = {} => ToRun = <<>> /\ SwapsToCome = 0
         /\ waiting # {} =>
              LET j == NextJob(waiting, Upcoming)
              IN /\ ToRun = <<row[j].model>> \o Unrolled(PlanQueue(waiting \ {j}, row[j].model).steps)
                 /\ SwapsToCome = PlanQueue(waiting \ {j}, row[j].model).swaps
                                    + (IF IsSwap(Upcoming, row[j].model) THEN 1 ELSE 0)
  <1>1. row \in [Jobs -> Row] /\ waiting \in SUBSET Jobs /\ Upcoming \in Residents
    BY DEF BatchTypeOK
  <1>2. PlanQueue(waiting, Upcoming).steps \in Seq(StepRecord) /\ SwapsToCome \in Nat
    BY <1>1, PlanNext DEF PlanRecord, SwapsToCome
  <1>3. ToRun \in Seq(Models)
    BY <1>2, UnrolledAll DEF ToRun
  <1>4. waiting = {} => ToRun = <<>> /\ SwapsToCome = 0
    <2>1. waiting = {} => PlanQueue(waiting, Upcoming) = NoSteps
      BY <1>1, PlanNext
    <2>2. NoSteps.steps = <<>> /\ NoSteps.swaps = 0
      BY DEF NoSteps
    <2> QED BY <2>1, <2>2, UnrolledAll DEF ToRun, SwapsToCome
  <1>5. CASE waiting # {}
    <2> DEFINE j == NextJob(waiting, Upcoming)
    <2>1. j \in waiting
      BY <1>1, <1>5, NextIsThere
    <2> HIDE DEF j
    <2>2. PICK m \in Models : m = row[j].model /\ m \in Residents
      BY <1>1, <2>1 DEF Row, Residents
    <2>3. PlanQueue(waiting \ {j}, m).steps \in Seq(StepRecord)
      BY <1>1, <2>1, <2>2, PlanNext DEF PlanRecord
    <2>4. PlanQueue(waiting, Upcoming).steps = Prepend(m, PlanQueue(waiting \ {j}, m).steps)
      BY <1>1, <1>5, <2>2, PlanNext DEF j
    <2>5. ToRun = <<m>> \o Unrolled(PlanQueue(waiting \ {j}, m).steps)
      BY <2>3, <2>4, PrependRuns DEF ToRun
    <2>6. SwapsToCome = PlanQueue(waiting \ {j}, m).swaps + (IF IsSwap(Upcoming, m) THEN 1 ELSE 0)
      BY <1>1, <1>5, <2>2, PlanNext DEF j, SwapsToCome
    <2> QED BY <1>2, <1>3, <1>5, <2>2, <2>5, <2>6 DEF j
  <1> QED BY <1>2, <1>3, <1>4, <1>5

\* The plan depends on nothing but rows, queue and resident model.
LEMMA ToRunStays ==
  ASSUME row' = row, NEW S, NEW m, waiting' = S, Upcoming' = m
  PROVE  ToRun' = Unrolled(PlanQueue(S, m).steps) /\ SwapsToCome' = PlanQueue(S, m).swaps
  <1>1. PICK u : u = Upcoming'
    OBVIOUS
  <1>2. PlanQueue(waiting, Upcoming)' = PlanQueue(S, m)
    BY <1>1 DEF PlanQueue, SelectInTier, TopTier, Oldest, ModelMatches, TypeMatches, IsSwap, Prepend
  <1> QED BY <1>2 DEF ToRun, SwapsToCome

\* What the next pick will find is a model, or none.
LEMMA UpcomingIs ==
  ASSUME BatchTypeOK
  PROVE  Upcoming \in Residents /\ (phase # "idle" => running \in Jobs /\ Needed \in Models)
  <1>1. phase # "idle" => running \in Jobs /\ Needed \in Models
    BY DEF BatchTypeOK, Needed, Row
  <1> QED BY <1>1 DEF BatchTypeOK, Upcoming, Residents

\* A preview that was just taken is the plan of the queue it saw.
LEMMA PlanBegins ==
  ASSUME BatchTypeOK, BatchTypeOK', IsFiniteSet(Jobs), QueuePlan
  PROVE  PlanHolds'
  <1>1. PICK S \in NewestRows :
          preview' = [swaps |-> PlanQueue(S, resident).swaps, steps |-> PlanQueue(S, resident).steps,
                      from |-> Len(drained), exact |-> S = waiting /\ (phase = "idle" \/ resident = Needed),
                      swapped |-> 0]
    BY DEF QueuePlan
  <1>2. UNCHANGED <<row, waiting, phase, running, resident, drained>>
    BY DEF QueuePlan
  <1>3. S \in SUBSET Jobs /\ resident \in Residents /\ row \in [Jobs -> Row]
    BY DEF BatchTypeOK, NewestRows, Residents
  <1>4. PlanQueue(S, resident).swaps \in Nat /\ PlanQueue(S, resident).steps \in Seq(StepRecord)
    BY <1>3, PlanNext DEF PlanRecord
  <1>5. Len(drained) \in Nat /\ Len(drained') = Len(drained)
    BY <1>2 DEF BatchTypeOK
  <1>6. preview' \in PreviewRecord
    BY <1>1, <1>4, <1>5 DEF PreviewRecord
  <1>7. preview'.from = Len(drained') /\ preview'.swapped = 0
    BY <1>1, <1>5
  <1>8. CASE preview'.exact
    <2>1. S = waiting /\ Upcoming = resident /\ (phase = "idle" \/ resident = Needed)
      BY <1>1, <1>8 DEF Upcoming
    <2>2. Upcoming' = resident /\ Needed' = Needed
      BY <1>2, <2>1 DEF Upcoming, Needed
    <2>3. ToRun' = Unrolled(preview'.steps) /\ SwapsToCome' = preview'.swaps
      <3>1. ToRun' = Unrolled(PlanQueue(S, resident).steps) /\ SwapsToCome' = PlanQueue(S, resident).swaps
        BY <1>2, <2>1, <2>2, ToRunStays
      <3> QED BY <1>1, <3>1
    <2>4. Ran' = <<>>
      <3>1. PICK k \in Nat : k = Len(drained) /\ k \in 0..Len(drained)
        BY <1>5
      <3>2. RanOf(row, drained, k) \in Seq(Models) /\ Len(RanOf(row, drained, k)) = Len(drained) - k
        BY <1>3, <3>1, RanIs DEF BatchTypeOK
      <3>3. Ran' = RanOf(row, drained, k)
        BY <1>2, <1>7, <3>1 DEF Ran, SincePreview, RanOf
      <3> QED BY <3>1, <3>2, <3>3
    <2>5. ToRun' \in Seq(Models)
      BY <1>1, <1>4, <2>3, UnrolledAll
    <2>6. Unrolled(preview'.steps) = Ran' \o ToRun'
      BY <2>3, <2>4, <2>5
    <2>7. Pending' = 0
      BY <1>2, <2>1, <2>2 DEF Pending, IsSwap
    <2>8. preview'.swaps \in Nat /\ preview'.swaps = preview'.swapped + Pending' + SwapsToCome'
      BY <1>1, <1>4, <1>7, <2>3, <2>7
    <2>9. phase' # "idle" => resident' = Needed'
      BY <1>2, <2>1, <2>2
    <2> QED BY <1>5, <1>6, <1>7, <2>6, <2>8, <2>9 DEF PlanHolds
  <1> QED BY <1>6, <1>8 DEF PlanHolds

\* A run takes the first model off what is planned, and adds it to what ran.
LEMMA PlanGoesOn ==
  ASSUME BatchTypeOK, BatchTypeOK', IsFiniteSet(Jobs), PlanHolds, PickNext
  PROVE  PlanHolds'
  <1>1. PICK x \in SelectInTier(TopTier(waiting), resident) :
          waiting' = waiting \ {x} /\ drained' = Append(drained, x) /\ running' = x
    BY DEF PickNext
  <1>2. row' = row /\ preview' = preview /\ resident' = resident /\ phase = "idle" /\ phase' = "picked"
    BY DEF PickNext
  <1>3. x \in waiting /\ x \in Jobs
    BY Chosen DEF BatchTypeOK
  <1>9. Upcoming = resident /\ Upcoming' = row[x].model /\ Needed' = row[x].model /\ Upcoming \in Residents
    BY <1>1, <1>2, UpcomingIs DEF Upcoming, Needed
  <1> SUFFICES ASSUME preview.exact PROVE PlanHolds'
    BY <1>2 DEF PlanHolds
  <1>4. PICK n \in Nat, k \in Nat : n = Len(drained) /\ k = preview.from /\ k <= n /\ k \in 0..n
    BY DEF PlanHolds, BatchTypeOK, PreviewRecord
  <1>5. drained \in Seq(Jobs) /\ drained' \in Seq(Jobs) /\ Len(drained') = n + 1 /\ k \in 0..(n + 1)
    BY <1>1, <1>3, <1>4 DEF BatchTypeOK
  <1>6. /\ preview' \in PreviewRecord /\ preview'.from <= Len(drained') /\ preview'.swaps \in Nat
        /\ phase' # "generating" /\ preview'.from < Len(drained')
    BY <1>2, <1>4, <1>5 DEF PlanHolds
  <1>7. CASE ~DistinctStamps
    BY <1>6, <1>7 DEF PlanHolds, DistinctStamps
  <1>8. CASE DistinctStamps
    <2>1. x = NextJob(waiting, Upcoming)
      BY <1>8, <1>9, NextIsOnly DEF BatchTypeOK
    <2>2. PICK m \in Models : m = row[x].model
      BY <1>3 DEF BatchTypeOK, Row
    <2>3. ToRun = <<m>> \o ToRun'
      <3>1. PICK S, q : S = waiting \ {x} /\ q = row[x].model
        OBVIOUS
      <3>2. ToRun' = Unrolled(PlanQueue(S, q).steps)
        BY <1>1, <1>2, <1>9, <3>1, ToRunStays
      <3> QED BY <1>3, <1>9, <2>1, <2>2, <3>1, <3>2, ToRunIs
    <2>4. Ran = RanOf(row, drained, k) /\ Ran' = RanOf(row, drained', k)
      BY <1>2, <1>4 DEF Ran, SincePreview, RanOf
    <2>5. PICK s \in Seq(Models) : /\ s = Ran /\ Len(s) = n - k
                                  /\ \A i \in 1..(n - k) : s[i] = row[drained[k + i]].model
      <3>1. k \in 0..Len(drained) /\ row \in [Jobs -> Row]
        BY <1>4 DEF BatchTypeOK
      <3>2. /\ RanOf(row, drained, k) \in Seq(Models) /\ Len(RanOf(row, drained, k)) = Len(drained) - k
            /\ \A i \in 1..(Len(drained) - k) : RanOf(row, drained, k)[i] = row[drained[k + i]].model
        BY <1>5, <3>1, RanIs
      <3> QED BY <1>4, <2>4, <3>2
    <2>6. PICK t \in Seq(Models) : /\ t = Ran' /\ Len(t) = (n + 1) - k
                                  /\ \A i \in 1..((n + 1) - k) : t[i] = row[(drained')[k + i]].model
      <3>1. PICK d \in Seq(Jobs) : d = drained' /\ Len(d) = n + 1 /\ k \in 0..Len(d)
        BY <1>5
      <3>2. /\ RanOf(row, d, k) \in Seq(Models) /\ Len(RanOf(row, d, k)) = Len(d) - k
            /\ \A i \in 1..(Len(d) - k) : RanOf(row, d, k)[i] = row[d[k + i]].model
        BY <3>1, RanIs DEF BatchTypeOK
      <3> QED BY <2>4, <3>1, <3>2
    <2>7. t = s \o <<m>>
      <3>1. /\ \A i \in 1..(n - k) : t[i] = s[i]
            /\ t[(n - k) + 1] = m
        <4>1. ASSUME NEW i \in 1..(n - k) PROVE t[i] = s[i]
          <5>1. i \in 1..((n + 1) - k) /\ k + i \in 1..n
            BY <1>4
          <5>2. (drained')[k + i] = drained[k + i]
            BY <1>1, <1>3, <1>4, <1>5, <5>1
          <5> QED BY <2>5, <2>6, <5>1, <5>2
        <4>2. (n - k) + 1 \in 1..((n + 1) - k) /\ k + ((n - k) + 1) = n + 1
          BY <1>4
        <4>3. (drained')[n + 1] = x
          BY <1>1, <1>3, <1>4, <1>5
        <4> QED BY <2>2, <2>6, <4>1, <4>2, <4>3
      <3>2. /\ s \o <<m>> \in Seq(Models) /\ Len(s \o <<m>>) = (n - k) + 1
            /\ \A i \in 1..(n - k) : (s \o <<m>>)[i] = s[i]
            /\ (s \o <<m>>)[(n - k) + 1] = m
        <4>1. PICK l \in Nat : l = n - k /\ l = Len(s)
          BY <1>4, <2>5
        <4>2. /\ s \o <<m>> \in Seq(Models) /\ Len(s \o <<m>>) = l + 1
              /\ \A i \in 1..l : (s \o <<m>>)[i] = s[i]
              /\ (s \o <<m>>)[l + 1] = m
          BY ONLY <4>1, s \in Seq(Models), m \in Models, l \in Nat
        <4> QED BY <4>1, <4>2
      <3>3. PICK l \in Nat : l = n - k /\ (n + 1) - k = l + 1
        BY <1>4
      <3>4. PICK w \in Seq(Models) : w = s \o <<m>>
        BY <3>2
      <3>5. Len(t) = l + 1 /\ Len(w) = l + 1 /\ \A i \in 1..(l + 1) : t[i] = w[i]
        <4>1. \A i \in 1..(l + 1) : i \in 1..l \/ i = l + 1
          BY <3>3
        <4> QED BY <2>6, <3>1, <3>2, <3>3, <3>4, <4>1
      <3> QED BY <3>4, <3>5
    <2>8. PICK q \in Seq(Models) : q = ToRun'
      <3>1. PICK S, r : S = waiting \ {x} /\ r = row[x].model
        OBVIOUS
      <3>2. ToRun' = Unrolled(PlanQueue(S, r).steps)
        BY <1>1, <1>2, <1>9, <3>1, ToRunStays
      <3>3. S \in SUBSET Jobs /\ r \in Residents
        BY <2>2, <3>1 DEF BatchTypeOK, Residents
      <3>4. PlanQueue(S, r).steps \in Seq(StepRecord)
        BY <3>3, PlanNext DEF PlanRecord, BatchTypeOK
      <3> QED BY <3>2, <3>4, UnrolledAll
    <2>9. s \o (<<m>> \o q) = (s \o <<m>>) \o q
      <3>0. <<m>> \in Seq(Models)
        OBVIOUS
      <3>1. PICK one \in Seq(Models) : one = <<m>>
        BY ONLY <3>0
      <3>2. (s \o one) \o q = s \o (one \o q)
        BY ONLY ConcatAssociative, s \in Seq(Models), one \in Seq(Models), q \in Seq(Models)
      <3> QED BY <3>1, <3>2
    <2>10. Unrolled(preview'.steps) = Ran' \o ToRun'
      BY <1>2, <1>8, <2>3, <2>5, <2>6, <2>7, <2>8, <2>9 DEF PlanHolds
    <2>11. preview'.swaps = preview'.swapped + Pending' + SwapsToCome'
      <3>1. PICK S, r : S = waiting \ {x} /\ r = row[x].model
        OBVIOUS
      <3>2. SwapsToCome' = PlanQueue(S, r).swaps
        BY <1>1, <1>2, <1>9, <3>1, ToRunStays
      <3>3. SwapsToCome = SwapsToCome' + (IF IsSwap(resident, row[x].model) THEN 1 ELSE 0)
        BY <1>3, <1>9, <2>1, <3>1, <3>2, ToRunIs
      <3>4. Pending' = (IF IsSwap(resident, row[x].model) THEN 1 ELSE 0) /\ Pending = 0
        BY <1>2, <1>9 DEF Pending, IsSwap
      <3>5. SwapsToCome' \in Nat
        <4>1. S \in SUBSET Jobs /\ r \in Residents
          BY <2>2, <3>1 DEF BatchTypeOK, Residents
        <4> QED BY <3>2, <4>1, PlanNext DEF PlanRecord, BatchTypeOK
      <3>6. preview.swaps = preview.swapped + Pending + SwapsToCome /\ preview.swapped \in Nat
        BY <1>8 DEF PlanHolds, PreviewRecord
      <3>7. PICK c \in {0, 1} : c = (IF IsSwap(resident, row[x].model) THEN 1 ELSE 0)
        OBVIOUS
      <3> QED BY <1>2, <3>3, <3>4, <3>5, <3>6, <3>7
    <2> QED BY <1>6, <2>10, <2>11 DEF PlanHolds
  <1> QED BY <1>7, <1>8

\* What a job that was picked does until it ends leaves the rest of the plan as it is; its
\* swap is counted when it is made.
LEMMA PlanStays ==
  ASSUME BatchTypeOK, BatchTypeOK', PlanHolds, BeginEnsure \/ UnloadForSwap \/ BecomeResident \/ FinishRun
  PROVE  PlanHolds'
  <1>1. UNCHANGED <<row, waiting, drained>> /\ phase # "idle" /\ Needed \in Models
    BY UpcomingIs DEF BeginEnsure, UnloadForSwap, BecomeResident, FinishRun
  <1>2. /\ preview' \in PreviewRecord /\ preview'.exact = preview.exact /\ preview'.from = preview.from
        /\ preview'.steps = preview.steps /\ preview'.swaps = preview.swaps
    BY DEF BeginEnsure, UnloadForSwap, BecomeResident, FinishRun, PlanHolds, PreviewRecord
  <1> SUFFICES ASSUME preview.exact PROVE PlanHolds'
    BY <1>2 DEF PlanHolds
  <1>3. /\ preview.from <= Len(drained) /\ preview.swaps \in Nat /\ preview.swapped \in Nat
        /\ phase = "generating" => resident = Needed
        /\ resident # Needed => preview.from < Len(drained)
        /\ DistinctStamps => /\ Unrolled(preview.steps) = Ran \o ToRun
                             /\ preview.swaps = preview.swapped + Pending + SwapsToCome
    BY <1>1 DEF PlanHolds, PreviewRecord
  <1>4. Upcoming' = Upcoming /\ (phase' # "idle" => Needed' = Needed)
    <2>1. CASE FinishRun
      BY <1>3, <2>1 DEF FinishRun, Upcoming
    <2>2. CASE BeginEnsure \/ UnloadForSwap \/ BecomeResident
      BY <1>1, <2>2 DEF BeginEnsure, UnloadForSwap, BecomeResident, Upcoming, Needed
    <2> QED BY <2>1, <2>2
  <1>5. ToRun' = ToRun /\ SwapsToCome' = SwapsToCome
    <2>1. PICK S, m : S = waiting /\ m = Upcoming
      OBVIOUS
    <2> QED BY <1>1, <1>4, <2>1, ToRunStays DEF ToRun, SwapsToCome
  <1>6. Ran' = Ran
    BY <1>1, <1>2 DEF Ran, SincePreview
  <1>7. preview'.swapped + Pending' = preview.swapped + Pending
    <2>1. CASE UnloadForSwap
      <3>1. resident # Needed /\ resident # NoModel
        BY <2>1 DEF UnloadForSwap, IsSwap
      <3>2. preview # NoPreview
        BY DEF NoPreview
      <3>3. preview'.swapped = preview.swapped + 1
        BY <1>3, <2>1, <3>1, <3>2 DEF UnloadForSwap, PlanHolds, PreviewRecord
      <3>4. Pending = 1
        BY <1>1, <3>1 DEF Pending, IsSwap
      <3>5. Pending' = 0
        BY <2>1 DEF UnloadForSwap, Pending, IsSwap
      <3> QED BY <1>3, <3>3, <3>4, <3>5
    <2>2. CASE BeginEnsure
      BY <1>1, <1>4, <2>2 DEF BeginEnsure, Pending
    <2>3. CASE BecomeResident
      <3>1. Pending = 0 /\ Pending' = 0
        BY <1>1, <1>4, <2>3 DEF BecomeResident, Pending, IsSwap
      <3> QED BY <2>3, <3>1 DEF BecomeResident
    <2>4. CASE FinishRun
      <3>1. Pending = 0 /\ Pending' = 0
        BY <1>3, <2>4 DEF FinishRun, Pending, IsSwap
      <3> QED BY <2>4, <3>1 DEF FinishRun
    <2> QED BY <2>1, <2>2, <2>3, <2>4
  <1>8. /\ phase' = "generating" => resident' = Needed'
        /\ phase' # "idle" /\ resident' # Needed' => preview'.from < Len(drained')
    <2>1. CASE BeginEnsure
      BY <1>1, <1>2, <1>3, <1>4, <2>1 DEF BeginEnsure
    <2>2. CASE UnloadForSwap
      BY <1>1, <1>2, <1>3, <1>4, <2>2 DEF UnloadForSwap, IsSwap
    <2>3. CASE BecomeResident
      BY <1>4, <2>3 DEF BecomeResident
    <2>4. CASE FinishRun
      BY <2>4 DEF FinishRun
    <2> QED BY <2>1, <2>2, <2>3, <2>4
  <1>9. DistinctStamps' => /\ Unrolled(preview'.steps) = Ran' \o ToRun'
                           /\ preview'.swaps = preview'.swapped + Pending' + SwapsToCome'
    BY <1>2, <1>3, <1>5, <1>6, <1>7 DEF DistinctStamps
  <1> QED BY <1>1, <1>2, <1>3, <1>8, <1>9 DEF PlanHolds

\* What is followed is a beginning of what was planned, and all of it at the end.
LEMMA PlanIsKept ==
  ASSUME BatchTypeOK, IsFiniteSet(Jobs), PlanHolds
  PROVE  PlanIsFollowed
  <1> SUFFICES ASSUME preview.exact, DistinctStamps
               PROVE  /\ IsPrefix(Ran, PlannedModels) /\ (waiting = {} => Ran = PlannedModels)
                      /\ waiting = {} /\ phase = "idle" => preview.swapped = preview.swaps
    BY DEF PlanIsFollowed, IsFollowed, Ran
  <1>1. PlannedModels = Unrolled(preview.steps)
    BY DEF PlannedModels, Unrolled
  <1>2. PICK s \in Seq(Models) : s = Ran
    <2>1. Ran = RanOf(row, drained, preview.from)
      BY DEF Ran, SincePreview, RanOf
    <2>2. preview.from \in 0..Len(drained)
      BY DEF PlanHolds, PreviewRecord, BatchTypeOK
    <2> QED BY <2>1, <2>2, RanIs DEF BatchTypeOK
  <1>3. PICK q \in Seq(Models) : q = ToRun /\ (waiting = {} => q = <<>> /\ SwapsToCome = 0)
    BY UpcomingIs, ToRunIs
  <1>4. PlannedModels = s \o q
    BY <1>1, <1>2, <1>3 DEF PlanHolds
  <1>5. IsPrefix(s, s \o q)
    <2>1. PICK l \in Nat : l = Len(s)
      OBVIOUS
    <2>2. /\ s \o q \in Seq(Models) /\ Len(s \o q) = l + Len(q)
          /\ \A i \in 1..l : (s \o q)[i] = s[i]
      BY <2>1
    <2>3. PICK w : w = s \o q
      OBVIOUS
    <2>4. w \in Seq(Models) /\ \A i \in 1..l : w[i] = s[i]
      BY <2>2, <2>3
    <2>5. l <= Len(w)
      <3>1. Len(q) \in Nat /\ Len(w) = l + Len(q)
        BY <2>2, <2>3
      <3> QED BY <3>1
    <2>6. SubSeq(w, 1, l) = SubSeq(s, 1, l)
      <3>1. SubSeq(w, 1, l) = [i \in 1..l |-> w[i]] /\ SubSeq(s, 1, l) = [i \in 1..l |-> s[i]]
        BY <2>1, <2>4, <2>5
      <3> QED BY <2>4, <3>1
    <2> QED BY <2>1, <2>3, <2>5, <2>6 DEF IsPrefix
  <1>6. waiting = {} /\ phase = "idle" => preview.swapped = preview.swaps
    <2>1. phase = "idle" => Pending = 0
      BY DEF Pending
    <2> QED BY <1>3, <2>1 DEF PlanHolds, PreviewRecord
  <1> QED BY <1>2, <1>3, <1>4, <1>5, <1>6

\* As long as nothing changes the queue from outside and every load succeeds, the worker
\* runs what GET /plan has announced, in that order, all of it, and at the announced number
\* of swaps: for every finite queue, and every preview that the LIMIT left whole and that
\* was not taken in the middle of a swap.
THEOREM PlanStaysFollowed == IsFiniteSet(Jobs) => (Spec => []PlanIsFollowed)
  <1> SUFFICES ASSUME IsFiniteSet(Jobs) PROVE Spec => []PlanIsFollowed
    OBVIOUS
  <1>1. Spec => []BatchTypeOK
    <2>1. BatchesAreOrdered => BatchTypeOK
      BY DEF BatchesAreOrdered
    <2> QED BY <2>1, BatchesStayOrdered, PTL
  <1>2. NoPreview \in PreviewRecord /\ ~NoPreview.exact
    BY DEF NoPreview, PreviewRecord
  <1>3. Init => PlanHolds
    BY <1>2 DEF Init, PlanHolds
  <1>4. BatchTypeOK /\ BatchTypeOK' /\ PlanHolds /\ [Next]_vars => PlanHolds'
    <2> SUFFICES ASSUME BatchTypeOK, BatchTypeOK', PlanHolds, [Next]_vars PROVE PlanHolds'
      OBVIOUS
    <2>1. CASE preview' = NoPreview
      BY <1>2, <2>1 DEF PlanHolds
    <2>2. CASE UNCHANGED vars
      <3>1. Upcoming' = Upcoming /\ Pending' = Pending /\ Needed' = Needed
        BY <2>2 DEF vars, Upcoming, Pending, Needed
      <3>2. ToRun' = ToRun /\ SwapsToCome' = SwapsToCome
        <4>1. PICK S, m : S = waiting /\ m = Upcoming
          OBVIOUS
        <4> QED BY <2>2, <3>1, <4>1, ToRunStays DEF vars, ToRun, SwapsToCome
      <3>3. Ran' = Ran
        BY <2>2 DEF vars, Ran, SincePreview
      <3> QED BY <2>2, <3>1, <3>2, <3>3 DEF vars, PlanHolds, DistinctStamps
    <2>3. CASE QueuePlan
      BY <2>3, PlanBegins
    <2>4. CASE PickNext
      BY <2>4, PlanGoesOn
    <2>5. CASE BeginEnsure \/ UnloadForSwap \/ BecomeResident \/ FinishRun
      BY <2>5, PlanStays
    <2>6. CASE \/ \E j \in Jobs : CreateJob(j) \/ CancelQueued(j)
               \/ \E j \in Jobs, p \in Priorities : SetPriority(j, p)
               \/ Requeue \/ FailRun \/ FreeGpu
      <3>1. preview' = NoPreview
        BY <2>6 DEF CreateJob, CancelQueued, SetPriority, Requeue, FailRun, FreeGpu, StartOver
      <3> QED BY <2>1, <3>1
    <2>7. Next \/ UNCHANGED vars
      OBVIOUS
    <2> QED BY <2>2, <2>3, <2>4, <2>5, <2>6, <2>7 DEF Next
  <1>5. BatchTypeOK /\ PlanHolds => PlanIsFollowed
    BY PlanIsKept
  <1> QED BY <1>1, <1>3, <1>4, <1>5, PTL DEF Spec

------------------------------------------------------------------------------
(* Memory: what is promised is kept while the estimates stand, and what is    *)
(* measured is never forgotten                                                *)

SwapRecord == [stage : {"idle", "guard", "loading"}, to : Weights \union {NoWeights}]
ProfileRecord == [stage : {"idle", "measured", "read", "committed"}, of : Weights \union {NoWeights},
                  base : Nat, ram : Nat]

ResidencyShapes ==
  /\ onGpu \in Weights \union {NoWeights} /\ pool \in Seq(Weights) /\ others \in Nat
  /\ swap \in SwapRecord /\ promised \in {"none", "load", "resume"} /\ wasted \subseteq {"load", "resume"}

LearningShapes ==
  /\ profile \in ProfileRecord /\ reset \subseteq Weights /\ resetFailed \in BOOLEAN
  /\ profileRows \in [Weights -> Nat] /\ learned \in [Weights -> Nat] /\ largest \in [Weights -> Nat]

\* The warm pool is of models that can be parked, without the resident and without repetition.
PoolIsWarm ==
  /\ ToSet(pool) \subseteq Parkable \ {onGpu} /\ IsInjective(pool) /\ Len(pool) <= MaxWarm

\* A swap has unloaded the resident; a profile is recorded after its swap.
SwapThenProfile ==
  /\ swap.stage # "idle" => swap.to \in Weights /\ onGpu = NoWeights /\ profile = NoProfile
  /\ profile.stage # "idle" => profile.of \in Weights

\* A promise is of the swap that is at its guard, and holds.
PromiseHolds ==
  /\ promised # "none" => swap.stage = "guard"
  /\ promised = "load" /\ MinFree <= KeepWarmMin => WithinBudget(swap.to)

\* What a record read is still in the row, unless the row is gone.
BaseIsRow == profile.stage = "read" => profileRows[profile.of] \in {profile.base, 0}

\* What a record has committed, it or the cache knows, unless a reset has come.
CommittedIsKnown ==
  profile.stage = "committed" =>
    \/ learned[profile.of] >= profileRows[profile.of] \/ profile.ram >= profileRows[profile.of]
    \/ resetFailed \/ profile.of \in reset

\* The pool without the next victim of the guard.
NextOut(s, e) == IF ToSet(s) = {e} THEN <<>> ELSE RemoveFirstMatch(s, LAMBDA b : b # e)

MemoryInv ==
  /\ ResidencyShapes /\ LearningShapes /\ PoolIsWarm /\ SwapThenProfile /\ PromiseHolds
  /\ BaseIsRow /\ CommittedIsKnown
  /\ ParkingLeavesRoom /\ LearnedIsLargest

\* Where the elements of a list of n are in r, without the one at i.
Without(s, n, i, r) ==
  Len(r) = n - 1 /\ \A j \in 1..(n - 1) : r[j] = IF j < i THEN s[j] ELSE s[j + 1]

\* Taking one element out of a list leaves the others at their places, or one before.
LEMMA OneOutSlots ==
  ASSUME NEW S, NEW s \in Seq(S), NEW n \in Nat, n = Len(s), NEW i \in 1..n
  PROVE  RemoveAt(s, i) \in Seq(S) /\ Without(s, n, i, RemoveAt(s, i))
  <1> DEFINE a == SubSeq(s, 1, i - 1)
             b == SubSeq(s, i + 1, n)
  <1>0. \A j \in 1..n : s[j] \in S
    OBVIOUS
  <1>1. a \in Seq(S) /\ Len(a) = i - 1 /\ \A j \in 1..(i - 1) : a[j] = s[j]
    <2>1. 1 \in Int /\ i - 1 \in Int /\ \A j \in 1..(i - 1) : s[j] \in S
      BY <1>0
    <2>2. /\ a \in Seq(S)
          /\ Len(a) = IF 1 <= i - 1 THEN (i - 1) - 1 + 1 ELSE 0
          /\ \A j \in 1..((i - 1) - 1 + 1) : a[j] = s[1 + j - 1]
      BY <2>1, SubSeqProperties
    <2> HIDE DEF a
    <2>3. \A j \in 1..(i - 1) : j \in 1..((i - 1) - 1 + 1) /\ 1 + j - 1 = j
      OBVIOUS
    <2>4. \A j \in 1..(i - 1) : a[j] = s[j]
      BY <2>2, <2>3
    <2>5. Len(a) = i - 1
      BY <2>2
    <2> QED BY <2>2, <2>4, <2>5
  <1>2. b \in Seq(S) /\ Len(b) = n - i /\ \A j \in 1..(n - i) : b[j] = s[i + j]
    <2>1. i + 1 \in Int /\ n \in Int /\ \A j \in (i + 1)..n : s[j] \in S
      BY <1>0
    <2>2. /\ b \in Seq(S)
          /\ Len(b) = IF i + 1 <= n THEN n - (i + 1) + 1 ELSE 0
          /\ \A j \in 1..(n - (i + 1) + 1) : b[j] = s[(i + 1) + j - 1]
      BY <2>1, SubSeqProperties
    <2> HIDE DEF b
    <2>3. \A j \in 1..(n - i) : j \in 1..(n - (i + 1) + 1) /\ (i + 1) + j - 1 = i + j
      OBVIOUS
    <2>4. \A j \in 1..(n - i) : b[j] = s[i + j]
      BY <2>2, <2>3
    <2>5. Len(b) = n - i
      BY <2>2
    <2> QED BY <2>2, <2>4, <2>5
  <1>3. RemoveAt(s, i) = a \o b
    BY DEF RemoveAt
  <1> HIDE DEF a, b
  <1>4. /\ a \o b \in Seq(S) /\ Len(a \o b) = Len(a) + Len(b)
        /\ \A j \in 1..(Len(a) + Len(b)) : (a \o b)[j] = IF j <= Len(a) THEN a[j] ELSE b[j - Len(a)]
    BY <1>1, <1>2, ConcatProperties
  <1>5. ASSUME NEW j \in 1..(n - 1) PROVE (a \o b)[j] = IF j < i THEN s[j] ELSE s[j + 1]
    <2>1. (a \o b)[j] = IF j <= i - 1 THEN a[j] ELSE b[j - (i - 1)]
      BY <1>1, <1>2, <1>4
    <2>2. CASE j < i
      BY <1>1, <2>1, <2>2
    <2>3. CASE ~(j < i)
      <3>1. j - (i - 1) \in 1..(n - i) /\ i + (j - (i - 1)) = j + 1
        BY <2>3
      <3> QED BY <1>2, <2>1, <2>3, <3>1
    <2> QED BY <2>2, <2>3
  <1> QED BY <1>1, <1>2, <1>3, <1>4, <1>5 DEF Without

\* Taking one position out of a list leaves the others, once each.
LEMMA OneOut ==
  ASSUME NEW S, NEW s \in Seq(S), NEW i \in 1..Len(s), IsInjective(s)
  PROVE  /\ RemoveAt(s, i) \in Seq(S) /\ Len(RemoveAt(s, i)) = Len(s) - 1
         /\ ToSet(RemoveAt(s, i)) = ToSet(s) \ {s[i]} /\ IsInjective(RemoveAt(s, i))
  <1>0. PICK n \in Nat : n = Len(s)
    OBVIOUS
  <1>1. PICK r : r = RemoveAt(s, i)
    OBVIOUS
  <1>2. /\ r \in Seq(S) /\ Len(r) = n - 1
        /\ \A j \in 1..(n - 1) : r[j] = IF j < i THEN s[j] ELSE s[j + 1]
    <2>1. i \in 1..n
      BY <1>0
    <2>2. RemoveAt(s, i) \in Seq(S) /\ Without(s, n, i, RemoveAt(s, i))
      BY <1>0, <2>1, OneOutSlots
    <2> QED BY <1>1, <2>2 DEF Without
  <1>3. i \in 1..n /\ DOMAIN s = 1..n /\ DOMAIN r = 1..(n - 1)
    BY <1>0, <1>2
  <1>4. \A j, k \in 1..n : s[j] = s[k] => j = k
    BY <1>0, <1>3 DEF IsInjective
  <1>5. ASSUME NEW j \in 1..(n - 1) PROVE \E k \in 1..n : r[j] = s[k] /\ k # i /\ (j < i => k = j) /\ (~(j < i) => k = j + 1)
    <2>1. CASE j < i
      BY <1>2, <1>3, <2>1
    <2>2. CASE ~(j < i)
      <3>1. j + 1 \in 1..n /\ r[j] = s[j + 1] /\ j + 1 # i
        BY <1>2, <1>3, <2>2
      <3> QED BY <2>2, <3>1
    <2> QED BY <2>1, <2>2
  <1>6. ASSUME NEW k \in 1..n, k # i PROVE \E j \in 1..(n - 1) : r[j] = s[k]
    <2>1. CASE k < i
      <3>1. k \in 1..(n - 1) /\ r[k] = s[k]
        BY <1>2, <1>3, <2>1
      <3> QED BY <3>1
    <2>2. CASE k > i
      <3>1. k - 1 \in 1..(n - 1) /\ ~(k - 1 < i) /\ (k - 1) + 1 = k
        BY <1>3, <2>2
      <3>2. r[k - 1] = s[k]
        BY <1>2, <3>1
      <3> QED BY <3>1, <3>2
    <2> QED BY <1>3, <1>6, <2>1, <2>2
  <1>7. ToSet(r) = ToSet(s) \ {s[i]}
    <2>1. ASSUME NEW e \in ToSet(r) PROVE e \in ToSet(s) \ {s[i]}
      <3>1. PICK j \in 1..(n - 1) : e = r[j]
        BY <1>3 DEF ToSet
      <3>2. PICK k \in 1..n : e = s[k] /\ k # i
        BY <1>5, <3>1
      <3> QED BY <1>3, <1>4, <3>2 DEF ToSet
    <2>2. ASSUME NEW e \in ToSet(s), e # s[i] PROVE e \in ToSet(r)
      <3>1. PICK k \in 1..n : e = s[k]
        BY <1>3 DEF ToSet
      <3>2. PICK j \in 1..(n - 1) : r[j] = e
        BY <1>6, <2>2, <3>1
      <3> QED BY <1>3, <3>2 DEF ToSet
    <2> QED BY <2>1, <2>2
  <1>8. ASSUME NEW j \in 1..(n - 1), NEW k \in 1..(n - 1), r[j] = r[k] PROVE j = k
    <2>1. PICK v \in 1..n : r[j] = s[v] /\ v # i /\ (j < i => v = j) /\ (~(j < i) => v = j + 1)
      BY <1>5
    <2>2. PICK w \in 1..n : r[k] = s[w] /\ w # i /\ (k < i => w = k) /\ (~(k < i) => w = k + 1)
      BY <1>5
    <2>3. v = w
      BY <1>4, <1>8, <2>1, <2>2
    <2> QED BY <1>3, <2>1, <2>2, <2>3
  <1>9. IsInjective(r)
    BY <1>3, <1>8 DEF IsInjective
  <1> QED BY <1>0, <1>1, <1>2, <1>7, <1>9

\* A new element at the end of a list without repetition.
LEMMA OneIn ==
  ASSUME NEW S, NEW s \in Seq(S), NEW e \in S, e \notin ToSet(s), IsInjective(s)
  PROVE  /\ Append(s, e) \in Seq(S) /\ Len(Append(s, e)) = Len(s) + 1
         /\ ToSet(Append(s, e)) = ToSet(s) \union {e} /\ IsInjective(Append(s, e))
  <1> DEFINE n == Len(s)
             r == Append(s, e)
  <1>1. /\ r \in Seq(S) /\ Len(r) = n + 1 /\ n \in Nat /\ r[n + 1] = e
        /\ \A j \in 1..n : r[j] = s[j]
        /\ DOMAIN s = 1..n /\ DOMAIN r = 1..(n + 1)
    OBVIOUS
  <1>2. \A j, k \in 1..n : s[j] = s[k] => j = k
    BY <1>1 DEF IsInjective
  <1>3. \A j \in 1..n : s[j] # e
    BY <1>1 DEF ToSet
  <1> HIDE DEF r, n
  <1>4. ToSet(r) = ToSet(s) \union {e}
    BY <1>1 DEF ToSet
  <1>5. \A j, k \in 1..(n + 1) : r[j] = r[k] => j = k
    <2>1. ASSUME NEW j \in 1..(n + 1), NEW k \in 1..(n + 1), r[j] = r[k] PROVE j = k
      BY <1>1, <1>2, <1>3, <2>1
    <2> QED BY <2>1
  <1> QED BY <1>1, <1>4, <1>5 DEF IsInjective, r, n

\* What leaves the warm pool is one of it.
LEMMA FirstOut ==
  ASSUME NEW S, NEW s \in Seq(S), NEW e, IsInjective(s), e \in ToSet(s)
  PROVE  /\ RemoveFirst(s, e) \in Seq(S) /\ Len(RemoveFirst(s, e)) <= Len(s)
         /\ ToSet(RemoveFirst(s, e)) = ToSet(s) \ {e} /\ IsInjective(RemoveFirst(s, e))
  <1> DEFINE I == {i \in 1..Len(s) : s[i] = e}
  <1>1. I \subseteq Nat /\ I # {}
    BY DEF ToSet
  <1>2. PICK x \in I : \A y \in I : x <= y
    <2> HIDE DEF I
    <2> QED BY <1>1, LeastNumber
  <1>3. Min(I) \in I
    <2> HIDE DEF I
    <2> QED BY <1>2 DEF Min
  <1>4. RemoveFirst(s, e) = RemoveAt(s, Min(I))
    BY <1>1 DEF RemoveFirst, SelectInSeq
  <1>5. Min(I) \in 1..Len(s) /\ s[Min(I)] = e
    BY <1>3
  <1>6. PICK i \in 1..Len(s) : i = Min(I)
    BY <1>5
  <1> HIDE DEF I
  <1> QED BY <1>4, <1>5, <1>6, OneOut

\* What a swap evicts is one of the warm pool.
LEMMA VictimOut ==
  ASSUME NEW S, NEW s \in Seq(S), NEW e, IsInjective(s), s # <<>>,
         NEW r, r = NextOut(s, e)
  PROVE  r \in Seq(S) /\ Len(r) <= Len(s) /\ ToSet(r) \subseteq ToSet(s) /\ IsInjective(r)
  <1>1. CASE ToSet(s) = {e}
    BY <1>1 DEF NextOut, ToSet, IsInjective
  <1>2. CASE ToSet(s) # {e}
    <2> DEFINE I == {i \in 1..Len(s) : s[i] # e}
    <2>0. Len(s) \in Nat /\ 1 \in 1..Len(s) /\ DOMAIN s = 1..Len(s)
      OBVIOUS
    <2>1. I \subseteq Nat /\ I # {}
      BY <1>2, <2>0 DEF ToSet
    <2>2. PICK x \in I : \A y \in I : x <= y
      <3> HIDE DEF I
      <3> QED BY <2>1, LeastNumber
    <2>3. Min(I) \in I
      <3> HIDE DEF I
      <3> QED BY <2>2 DEF Min
    <2>4. \E i \in 1..Len(s) : s[i] # e
      BY <2>1
    <2>5. r = RemoveAt(s, Min(I))
      BY <1>2, <2>1, <2>4 DEF NextOut, RemoveFirstMatch, SelectInSeq
    <2>6. PICK i \in 1..Len(s) : i = Min(I)
      BY <2>3
    <2> HIDE DEF I
    <2>7. /\ RemoveAt(s, i) \in Seq(S) /\ Len(RemoveAt(s, i)) = Len(s) - 1
          /\ ToSet(RemoveAt(s, i)) = ToSet(s) \ {s[i]} /\ IsInjective(RemoveAt(s, i))
      BY OneOut
    <2>8. r = RemoveAt(s, i)
      BY <2>5, <2>6
    <2>9. Len(s) - 1 <= Len(s)
      BY <2>0
    <2> HIDE DEF I
    <2> QED BY ONLY <2>7, <2>8, <2>9
  <1> QED BY <1>1, <1>2

\* The sum of WarmRam has a value after each element of the list.
Sums(ms, f) ==
  /\ f \in [0..Len(ms) -> Nat] /\ f[0] = 0
  /\ \A n \in 1..Len(ms) : f[n] = f[n - 1] + Parked[ms[n]]

\* The recursive sum over a list has a solution of naturals.
LEMMA SumsExist ==
  ASSUME NEW ms \in Seq(Weights)
  PROVE  \E f : Sums(ms, f) /\ WarmRam(ms) = f[Len(ms)]
  <1> DEFINE rhs(f, n) == IF n = 0 THEN 0 ELSE f[n - 1] + Parked[ms[n]]
             S == {n \in 0..Len(ms) : \E f \in [0..n -> Nat] : \A i \in 0..n : f[i] = rhs(f, i)}
  <1>0. Len(ms) \in Nat /\ \A n \in 1..Len(ms) : ms[n] \in Weights /\ Parked[ms[n]] \in Nat
    BY MemoryAssumption
  <1>1. 0 \in S
    <2>1. [i \in 0..0 |-> 0] \in [0..0 -> Nat] /\ \A i \in 0..0 : [k \in 0..0 |-> 0][i] = rhs([k \in 0..0 |-> 0], i)
      OBVIOUS
    <2> HIDE DEF rhs
    <2>2. \E f \in [0..0 -> Nat] : \A i \in 0..0 : f[i] = rhs(f, i)
      BY <2>1
    <2> QED BY <1>0, <2>2
  <1>2. ASSUME NEW n \in 1..Len(ms), n - 1 \in S PROVE n \in S
    <2>0. n \in 0..Len(ms) /\ n - 1 \in 0..(n - 1)
      BY <1>0
    <2>1. PICK f \in [0..(n - 1) -> Nat] : \A i \in 0..(n - 1) : f[i] = rhs(f, i)
      BY <1>2
    <2> DEFINE g == [i \in 0..n |-> IF i = n THEN f[n - 1] + Parked[ms[n]] ELSE f[i]]
    <2>2. g \in [0..n -> Nat]
      <3>1. f[n - 1] + Parked[ms[n]] \in Nat
        BY <1>0, <2>0
      <3>2. \A i \in 0..n : i # n => i \in 0..(n - 1)
        BY <1>0
      <3> QED BY <3>1, <3>2
    <2>3. ASSUME NEW i \in 0..n PROVE g[i] = rhs(g, i)
      <3>1. CASE i = n
        <4>1. i # 0 /\ i - 1 \in 0..n /\ i - 1 # n
          BY <1>0, <3>1
        <4>2. g[i - 1] = f[n - 1] /\ g[i] = f[n - 1] + Parked[ms[n]]
          BY <3>1, <4>1
        <4> HIDE DEF g
        <4> QED BY <3>1, <4>1, <4>2
      <3>2. CASE i # n
        <4>1. i \in 0..(n - 1)
          BY <1>0, <3>2
        <4>2. g[i] = f[i]
          BY <3>2
        <4>3. i # 0 => i - 1 \in 0..n /\ i - 1 # n /\ g[i - 1] = f[i - 1]
          BY <1>0, <3>2
        <4>4. f[i] = rhs(f, i)
          BY <2>1, <4>1
        <4> HIDE DEF g
        <4> QED BY <4>2, <4>3, <4>4
      <3> QED BY <3>1, <3>2
    <2> HIDE DEF g, rhs
    <2> QED BY <2>0, <2>2, <2>3
  <1>3. Len(ms) \in S
    <2> HIDE DEF S
    <2>1. \A n \in 0..Len(ms) : n \in S
      BY <1>0, <1>1, <1>2, UpTo
    <2> QED BY <1>0, <2>1
  <1>4. PICK f \in [0..Len(ms) -> Nat] : \A i \in 0..Len(ms) : f[i] = rhs(f, i)
    BY <1>3
  <1>5. f = [n \in 0..Len(ms) |-> rhs(f, n)]
    <2> HIDE DEF rhs
    <2> QED BY <1>4
  <1> DEFINE k == CHOOSE h : h = [n \in 0..Len(ms) |-> rhs(h, n)]
  <1>6. k = [n \in 0..Len(ms) |-> rhs(k, n)]
    <2> HIDE DEF rhs
    <2> QED BY <1>5
  <1>7. WarmRam(ms) = k[Len(ms)]
    BY DEF WarmRam
  <1> HIDE DEF k
  <1>8. DOMAIN k = 0..Len(ms) /\ \A n \in 0..Len(ms) : k[n] = rhs(k, n)
    <2> HIDE DEF rhs
    <2> QED BY <1>6
  <1>9. k[0] = 0 /\ \A n \in 1..Len(ms) : k[n] = k[n - 1] + Parked[ms[n]]
    BY <1>0, <1>8
  <1>10. \A n \in 0..Len(ms) : k[n] \in Nat
    <2> DEFINE U == {n \in 0..Len(ms) : k[n] \in Nat}
    <2>1. 0 \in U
      BY <1>0, <1>9
    <2>2. ASSUME NEW n \in 1..Len(ms), n - 1 \in U PROVE n \in U
      <3>1. k[n - 1] \in Nat /\ Parked[ms[n]] \in Nat /\ n \in 0..Len(ms)
        BY <1>0, <2>2
      <3>2. k[n] = k[n - 1] + Parked[ms[n]]
        BY <1>9
      <3> QED BY <3>1, <3>2
    <2> HIDE DEF U
    <2>3. \A n \in 0..Len(ms) : n \in U
      BY <1>0, <2>1, <2>2, UpTo
    <2> QED BY <2>3 DEF U
  <1>11. k \in [0..Len(ms) -> Nat]
    BY <1>6, <1>8, <1>10
  <1> QED BY <1>7, <1>9, <1>11 DEF Sums

\* One more model in the pool takes its share.
LEMMA WarmRamGrows ==
  ASSUME NEW ms \in Seq(Weights), NEW m \in Weights
  PROVE  /\ WarmRam(ms) \in Nat /\ Parked[m] \in Nat
         /\ WarmRam(Append(ms, m)) = WarmRam(ms) + Parked[m]
  <1>0. PICK n \in Nat : n = Len(ms)
    OBVIOUS
  <1>1. PICK f : Sums(ms, f) /\ WarmRam(ms) = f[n]
    BY <1>0, SumsExist
  <1>2. PICK new \in Seq(Weights) : new = Append(ms, m) /\ Len(new) = n + 1 /\ new[n + 1] = m
                                     /\ \A i \in 1..n : new[i] = ms[i]
    <2>1. Append(ms, m) \in Seq(Weights) /\ Len(Append(ms, m)) = n + 1 /\ Append(ms, m)[n + 1] = m
          /\ \A i \in 1..n : Append(ms, m)[i] = ms[i]
      BY <1>0
    <2> QED BY ONLY <2>1
  <1>3. PICK g : Sums(new, g) /\ WarmRam(new) = g[n + 1]
    BY <1>2, SumsExist
  <1>4. /\ f \in [0..n -> Nat] /\ f[0] = 0 /\ \A i \in 1..n : f[i] = f[i - 1] + Parked[ms[i]]
        /\ g \in [0..(n + 1) -> Nat] /\ g[0] = 0 /\ \A i \in 1..(n + 1) : g[i] = g[i - 1] + Parked[new[i]]
    BY <1>0, <1>1, <1>2, <1>3 DEF Sums
  <1>5. g[n] = f[n]
    <2> DEFINE U == {i \in 0..n : g[i] = f[i]}
    <2>1. 0 \in U
      BY <1>4
    <2>2. ASSUME NEW i \in 1..n, i - 1 \in U PROVE i \in U
      <3>1. i \in 1..(n + 1) /\ i \in 0..n /\ g[i - 1] = f[i - 1] /\ new[i] = ms[i]
        BY <1>2, <2>2
      <3>2. g[i] = g[i - 1] + Parked[new[i]] /\ f[i] = f[i - 1] + Parked[ms[i]]
        BY <1>4, <3>1
      <3> QED BY <3>1, <3>2
    <2> HIDE DEF U
    <2>3. \A i \in 0..n : i \in U
      BY <2>1, <2>2, UpTo
    <2> QED BY <2>3 DEF U
  <1>6. n \in 0..n /\ n + 1 \in 1..(n + 1) /\ (n + 1) - 1 = n
    OBVIOUS
  <1>7. g[n + 1] = g[n] + Parked[m] /\ f[n] \in Nat
    BY <1>2, <1>4, <1>6
  <1> QED BY <1>1, <1>2, <1>3, <1>5, <1>7, MemoryAssumption

\* An empty pool takes nothing.
LEMMA WarmRamIsNat ==
  ASSUME NEW ms \in Seq(Weights)
  PROVE  WarmRam(ms) \in Nat
  <1>1. PICK f : Sums(ms, f) /\ WarmRam(ms) = f[Len(ms)]
    BY SumsExist
  <1>2. Len(ms) \in 0..Len(ms)
    OBVIOUS
  <1> QED BY <1>1, <1>2 DEF Sums

\* The estimates are numbers.
LEMMA EstimatesAreNumbers ==
  ASSUME MemoryInv, NEW m \in Weights
  PROVE  RamNeed(m) \in Nat /\ RamAvailable \in Int /\ Held[m] \in Nat /\ Parked[m] \in Nat
  <1>1. learned[m] \in Nat /\ Guess[m] \in Nat /\ Margin \in Nat /\ Ram \in Nat /\ others \in Nat
        /\ \A w \in Weights : Held[w] \in Nat /\ Parked[w] \in Nat
    BY MemoryAssumption DEF MemoryInv, ResidencyShapes, LearningShapes
  <1>2. WarmRam(pool) \in Nat /\ onGpu \in Weights \union {NoWeights}
    BY WarmRamIsNat DEF MemoryInv, ResidencyShapes
  <1>3. RamNeed(m) \in Nat
    BY <1>1 DEF RamNeed
  <1>4. RamAvailable \in Int
    BY <1>1, <1>2 DEF RamAvailable
  <1> QED BY <1>1, <1>3, <1>4

\* What is learned depends on nothing a swap does.
LEMMA LearningStays ==
  ASSUME MemoryInv, UNCHANGED learning
  PROVE  LearningShapes' /\ BaseIsRow' /\ CommittedIsKnown' /\ LearnedIsLargest'
  <1>1. UNCHANGED <<profileRows, learned, profile, reset, largest, resetFailed>>
    BY DEF learning
  <1> QED BY <1>1 DEF MemoryInv, LearningShapes, BaseIsRow, CommittedIsKnown, LearnedIsLargest

\* ... and the swaps on nothing of it, but for the estimates a promise was made with.
LEMMA ResidencyStays ==
  ASSUME MemoryInv, UNCHANGED residency, promised # "none" => UNCHANGED learned
  PROVE  ResidencyShapes' /\ PoolIsWarm' /\ PromiseHolds' /\ ParkingLeavesRoom'
  <1>1. UNCHANGED <<onGpu, pool, others, swap, promised, wasted>>
    BY DEF residency
  <1>2. ResidencyShapes' /\ PoolIsWarm' /\ ParkingLeavesRoom'
    BY <1>1 DEF MemoryInv, ResidencyShapes, PoolIsWarm, ParkingLeavesRoom
  <1>3. PromiseHolds'
    <2>1. CASE promised = "load"
      BY <1>1, <2>1 DEF MemoryInv, PromiseHolds, WithinBudget, RamAvailable, RamNeed
    <2>2. CASE promised # "load"
      BY <1>1, <2>2 DEF MemoryInv, PromiseHolds
    <2> QED BY <2>1, <2>2
  <1> QED BY <1>2, <1>3

LEMMA MemoryStart == MemoryInit => MemoryInv
  <1> SUFFICES ASSUME MemoryInit PROVE MemoryInv
    OBVIOUS
  <1>1. NoSwap \in SwapRecord /\ NoProfile \in ProfileRecord
    BY DEF NoSwap, NoProfile, SwapRecord, ProfileRecord
  <1>2. ResidencyShapes
    <2>1. pool = <<>> /\ <<>> \in Seq(Weights)
      BY DEF MemoryInit
    <2> QED BY <1>1, <2>1 DEF MemoryInit, ResidencyShapes
  <1>3. LearningShapes
    BY <1>1 DEF MemoryInit, LearningShapes, NoReset
  <1>4. PoolIsWarm
    BY MemoryAssumption DEF MemoryInit, PoolIsWarm, ToSet, IsInjective
  <1>5. SwapThenProfile /\ PromiseHolds /\ BaseIsRow /\ CommittedIsKnown /\ ParkingLeavesRoom /\ LearnedIsLargest
    BY <1>3 DEF MemoryInit, NoSwap, NoProfile, SwapThenProfile, PromiseHolds, BaseIsRow, CommittedIsKnown,
       ParkingLeavesRoom, LearnedIsLargest, LearningShapes
  <1> QED BY <1>2, <1>3, <1>4, <1>5 DEF MemoryInv

\* The arithmetic of a promise.
LEMMA RoomIsLeft ==
  ASSUME NEW total \in Nat, NEW o \in Nat, NEW warm \in Nat, NEW held \in Nat, NEW parked \in Nat,
         NEW need \in Nat, NEW incoming \in Nat, NEW floor \in Nat, NEW keep \in Nat,
         total - o - warm - held >= need + incoming + keep, parked - held <= need, floor <= keep
  PROVE  total - o - (warm + parked) - 0 >= incoming + floor
  <1>1. total - o - warm - held >= parked - held + incoming + floor
    OBVIOUS
  <1> QED BY <1>1

\* A park that promised leaves what the incoming model needs: the parked model takes no
\* more beyond what it held than it was estimated at.
LEMMA ParkLeavesRoom ==
  ASSUME MemoryInv, NEW m \in Weights, onGpu \in Weights, MayPark(onGpu, m), m \notin ToSet(pool),
         Parked[onGpu] - Held[onGpu] <= RamNeed(onGpu), MinFree <= KeepWarmMin,
         pool' = Append(pool, onGpu), onGpu' = NoWeights, UNCHANGED <<others, learned>>
  PROVE  RamAvailable' >= RamNeed(m)' + MinFree
  <1>1. RamNeed(m) \in Nat /\ RamNeed(onGpu) \in Nat /\ Held[onGpu] \in Nat /\ Parked[onGpu] \in Nat
    BY EstimatesAreNumbers
  <1>2. MinFree \in Nat /\ KeepWarmMin \in Nat /\ Ram \in Nat /\ others \in Nat /\ onGpu # NoWeights
    BY MemoryAssumption DEF MemoryInv, ResidencyShapes
  <1>3. RamAvailable = Ram - others - WarmRam(pool) - Held[onGpu]
    BY <1>2 DEF RamAvailable
  <1>4. WarmRam(pool)' = WarmRam(pool) + Parked[onGpu] /\ WarmRam(pool) \in Nat
    <2>1. WarmRam(Append(pool, onGpu)) = WarmRam(pool) + Parked[onGpu] /\ WarmRam(pool) \in Nat
      BY WarmRamGrows DEF MemoryInv, ResidencyShapes
    <2> QED BY <2>1
  <1>5. RamAvailable' = Ram - others - WarmRam(pool)' - 0
    BY DEF RamAvailable
  <1>6. RamNeed(m)' = RamNeed(m)
    BY DEF RamNeed
  <1>7. RamAvailable >= RamNeed(onGpu) + RamNeed(m) + KeepWarmMin
    BY DEF MayPark
  <1>8. PICK warm \in Nat : warm = WarmRam(pool)
    BY <1>4
  <1>9. PICK o \in Nat : o = others
    BY <1>2
  <1>10. PICK held \in Nat : held = Held[onGpu]
    BY <1>1
  <1>11. PICK parked \in Nat : parked = Parked[onGpu]
    BY <1>1
  <1>12. PICK need \in Nat : need = RamNeed(onGpu)
    BY <1>1
  <1>13. PICK incoming \in Nat : incoming = RamNeed(m)
    BY <1>1
  <1>14. Ram - o - warm - held >= need + incoming + KeepWarmMin
    BY <1>3, <1>7, <1>8, <1>9, <1>10, <1>12, <1>13
  <1>15. parked - held <= need
    BY <1>10, <1>11, <1>12
  <1>16. RamAvailable' = Ram - o - (warm + parked) - 0 /\ RamNeed(m)' = incoming
    BY <1>4, <1>5, <1>6, <1>8, <1>9, <1>11, <1>13
  <1>17. Ram - o - (warm + parked) - 0 >= incoming + MinFree
    BY <1>2, <1>14, <1>15, RoomIsLeft
  <1> QED BY <1>16, <1>17

\* The promise is made here: what is parked, and that the rest has room.
LEMMA BeginSwapKeeps ==
  ASSUME MemoryInv, NEW m \in Weights, BeginSwap(m)
  PROVE  MemoryInv'
  <1>0. /\ swap' = [stage |-> "guard", to |-> m] /\ onGpu' = NoWeights /\ profile = NoProfile
        /\ UNCHANGED <<others, wasted, learned, profile>> /\ UNCHANGED learning
    BY DEF BeginSwap, learning
  <1>1. LearningShapes' /\ BaseIsRow' /\ CommittedIsKnown' /\ LearnedIsLargest' /\ ParkingLeavesRoom'
    BY <1>0, LearningStays DEF MemoryInv, ParkingLeavesRoom
  <1>2. SwapThenProfile'
    BY <1>0 DEF SwapThenProfile, NoProfile
  <1>3. swap' \in SwapRecord /\ swap'.stage = "guard" /\ swap'.to = m
    BY <1>0 DEF SwapRecord
  <1>4. CASE onGpu # NoWeights /\ MayPark(onGpu, m)
    <2>1. pool' = Append(pool, onGpu) /\ onGpu \in Weights /\ onGpu \notin ToSet(pool) /\ IsInjective(pool)
          /\ pool \in Seq(Weights) /\ onGpu \in Parkable /\ Len(pool) < MaxWarm
      BY <1>4 DEF BeginSwap, MemoryInv, ResidencyShapes, PoolIsWarm, MayPark
    <2>2. /\ pool' \in Seq(Weights) /\ Len(pool') = Len(pool) + 1
          /\ ToSet(pool') = ToSet(pool) \union {onGpu} /\ IsInjective(pool')
      BY <2>1, OneIn
    <2>3. Len(pool') <= MaxWarm
      BY <2>1, <2>2, MemoryAssumption
    <2>4. PoolIsWarm'
      <3>1. NoWeights \notin Parkable
        BY MemoryAssumption
      <3> QED BY <1>0, <2>1, <2>2, <2>3, <3>1 DEF MemoryInv, PoolIsWarm
    <2>5. promised' = IF Parked[onGpu] - Held[onGpu] <= RamNeed(onGpu)
                      THEN IF m \in ToSet(pool) THEN "resume" ELSE "load"
                      ELSE "none"
      BY <1>4 DEF BeginSwap
    <2>6. PromiseHolds'
      <3>1. ASSUME promised' = "load", MinFree <= KeepWarmMin PROVE RamAvailable' >= RamNeed(m)' + MinFree
        BY <1>0, <1>4, <2>1, <2>5, <3>1, ParkLeavesRoom
      <3> QED BY <1>3, <3>1 DEF PromiseHolds, WithinBudget, RamNeed
    <2>7. ResidencyShapes'
      BY <1>0, <1>3, <2>2, <2>5 DEF MemoryInv, ResidencyShapes
    <2> QED BY <1>1, <1>2, <2>4, <2>6, <2>7 DEF MemoryInv
  <1>5. CASE ~(onGpu # NoWeights /\ MayPark(onGpu, m))
    <2>1. pool' = pool /\ promised' = "none"
      BY <1>5 DEF BeginSwap
    <2>2. PoolIsWarm'
      <3>1. NoWeights \notin Parkable
        BY MemoryAssumption
      <3> QED BY <1>0, <2>1, <3>1 DEF MemoryInv, PoolIsWarm
    <2>3. ResidencyShapes' /\ PromiseHolds'
      BY <1>0, <1>3, <2>1 DEF MemoryInv, ResidencyShapes, PromiseHolds
    <2> QED BY <1>1, <1>2, <2>2, <2>3 DEF MemoryInv
  <1> QED BY <1>4, <1>5

LEMMA EvictWarmKeeps ==
  ASSUME MemoryInv, EvictWarm
  PROVE  MemoryInv'
  <1>0. /\ UNCHANGED <<onGpu, others, swap, promised, learned, profile>> /\ UNCHANGED learning
        /\ swap.stage = "guard" /\ ~WithinBudget(swap.to) /\ wasted' = wasted \union ({promised} \ {"none"})
    BY DEF EvictWarm, learning
  <1>1. LearningShapes' /\ BaseIsRow' /\ CommittedIsKnown' /\ LearnedIsLargest'
    BY <1>0, LearningStays
  <1>2. MinFree <= KeepWarmMin => promised # "load"
    BY <1>0 DEF MemoryInv, PromiseHolds
  <1>3. ParkingLeavesRoom' /\ SwapThenProfile'
    BY <1>0, <1>2 DEF MemoryInv, ParkingLeavesRoom, SwapThenProfile
  <1>4. /\ pool' \in Seq(Weights) /\ Len(pool') <= Len(pool) /\ ToSet(pool') \subseteq ToSet(pool)
        /\ IsInjective(pool')
    <2>1. pool' = NextOut(pool, swap.to) /\ pool # <<>>
      BY DEF EvictWarm, NextOut
    <2>2. pool \in Seq(Weights) /\ IsInjective(pool)
      BY DEF MemoryInv, ResidencyShapes, PoolIsWarm
    <2> QED BY <2>1, <2>2, VictimOut
  <1>5. Len(pool') <= MaxWarm
    <2>1. Len(pool) \in Nat /\ Len(pool') \in Nat /\ Len(pool) <= MaxWarm
      BY <1>4 DEF MemoryInv, ResidencyShapes, PoolIsWarm
    <2> QED BY <1>4, <2>1, MemoryAssumption
  <1>6. PoolIsWarm'
    BY <1>0, <1>4, <1>5 DEF MemoryInv, PoolIsWarm
  <1>7. PromiseHolds'
    BY <1>0, <1>2 DEF MemoryInv, PromiseHolds
  <1>8. ResidencyShapes'
    BY <1>0, <1>4 DEF MemoryInv, ResidencyShapes
  <1> QED BY <1>1, <1>3, <1>6, <1>7, <1>8 DEF MemoryInv

\* The guard lets the load go on or refuses it; either way the promise of room is over.
LEMMA GuardKeeps ==
  ASSUME MemoryInv, RefuseLoad \/ PassBudget
  PROVE  MemoryInv'
  <1>0. /\ UNCHANGED <<onGpu, others, pool, profile>> /\ UNCHANGED learning /\ swap.stage = "guard" /\ promised' = "none"
    BY DEF RefuseLoad, PassBudget, learning
  <1>1. LearningShapes' /\ BaseIsRow' /\ CommittedIsKnown' /\ LearnedIsLargest'
    BY <1>0, LearningStays
  <1>2. (swap' = NoSwap \/ swap' = [stage |-> "loading", to |-> swap.to]) /\ swap.to \in Weights
    BY DEF RefuseLoad, PassBudget, MemoryInv, ResidencyShapes, SwapRecord, SwapThenProfile
  <1>3. swap' \in SwapRecord /\ (swap'.stage # "idle" => swap'.to = swap.to)
    BY <1>2 DEF SwapRecord, NoSwap
  <1>4. SwapThenProfile' /\ PoolIsWarm' /\ PromiseHolds'
    BY <1>0, <1>2, <1>3 DEF MemoryInv, SwapThenProfile, PoolIsWarm, PromiseHolds
  <1>5. wasted' \subseteq {"load", "resume"} /\ ParkingLeavesRoom'
    <2>1. CASE RefuseLoad
      <3>1. wasted' = wasted \union ({promised} \ {"none"}) /\ ~WithinBudget(swap.to)
        BY <2>1 DEF RefuseLoad
      <3>2. promised \in {"none", "load", "resume"} /\ wasted \subseteq {"load", "resume"}
        BY DEF MemoryInv, ResidencyShapes
      <3>3. MinFree <= KeepWarmMin => promised # "load"
        BY <3>1 DEF MemoryInv, PromiseHolds
      <3>4. wasted' \subseteq {"load", "resume"}
        BY <3>1, <3>2
      <3> QED BY <3>1, <3>3, <3>4 DEF MemoryInv, ParkingLeavesRoom
    <2>2. CASE PassBudget
      BY <2>2 DEF PassBudget, MemoryInv, ResidencyShapes, ParkingLeavesRoom
    <2> QED BY <2>1, <2>2
  <1>6. ResidencyShapes'
    BY <1>0, <1>3, <1>5 DEF MemoryInv, ResidencyShapes
  <1> QED BY <1>1, <1>4, <1>5, <1>6 DEF MemoryInv

\* A list without repetitions loses exactly the element that is removed.
LEMMA TakenOut ==
  ASSUME NEW S, NEW s \in Seq(S), NEW e, IsInjective(s)
  PROVE  /\ RemoveFirst(s, e) \in Seq(S) /\ Len(RemoveFirst(s, e)) <= Len(s)
         /\ ToSet(RemoveFirst(s, e)) = ToSet(s) \ {e} /\ IsInjective(RemoveFirst(s, e))
  <1>1. CASE e \in ToSet(s)
    BY <1>1, FirstOut
  <1>2. CASE e \notin ToSet(s)
    <2>1. RemoveFirst(s, e) = s
      BY <1>2 DEF RemoveFirst, ToSet
    <2>2. Len(s) \in Nat
      OBVIOUS
    <2>3. Len(s) <= Len(s)
      BY <2>2
    <2> HIDE DEF RemoveFirst
    <2> QED BY <1>2, <2>1, <2>3
  <1> QED BY <1>1, <1>2

LEMMA LoadEndsKeeps ==
  ASSUME MemoryInv, LoadEnds
  PROVE  MemoryInv'
  <1>0. /\ UNCHANGED <<others, promised, wasted, profileRows, learned, reset, largest, resetFailed>>
        /\ swap.stage = "loading" /\ swap' = NoSwap
    BY DEF LoadEnds
  <1>1. swap.to \in Weights /\ onGpu = NoWeights /\ profile = NoProfile /\ promised = "none"
        /\ pool \in Seq(Weights) /\ IsInjective(pool) /\ ToSet(pool) \subseteq Parkable \ {onGpu} /\ Len(pool) <= MaxWarm
    BY <1>0 DEF MemoryInv, ResidencyShapes, SwapThenProfile, PromiseHolds, PoolIsWarm
  <1>2. NoWeights \notin Parkable /\ NoWeights \notin Weights /\ \A m \in Weights : Deltas[m] \subseteq Nat
    BY MemoryAssumption
  <1>3. /\ onGpu' \in Weights \union {NoWeights} /\ pool' \in Seq(Weights) /\ IsInjective(pool')
        /\ ToSet(pool') \subseteq Parkable \ {onGpu'} /\ Len(pool') <= Len(pool)
        /\ \/ profile' = NoProfile
           \/ \E ram \in Nat : profile' = [stage |-> "measured", of |-> swap.to, base |-> 0, ram |-> ram]
    <2>1. CASE UNCHANGED <<onGpu, pool, profile>>
      <3>1. Len(pool) \in Nat
        BY <1>1
      <3>2. Len(pool) <= Len(pool)
        BY <3>1
      <3> QED BY <1>1, <2>1, <3>2
    <2>2. CASE ~UNCHANGED <<onGpu, pool, profile>>
      <3>1. onGpu' = swap.to /\ pool' = RemoveFirst(pool, swap.to)
        BY <2>2 DEF LoadEnds
      <3>2. PICK ram \in Deltas[swap.to] :
              profile' = IF ram = 0 THEN NoProfile
                         ELSE [stage |-> "measured", of |-> swap.to, base |-> 0, ram |-> ram]
        BY <2>2 DEF LoadEnds
      <3>3. ram \in Nat
        BY <1>1, <1>2
      <3>4. /\ RemoveFirst(pool, swap.to) \in Seq(Weights) /\ Len(RemoveFirst(pool, swap.to)) <= Len(pool)
            /\ ToSet(RemoveFirst(pool, swap.to)) = ToSet(pool) \ {swap.to} /\ IsInjective(RemoveFirst(pool, swap.to))
        BY <1>1, TakenOut
      <3>5. \/ profile' = NoProfile
            \/ \E r \in Nat : profile' = [stage |-> "measured", of |-> swap.to, base |-> 0, ram |-> r]
        BY <3>2, <3>3
      <3> HIDE DEF RemoveFirst, NoProfile
      <3>6. pool' \in Seq(Weights) /\ IsInjective(pool') /\ Len(pool') <= Len(pool)
            /\ ToSet(pool') = ToSet(pool) \ {swap.to}
        BY <3>1, <3>4
      <3> QED BY <1>1, <3>1, <3>5, <3>6
    <2> QED BY <2>1, <2>2
  <1>4. profile' \in ProfileRecord /\ profile'.stage \in {"idle", "measured"}
        /\ (profile'.stage # "idle" => profile'.of \in Weights)
    <2>1. CASE profile' = NoProfile
      BY <2>1 DEF NoProfile, ProfileRecord
    <2>2. CASE \E ram \in Nat : profile' = [stage |-> "measured", of |-> swap.to, base |-> 0, ram |-> ram]
      BY <1>1, <2>2 DEF ProfileRecord
    <2> QED BY <1>3, <2>1, <2>2
  <1>5. NoSwap \in SwapRecord /\ NoSwap.stage = "idle"
    BY DEF NoSwap, SwapRecord
  <1>6. ResidencyShapes'
    BY <1>0, <1>3, <1>5 DEF MemoryInv, ResidencyShapes
  <1>7. PoolIsWarm'
    <2>1. Len(pool) \in Nat /\ Len(pool') \in Nat /\ MaxWarm \in Nat
      BY <1>1, <1>3, MemoryAssumption
    <2>2. Len(pool') <= MaxWarm
      BY <1>1, <1>3, <2>1
    <2> QED BY <1>3, <2>2 DEF PoolIsWarm
  <1>8. SwapThenProfile' /\ PromiseHolds'
    BY <1>0, <1>1, <1>4, <1>5 DEF SwapThenProfile, PromiseHolds
  <1>9. LearningShapes' /\ BaseIsRow' /\ CommittedIsKnown'
    BY <1>0, <1>4 DEF MemoryInv, LearningShapes, BaseIsRow, CommittedIsKnown
  <1>10. ParkingLeavesRoom' /\ LearnedIsLargest'
    <2>1. profile.stage # "committed"
      BY <1>1 DEF NoProfile
    <2> QED BY <1>0, <2>1 DEF MemoryInv, ParkingLeavesRoom, LearnedIsLargest
  <1> QED BY <1>6, <1>7, <1>8, <1>9, <1>10 DEF MemoryInv

\* The pool is given up and nobody is resident.
LEMMA NobodyIsWarm == pool' = <<>> => PoolIsWarm' /\ pool' \in Seq(Weights)
  <1> SUFFICES ASSUME pool' = <<>> PROVE PoolIsWarm' /\ pool' \in Seq(Weights)
    OBVIOUS
  <1>1. <<>> \in Seq(Weights) /\ Len(<<>>) = 0 /\ IsInjective(<<>>) /\ ToSet(<<>>) = {}
    BY DEF IsInjective, ToSet
  <1>2. MaxWarm \in Nat
    BY MemoryAssumption
  <1> QED BY <1>1, <1>2 DEF PoolIsWarm

LEMMA FreeMemoryKeeps ==
  ASSUME MemoryInv, FreeMemory
  PROVE  MemoryInv'
  <1>0. onGpu' = NoWeights /\ pool' = <<>> /\ swap.stage = "idle" /\ promised = "none"
        /\ UNCHANGED <<others, swap, promised, wasted, profile>> /\ UNCHANGED learning
    BY DEF FreeMemory, learning, NoSwap, MemoryInv, PromiseHolds, ResidencyShapes
  <1>1. LearningShapes' /\ BaseIsRow' /\ CommittedIsKnown' /\ LearnedIsLargest'
    BY <1>0, LearningStays
  <1>2. PoolIsWarm' /\ pool' \in Seq(Weights)
    BY <1>0, NobodyIsWarm
  <1>3. ResidencyShapes' /\ SwapThenProfile' /\ PromiseHolds' /\ ParkingLeavesRoom'
    BY <1>0, <1>2 DEF MemoryInv, ResidencyShapes, SwapThenProfile, PromiseHolds, ParkingLeavesRoom
  <1> QED BY <1>1, <1>2, <1>3 DEF MemoryInv

LEMMA UseRamKeeps ==
  ASSUME MemoryInv, NEW n \in OtherUse, UseRam(n)
  PROVE  MemoryInv'
  <1>0. others' = n /\ n \in Nat /\ promised' = "none"
        /\ UNCHANGED <<onGpu, pool, swap, wasted, profile>> /\ UNCHANGED learning
    BY MemoryAssumption DEF UseRam, learning
  <1>1. LearningShapes' /\ BaseIsRow' /\ CommittedIsKnown' /\ LearnedIsLargest'
    BY <1>0, LearningStays
  <1>2. ResidencyShapes' /\ SwapThenProfile' /\ PromiseHolds' /\ ParkingLeavesRoom' /\ PoolIsWarm'
    BY <1>0 DEF MemoryInv, ResidencyShapes, SwapThenProfile, PromiseHolds, ParkingLeavesRoom, PoolIsWarm
  <1> QED BY <1>1, <1>2 DEF MemoryInv

\* A record that only begins or gives up: the rows and the cache stay.
LEMMA RecordReadKeeps ==
  ASSUME MemoryInv, RecordRead \/ RecordFails
  PROVE  MemoryInv'
  <1>0. /\ UNCHANGED residency /\ UNCHANGED <<profileRows, learned, reset, largest, resetFailed, swap, onGpu>>
        /\ profile.stage \in {"measured", "read"}
    BY DEF RecordRead, RecordFails, residency
  <1>1. profile \in ProfileRecord /\ profile.of \in Weights /\ profileRows \in [Weights -> Nat]
        /\ swap.stage = "idle"
    BY <1>0 DEF MemoryInv, LearningShapes, SwapThenProfile, NoProfile
  <1>2. ResidencyShapes' /\ PoolIsWarm' /\ PromiseHolds' /\ ParkingLeavesRoom'
    BY <1>0, ResidencyStays
  <1>3. CASE RecordRead
    <2>1. profile' = [profile EXCEPT !.stage = "read", !.base = profileRows[profile.of]]
      BY <1>3 DEF RecordRead
    <2>2. profile' \in ProfileRecord /\ profile'.stage = "read" /\ profile'.of = profile.of
          /\ profile'.base = profileRows[profile.of]
      BY <1>1, <2>1 DEF ProfileRecord
    <2> QED BY <1>0, <1>1, <1>2, <2>2 DEF MemoryInv, LearningShapes, SwapThenProfile, BaseIsRow,
            CommittedIsKnown, LearnedIsLargest
  <1>4. CASE RecordFails
    <2>1. profile' \in ProfileRecord /\ profile'.stage = "idle"
      BY <1>4 DEF RecordFails, NoProfile, ProfileRecord
    <2> QED BY <1>0, <1>1, <1>2, <2>1 DEF MemoryInv, LearningShapes, SwapThenProfile, BaseIsRow,
            CommittedIsKnown, LearnedIsLargest
  <1> QED BY <1>3, <1>4

\* The row becomes the largest measurement, since what was read is still in it.
LEMMA RecordCommitKeeps ==
  ASSUME MemoryInv, RecordCommit
  PROVE  MemoryInv'
  <1> DEFINE m == profile.of
  <1>0. /\ UNCHANGED residency /\ UNCHANGED <<learned, reset, resetFailed, swap, onGpu>>
        /\ profile.stage = "read" /\ reset = {} /\ (profile.base = 0 \/ profileRows[m] > 0)
        /\ profileRows' = [profileRows EXCEPT ![m] = Larger(profile.base, profile.ram)]
        /\ largest' = [largest EXCEPT ![m] = Larger(IF profileRows[m] = 0 THEN 0 ELSE @, profile.ram)]
        /\ profile' = [profile EXCEPT !.stage = "committed"]
    BY DEF RecordCommit, residency, NoReset
  <1>1. /\ m \in Weights /\ profileRows \in [Weights -> Nat] /\ learned \in [Weights -> Nat]
        /\ profile.base \in Nat /\ profile.ram \in Nat /\ profile \in ProfileRecord
        /\ largest = profileRows /\ profileRows[m] \in {profile.base, 0} /\ swap.stage = "idle"
    BY <1>0 DEF MemoryInv, LearningShapes, ProfileRecord, SwapThenProfile, NoProfile, BaseIsRow, LearnedIsLargest
  <1>2. profile' \in ProfileRecord /\ profile'.stage = "committed" /\ profile'.of = m
        /\ profile'.ram = profile.ram
    BY <1>0, <1>1 DEF ProfileRecord
  <1>3. PICK base \in Nat : base = profile.base
    BY <1>1
  <1>4. PICK ram \in Nat : ram = profile.ram
    BY <1>1
  <1>5. Larger(base, ram) \in Nat /\ (Larger(base, ram) = ram \/ (Larger(base, ram) = base /\ base > ram))
    BY DEF Larger
  <1>6. profileRows[m] = base
    <2>1. CASE base = 0
      BY <1>1, <1>3, <2>1
    <2>2. CASE base # 0
      BY <1>0, <1>1, <1>3, <2>2
    <2> QED BY <2>1, <2>2
  <1>7. (IF profileRows[m] = 0 THEN 0 ELSE largest[m]) = base
    BY <1>1, <1>6
  <1> HIDE DEF m
  <1>8. profileRows' = [profileRows EXCEPT ![m] = Larger(base, ram)] /\ largest' = profileRows'
    BY <1>0, <1>1, <1>3, <1>4, <1>7 DEF m
  <1>9. profileRows' \in [Weights -> Nat] /\ profileRows'[m] = Larger(base, ram)
        /\ \A w \in Weights : w # m => profileRows'[w] = profileRows[w]
    BY <1>1, <1>5, <1>8
  <1>10. learned[m] >= profileRows[m] \/ resetFailed
    BY <1>0, <1>1 DEF MemoryInv, LearnedIsLargest
  <1>11. CommittedIsKnown'
    <2>1. learned[m] >= Larger(base, ram) \/ ram >= Larger(base, ram) \/ resetFailed
      BY <1>5, <1>6, <1>10
    <2> QED BY <1>0, <1>2, <1>4, <1>9, <2>1 DEF CommittedIsKnown
  <1>12. LearnedIsLargest'
    <2>1. ASSUME NEW w \in Weights, w # m
          PROVE  learned'[w] >= profileRows'[w] \/ resetFailed'
      BY <1>0, <1>9, <2>1 DEF MemoryInv, LearnedIsLargest
    <2> QED BY <1>2, <1>8, <2>1 DEF LearnedIsLargest
  <1>13. ResidencyShapes' /\ PoolIsWarm' /\ PromiseHolds' /\ ParkingLeavesRoom'
    BY <1>0, ResidencyStays
  <1>14. SwapThenProfile' /\ BaseIsRow'
    BY <1>0, <1>1, <1>2 DEF SwapThenProfile, BaseIsRow
  <1>15. LearningShapes'
    BY <1>0, <1>2, <1>8, <1>9 DEF MemoryInv, LearningShapes
  <1> QED BY <1>11, <1>12, <1>13, <1>14, <1>15 DEF MemoryInv

\* The cache comes to know what was committed. No promise is open: the swap is over.
LEMMA RecordCacheKeeps ==
  ASSUME MemoryInv, RecordCache
  PROVE  MemoryInv'
  <1> DEFINE m == profile.of
  <1>0. /\ UNCHANGED residency /\ UNCHANGED <<profileRows, reset, largest, resetFailed, swap, onGpu>>
        /\ profile.stage = "committed" /\ profile' = NoProfile
        /\ learned' = [learned EXCEPT ![m] = Larger(@, profile.ram)]
    BY DEF RecordCache, residency
  <1>1. /\ m \in Weights /\ profileRows \in [Weights -> Nat] /\ learned \in [Weights -> Nat]
        /\ profile.ram \in Nat /\ swap.stage = "idle" /\ promised = "none"
    BY <1>0 DEF MemoryInv, ResidencyShapes, LearningShapes, ProfileRecord, SwapThenProfile, NoProfile, PromiseHolds
  <1>2. PICK ram \in Nat : ram = profile.ram
    BY <1>1
  <1>3. learned[m] >= profileRows[m] \/ ram >= profileRows[m] \/ resetFailed \/ m \in reset
    BY <1>0, <1>2 DEF MemoryInv, CommittedIsKnown
  <1> HIDE DEF m
  <1>4. PICK old \in Nat : old = learned[m]
    BY <1>1
  <1>5. Larger(old, ram) \in Nat /\ Larger(old, ram) >= old /\ Larger(old, ram) >= ram
    BY DEF Larger
  <1>6. learned' = [learned EXCEPT ![m] = Larger(old, ram)]
    BY <1>0, <1>1, <1>2, <1>4 DEF m
  <1>7. learned' \in [Weights -> Nat] /\ learned'[m] = Larger(old, ram)
        /\ \A w \in Weights : w # m => learned'[w] = learned[w]
    BY <1>1, <1>5, <1>6
  <1>8. learned'[m] >= profileRows[m] \/ resetFailed \/ m \in reset
    <2>1. PICK inRow \in Nat : inRow = profileRows[m]
      BY <1>1
    <2>2. old >= inRow \/ ram >= inRow \/ resetFailed \/ m \in reset
      BY <1>3, <1>4, <2>1
    <2>3. Larger(old, ram) >= inRow \/ resetFailed \/ m \in reset
      BY <1>5, <2>2
    <2> QED BY <1>7, <2>1, <2>3
  <1>9. LearnedIsLargest'
    <2>1. ASSUME NEW w \in Weights, w # m
          PROVE  learned'[w] >= profileRows[w] \/ resetFailed \/ w \in reset
      BY <1>0, <1>7, <2>1 DEF MemoryInv, LearnedIsLargest, m
    <2>2. profileRows = largest
      BY DEF MemoryInv, LearnedIsLargest
    <2> QED BY <1>0, <1>8, <2>1, <2>2 DEF LearnedIsLargest
  <1>10. ResidencyShapes' /\ PoolIsWarm' /\ PromiseHolds' /\ ParkingLeavesRoom'
    BY <1>0, <1>1, ResidencyStays
  <1>11. NoProfile \in ProfileRecord /\ NoProfile.stage = "idle"
    BY DEF NoProfile, ProfileRecord
  <1>12. SwapThenProfile' /\ BaseIsRow' /\ CommittedIsKnown'
    BY <1>0, <1>1, <1>11 DEF SwapThenProfile, BaseIsRow, CommittedIsKnown
  <1>13. LearningShapes'
    BY <1>0, <1>7, <1>11 DEF MemoryInv, LearningShapes
  <1> QED BY <1>9, <1>10, <1>12, <1>13 DEF MemoryInv

\* The cache forgets what the reset will delete.
LEMMA ResetProfilesKeeps ==
  ASSUME MemoryInv, NEW ms \in SUBSET Weights, ResetProfiles(ms)
  PROVE  MemoryInv'
  <1>0. /\ UNCHANGED <<onGpu, pool, others, swap, wasted, profileRows, profile, largest, resetFailed>>
        /\ reset = {} /\ reset' = ms /\ promised' = "none"
        /\ learned' = [m \in Weights |-> IF m \in ms THEN 0 ELSE learned[m]]
    BY DEF ResetProfiles, NoReset
  <1>1. learned' \in [Weights -> Nat] /\ \A m \in Weights : m \notin ms => learned'[m] = learned[m]
    BY <1>0 DEF MemoryInv, LearningShapes
  <1>2. ResidencyShapes' /\ PoolIsWarm' /\ PromiseHolds' /\ ParkingLeavesRoom' /\ SwapThenProfile'
    BY <1>0 DEF MemoryInv, ResidencyShapes, PoolIsWarm, PromiseHolds, ParkingLeavesRoom, SwapThenProfile
  <1>3. LearningShapes' /\ BaseIsRow'
    BY <1>0, <1>1 DEF MemoryInv, LearningShapes, BaseIsRow
  <1>4. LearnedIsLargest'
    <2>1. ASSUME NEW m \in Weights, m \notin ms
          PROVE  learned'[m] >= profileRows[m] \/ resetFailed \/ (profile.stage = "committed" /\ profile.of = m)
      BY <1>0, <1>1, <2>1 DEF MemoryInv, LearnedIsLargest
    <2>2. profileRows = largest
      BY DEF MemoryInv, LearnedIsLargest
    <2> QED BY <1>0, <2>1, <2>2 DEF LearnedIsLargest
  <1>5. CommittedIsKnown'
    <2>1. ASSUME profile.stage = "committed", profile.of \notin ms
          PROVE  learned'[profile.of] >= profileRows[profile.of] \/ profile.ram >= profileRows[profile.of] \/ resetFailed
      <3>1. profile.of \in Weights
        BY <2>1 DEF MemoryInv, SwapThenProfile
      <3> QED BY <1>0, <1>1, <2>1, <3>1 DEF MemoryInv, CommittedIsKnown
    <2> QED BY <1>0, <2>1 DEF CommittedIsKnown
  <1> QED BY <1>2, <1>3, <1>4, <1>5 DEF MemoryInv

LEMMA CommitResetKeeps ==
  ASSUME MemoryInv, CommitReset
  PROVE  MemoryInv'
  <1>0. /\ UNCHANGED residency /\ UNCHANGED <<learned, profile, resetFailed, swap, onGpu>>
        /\ reset' = {}
        /\ profileRows' = [m \in Weights |-> IF m \in reset THEN 0 ELSE profileRows[m]]
        /\ largest' = [m \in Weights |-> IF m \in reset THEN 0 ELSE largest[m]]
    BY DEF CommitReset, NoReset, residency
  <1>1. profileRows = largest /\ profileRows \in [Weights -> Nat] /\ learned \in [Weights -> Nat]
    BY DEF MemoryInv, LearnedIsLargest, LearningShapes
  <1>2. profileRows' = largest' /\ profileRows' \in [Weights -> Nat]
        /\ \A m \in Weights : profileRows'[m] = IF m \in reset THEN 0 ELSE profileRows[m]
    BY <1>0, <1>1
  <1>3. \A m \in Weights : learned[m] \in Nat /\ learned[m] >= 0
    BY <1>1
  <1>4. ResidencyShapes' /\ PoolIsWarm' /\ PromiseHolds' /\ ParkingLeavesRoom'
    BY <1>0, ResidencyStays
  <1>5. SwapThenProfile' /\ LearningShapes'
    BY <1>0, <1>2 DEF MemoryInv, SwapThenProfile, LearningShapes
  <1>6. BaseIsRow'
    <2>1. profile.stage = "read" => profile.of \in Weights
      BY DEF MemoryInv, SwapThenProfile
    <2> QED BY <1>0, <1>2, <2>1 DEF MemoryInv, BaseIsRow
  <1>7. LearnedIsLargest'
    <2>1. ASSUME NEW m \in Weights
          PROVE  learned[m] >= profileRows'[m] \/ resetFailed \/ (profile.stage = "committed" /\ profile.of = m)
      BY <1>2, <1>3 DEF MemoryInv, LearnedIsLargest
    <2> QED BY <1>0, <1>2, <2>1 DEF LearnedIsLargest
  <1>8. CommittedIsKnown'
    <2>1. ASSUME profile.stage = "committed"
          PROVE  learned[profile.of] >= profileRows'[profile.of] \/ profile.ram >= profileRows'[profile.of] \/ resetFailed
      <3>1. profile.of \in Weights
        BY <2>1 DEF MemoryInv, SwapThenProfile
      <3> QED BY <1>2, <1>3, <2>1, <3>1 DEF MemoryInv, CommittedIsKnown
    <2> QED BY <1>0, <2>1 DEF CommittedIsKnown
  <1> QED BY <1>4, <1>5, <1>6, <1>7, <1>8 DEF MemoryInv

LEMMA ResetFailsKeeps ==
  ASSUME MemoryInv, ResetFails
  PROVE  MemoryInv'
  <1>0. /\ UNCHANGED residency /\ UNCHANGED <<profileRows, learned, profile, largest, swap, onGpu>>
        /\ reset' = {} /\ resetFailed' = TRUE
    BY DEF ResetFails, NoReset, residency
  <1>1. ResidencyShapes' /\ PoolIsWarm' /\ PromiseHolds' /\ ParkingLeavesRoom'
    BY <1>0, ResidencyStays
  <1>2. SwapThenProfile' /\ LearningShapes' /\ BaseIsRow' /\ CommittedIsKnown' /\ LearnedIsLargest'
    BY <1>0 DEF MemoryInv, SwapThenProfile, LearningShapes, BaseIsRow, CommittedIsKnown, LearnedIsLargest
  <1> QED BY <1>1, <1>2 DEF MemoryInv

LEMMA ReloadKeeps ==
  ASSUME MemoryInv, Reload
  PROVE  MemoryInv'
  <1>0. /\ UNCHANGED <<others, wasted, profileRows, largest>> /\ onGpu' = NoWeights /\ pool' = <<>> /\ swap' = NoSwap
        /\ promised' = "none" /\ profile' = NoProfile /\ reset' = {}
        /\ \/ learned' = profileRows /\ resetFailed' = FALSE
           \/ learned' = [m \in Weights |-> 0] /\ resetFailed' = TRUE
    BY DEF Reload, NoReset
  <1>1. NoSwap \in SwapRecord /\ NoProfile \in ProfileRecord /\ NoSwap.stage = "idle" /\ NoProfile.stage = "idle"
    BY DEF NoSwap, NoProfile, SwapRecord, ProfileRecord
  <1>2. PoolIsWarm' /\ pool' \in Seq(Weights)
    BY <1>0, NobodyIsWarm
  <1>3. ResidencyShapes' /\ SwapThenProfile' /\ PromiseHolds' /\ ParkingLeavesRoom' /\ BaseIsRow' /\ CommittedIsKnown'
    BY <1>0, <1>1, <1>2 DEF MemoryInv, ResidencyShapes, SwapThenProfile, PromiseHolds, ParkingLeavesRoom, BaseIsRow, CommittedIsKnown
  <1>4. learned' \in [Weights -> Nat] /\ resetFailed' \in BOOLEAN
    <2>1. profileRows \in [Weights -> Nat]
      BY DEF MemoryInv, LearningShapes
    <2>2. CASE learned' = profileRows /\ resetFailed' = FALSE
      BY <2>1, <2>2
    <2>3. CASE learned' = [m \in Weights |-> 0] /\ resetFailed' = TRUE
      BY <2>3
    <2> QED BY <1>0, <2>2, <2>3
  <1>5. LearningShapes'
    BY <1>0, <1>1, <1>4 DEF MemoryInv, LearningShapes
  <1>6. LearnedIsLargest'
    <2>1. \A m \in Weights : profileRows[m] \in Nat /\ profileRows[m] >= profileRows[m]
      BY DEF MemoryInv, LearningShapes
    <2> QED BY <1>0, <2>1 DEF MemoryInv, LearnedIsLargest
  <1> QED BY <1>2, <1>3, <1>5, <1>6 DEF MemoryInv

LEMMA MemoryStep == MemoryInv /\ [MemoryNext]_memoryVars => MemoryInv'
  <1> SUFFICES ASSUME MemoryInv, [MemoryNext]_memoryVars PROVE MemoryInv'
    OBVIOUS
  <1>1. CASE \E m \in Weights : BeginSwap(m)
    BY <1>1, BeginSwapKeeps
  <1>2. CASE EvictWarm \/ RefuseLoad \/ PassBudget
    BY <1>2, EvictWarmKeeps, GuardKeeps
  <1>3. CASE LoadEnds \/ FreeMemory
    BY <1>3, LoadEndsKeeps, FreeMemoryKeeps
  <1>4. CASE \E n \in OtherUse : UseRam(n)
    BY <1>4, UseRamKeeps
  <1>5. CASE RecordRead \/ RecordFails
    BY <1>5, RecordReadKeeps
  <1>6. CASE RecordCommit \/ RecordCache
    BY <1>6, RecordCommitKeeps, RecordCacheKeeps
  <1>7. CASE \E ms \in {Weights} \union {{m} : m \in Weights} : ResetProfiles(ms)
    BY <1>7, ResetProfilesKeeps
  <1>8. CASE CommitReset \/ ResetFails \/ Reload
    BY <1>8, CommitResetKeeps, ResetFailsKeeps, ReloadKeeps
  <1>9. CASE UNCHANGED memoryVars
    <2>1. UNCHANGED learning /\ UNCHANGED residency /\ UNCHANGED <<swap, onGpu, profile, learned>>
      BY <1>9 DEF memoryVars, learning, residency
    <2>2. SwapThenProfile'
      BY <2>1 DEF MemoryInv, SwapThenProfile
    <2> QED BY <2>1, <2>2, LearningStays, ResidencyStays DEF MemoryInv
  <1> QED BY <1>1, <1>2, <1>3, <1>4, <1>5, <1>6, <1>7, <1>8, <1>9 DEF MemoryNext

\* A keep-warm decision never costs the load it was taken for (of the resume of a warm
\* model nothing is claimed), and the measurements behind the estimates are never forgotten
\* but by a reset (_keep_warm_decision, _guard_budget and
\* _record_profile of arbiter.py, model_profile_service.py, the resets of api/models.py).
THEOREM MemoryStaysSound == MemorySpec => []MemoryIsSound
  <1>1. MemoryInv => MemoryIsSound
    BY DEF MemoryInv, ResidencyShapes, LearningShapes, PoolIsWarm, MemoryIsSound, MemoryTypeOK
  <1> QED BY <1>1, MemoryStart, MemoryStep, PTL DEF MemorySpec

------------------------------------------------------------------------------
(* Model registry: a job is run by the model it was checked with               *)

\* The backends were made from the table of this start.
BackendsAreOfTable == isUp => \A s \in DOMAIN backendOf : backendOf[s] = table[s]

\* As long as the backend is not started again, the job in the queue was checked with the
\* tables there are.
CheckHolds ==
  /\ starts \in Nat
  /\ accepted # NoJob =>
       /\ accepted.start <= starts /\ accepted.start \in Nat
       /\ accepted.start = starts =>
            /\ accepted.slug \in DOMAIN table /\ accepted.model = table[accepted.slug]
            /\ accepted.lora # AnyFamily =>
                 /\ accepted.lora \in DOMAIN loraTable
                 /\ loraTable[accepted.lora].family \in {AnyFamily, table[accepted.slug].family}

RegistryInv == BackendsAreOfTable /\ CheckHolds /\ JobsRunAsChecked

LEMMA RegistryStart == RegistryInit => RegistryInv
  <1> SUFFICES ASSUME RegistryInit PROVE RegistryInv
    OBVIOUS
  <1>1. DOMAIN backendOf = {}
    BY DEF RegistryInit
  <1> QED BY <1>1 DEF RegistryInit, RegistryInv, BackendsAreOfTable, CheckHolds, JobsRunAsChecked

LEMMA ScanKeeps ==
  ASSUME RegistryInv, Scan
  PROVE  RegistryInv'
  <1>1. table' = ModelTable(disk) /\ starts' = starts + 1 /\ UNCHANGED <<disk, accepted, ran>> /\ DOMAIN backendOf' = {}
    BY DEF Scan
  <1>2. BackendsAreOfTable'
    BY <1>1 DEF RegistryInv, BackendsAreOfTable
  <1>3. CheckHolds'
    BY <1>1 DEF RegistryInv, CheckHolds
  <1>4. JobsRunAsChecked'
    BY <1>1 DEF RegistryInv, JobsRunAsChecked
  <1> QED BY <1>2, <1>3, <1>4 DEF RegistryInv

LEMMA AcceptJobKeeps ==
  ASSUME RegistryInv, NEW s \in Slugs, NEW job \in {"image", "llm"}, NEW l \in LoraSlugs \union {AnyFamily}, AcceptJob(s, job, l)
  PROVE  RegistryInv'
  <1>1. /\ UNCHANGED <<disk, table, loraTable, backendOf, isUp, starts, ran>> /\ s \in DOMAIN table
        /\ l # AnyFamily => l \in DOMAIN loraTable /\ loraTable[l].family \in {AnyFamily, table[s].family}
        /\ accepted' = [slug |-> s, job |-> job, lora |-> l, model |-> table[s], start |-> starts]
    BY DEF AcceptJob
  <1>2. accepted'.slug = s /\ accepted'.lora = l /\ accepted'.model = table[s] /\ accepted'.start = starts
    BY <1>1
  <1>3. starts \in Nat /\ starts <= starts
    BY DEF RegistryInv, CheckHolds
  <1>4. CheckHolds'
    BY <1>1, <1>2, <1>3 DEF CheckHolds
  <1> QED BY <1>1, <1>4 DEF RegistryInv, BackendsAreOfTable, JobsRunAsChecked

LEMMA RunAcceptedKeeps ==
  ASSUME RegistryInv, RunAccepted
  PROVE  RegistryInv'
  <1> DEFINE s == accepted.slug
             l == accepted.lora
  <1>0. /\ UNCHANGED <<disk, table, loraTable, isUp, starts>> /\ isUp /\ accepted # NoJob /\ accepted' = NoJob
    BY DEF RunAccepted
  <1>1. CheckHolds'
    BY <1>0 DEF RegistryInv, CheckHolds
  <1>2. CASE s \notin DOMAIN table
    <2>1. UNCHANGED <<backendOf, ran>>
      BY <1>2 DEF RunAccepted
    <2> QED BY <1>0, <1>1, <2>1 DEF RegistryInv, BackendsAreOfTable, JobsRunAsChecked
  <1>3. CASE s \in DOMAIN table
    <2>1. \A t \in DOMAIN backendOf : backendOf[t] = table[t]
      BY <1>0 DEF RegistryInv, BackendsAreOfTable
    <2>2. Backend(s) = table[s] /\ \A t \in DOMAIN backendOf \union {s} : Backend(t) = table[t]
      BY <2>1 DEF Backend
    <2>3. backendOf' = [t \in DOMAIN backendOf \union {s} |-> Backend(t)]
      BY <1>3 DEF RunAccepted
    <2>4. BackendsAreOfTable'
      BY <1>0, <2>2, <2>3 DEF RegistryInv, BackendsAreOfTable
    <2>5. CASE ran' = NoJob
      BY <1>1, <2>4, <2>5 DEF RegistryInv, JobsRunAsChecked
    <2>6. CASE ran' # NoJob
      <3> DEFINE fits == IF l = AnyFamily THEN TRUE ELSE loraTable[l].family \in {AnyFamily, Backend(s).family}
      <3>1. /\ Backend(s).job = accepted.job
            /\ ran' = [slug |-> s, job |-> accepted.job, lora |-> l, model |-> Backend(s),
                       checked |-> accepted.model, again |-> accepted.start # starts, fits |-> fits]
        BY <1>3, <2>6 DEF RunAccepted
      <3>2. accepted.start = starts => accepted.model = table[s] /\ fits
        BY <1>0, <2>2 DEF RegistryInv, CheckHolds
      <3> HIDE DEF fits
      <3>3. ran'.model = Backend(s) /\ ran'.job = accepted.job /\ ran'.checked = accepted.model
            /\ ran'.again = (accepted.start # starts) /\ ran'.fits = fits
        BY <3>1
      <3>4. JobsRunAsChecked'
        BY <2>2, <3>1, <3>2, <3>3 DEF JobsRunAsChecked
      <3> QED BY <1>1, <2>4, <3>4 DEF RegistryInv
    <2> QED BY <2>5, <2>6
  <1> QED BY <1>2, <1>3

LEMMA RegistryStep == RegistryInv /\ [RegistryNext]_registryVars => RegistryInv'
  <1> SUFFICES ASSUME RegistryInv, [RegistryNext]_registryVars PROVE RegistryInv'
    OBVIOUS
  <1>1. CASE Scan
    BY <1>1, ScanKeeps
  <1>2. CASE ChangeFiles
    BY <1>2 DEF ChangeFiles, RegistryInv, BackendsAreOfTable, CheckHolds, JobsRunAsChecked
  <1>3. CASE GoDown
    BY <1>3 DEF GoDown, RegistryInv, BackendsAreOfTable, CheckHolds, JobsRunAsChecked
  <1>4. CASE RunAccepted
    BY <1>4, RunAcceptedKeeps
  <1>5. CASE \E s \in Slugs, job \in {"image", "llm"}, l \in LoraSlugs \union {AnyFamily} : AcceptJob(s, job, l)
    BY <1>5, AcceptJobKeeps
  <1>6. CASE UNCHANGED registryVars
    BY <1>6 DEF registryVars, RegistryInv, BackendsAreOfTable, CheckHolds, JobsRunAsChecked
  <1> QED BY <1>1, <1>2, <1>3, <1>4, <1>5, <1>6 DEF RegistryNext

\* Whatever files come and go, a job runs with the model and the LoRA it was checked with
\* unless the backend was started again in between, and then still by a model of its type;
\* a backend that was made is never that of another file than its id's in the table (scan
\* and get_backend of registry.py, _validate_model and _normalize_loras of api/jobs.py, _run
\* of scheduler.py).
THEOREM RegistryStaysSound == RegistrySpec => []RegistryIsSound
  <1>1. RegistryInv => RegistryIsSound
    BY DEF RegistryInv, BackendsAreOfTable, RegistryIsSound
  <1> QED BY <1>1, RegistryStart, RegistryStep, PTL DEF RegistrySpec

------------------------------------------------------------------------------
(* Hardware and settings: every card that is reported is there, and what a     *)
(* request chose survives                                                       *)

IsIteration(f, N, V, base, step) ==
  f \in [0..N -> V] /\ f[0] = base /\ \A n \in 1..N : f[n] = step[<<n, f[n - 1]>>]

\* A recursion over a list has a solution: step is its right-hand side.
LEMMA Iterates ==
  ASSUME NEW N \in Nat, NEW V, NEW base \in V, NEW step \in [(1..N) \X V -> V]
  PROVE  \E f : IsIteration(f, N, V, base, step)
  <1> DEFINE IsUpTo(f, m) == /\ f \in [0..m -> V] /\ f[0] = base
                             /\ \A n \in 1..m : f[n] = step[<<n, f[n - 1]>>]
             S == {m \in 0..N : \E f : IsUpTo(f, m)}
  <1>1. 0 \in S
    <2>1. IsUpTo([n \in 0..0 |-> base], 0)
      OBVIOUS
    <2> HIDE DEF IsUpTo
    <2> QED BY <2>1
  <1>2. ASSUME NEW m \in 1..N, m - 1 \in S PROVE m \in S
    <2>1. PICK f : IsUpTo(f, m - 1)
      BY <1>2
    <2>2. PICK v \in V : v = step[<<m, f[m - 1]>>]
      <3>1. f[m - 1] \in V
        BY <2>1
      <3> QED BY <3>1
    <2>3. PICK g : g = [n \in 0..m |-> IF n = m THEN v ELSE f[n]]
      OBVIOUS
    <2>4. g \in [0..m -> V] /\ g[0] = base
      BY <2>1, <2>2, <2>3
    <2>5. ASSUME NEW n \in 1..m PROVE g[n] = step[<<n, g[n - 1]>>]
      <3>1. CASE n = m
        <4>1. g[n] = v /\ g[n - 1] = f[n - 1]
          BY <2>3, <3>1
        <4> QED BY <2>2, <3>1, <4>1
      <3>2. CASE n # m
        <4>1. n \in 1..(m - 1) /\ g[n] = f[n] /\ g[n - 1] = f[n - 1]
          BY <2>3, <3>2
        <4> QED BY <2>1, <4>1
      <3> QED BY <3>1, <3>2
    <2>6. IsUpTo(g, m)
      BY <2>4, <2>5
    <2> HIDE DEF IsUpTo
    <2> QED BY <2>6
  <1>3. \A m \in 0..N : m \in S
    <2> HIDE DEF S
    <2> QED BY <1>1, <1>2, UpTo
  <1>4. PICK f : IsUpTo(f, N)
    BY <1>3
  <1> QED BY <1>4 DEF IsIteration

\* The cards of some vendors are cards that are there, and of these vendors.
LEMMA CardsAreThere ==
  ASSUME NEW S, NEW cards \in Seq(S), NEW vendors
  PROVE  CardsOf(cards, vendors) \in Seq({c \in S : c.vendor \in vendors /\ \E i \in DOMAIN cards : cards[i] = c})
  <1> DEFINE C == {c \in S : c.vendor \in vendors /\ \E i \in DOMAIN cards : cards[i] = c}
             next(n, out) == IF cards[n].vendor \in vendors THEN Append(out, cards[n]) ELSE out
             rhs(f, n) == IF n = 0 THEN <<>> ELSE next(n, f[n - 1])
  <1>0. PICK N \in Nat : N = Len(cards) /\ DOMAIN cards = 1..N
    OBVIOUS
  <1>1. ASSUME NEW n \in 1..N, NEW out \in Seq(C) PROVE next(n, out) \in Seq(C)
    <2>1. cards[n] \in S
      BY <1>0
    <2>2. cards[n].vendor \in vendors => cards[n] \in C
      BY <1>0, <2>1
    <2> QED BY <2>2
  <1> HIDE DEF C
  <1>2. PICK f \in [0..N -> Seq(C)] : f[0] = <<>> /\ \A n \in 1..N : f[n] = next(n, f[n - 1])
    <2>1. PICK step : step = [p \in (1..N) \X Seq(C) |-> next(p[1], p[2])]
      OBVIOUS
    <2>2. \A n \in 1..N, out \in Seq(C) : step[<<n, out>>] = next(n, out)
      <3> HIDE DEF next
      <3> QED BY <2>1
    <2>3. step \in [(1..N) \X Seq(C) -> Seq(C)]
      <3> HIDE DEF next
      <3> QED BY <1>1, <2>1
    <2>4. <<>> \in Seq(C)
      OBVIOUS
    <2> HIDE DEF next
    <2>5. PICK f : IsIteration(f, N, Seq(C), <<>>, step)
      <3>1. PICK V : V = Seq(C)
        OBVIOUS
      <3>2. PICK base \in V : base = <<>>
        BY <2>4, <3>1
      <3>3. \E f : IsIteration(f, N, V, base, step)
        BY <2>3, <3>1, Iterates
      <3> QED BY <3>1, <3>2, <3>3
    <2>a. f \in [0..N -> Seq(C)] /\ f[0] = <<>> /\ \A n \in 1..N : f[n] = step[<<n, f[n - 1]>>]
      BY <2>5 DEF IsIteration
    <2>6. \A n \in 1..N : f[n - 1] \in Seq(C)
      BY <2>a
    <2> QED BY <2>2, <2>a, <2>6
  <1> HIDE DEF next
  <1>3. f = [n \in 0..N |-> rhs(f, n)]
    <2>1. \A n \in 0..N : f[n] = rhs(f, n)
      BY <1>2
    <2> HIDE DEF rhs
    <2> QED BY <2>1
  <1> DEFINE k == CHOOSE h : h = [n \in 0..N |-> rhs(h, n)]
  <1>4. k = [n \in 0..N |-> rhs(k, n)]
    <2> HIDE DEF rhs
    <2> QED BY <1>3
  <1>5. CardsOf(cards, vendors) = k[N]
    BY <1>0 DEF CardsOf, next
  <1> HIDE DEF k
  <1>6. \A n \in 0..N : k[n] = rhs(k, n)
    <2> HIDE DEF rhs
    <2> QED BY <1>4
  <1>7. k[0] = <<>> /\ \A n \in 1..N : k[n] = next(n, k[n - 1])
    BY <1>0, <1>6
  <1> DEFINE U == {n \in 0..N : k[n] \in Seq(C)}
  <1>8. 0 \in U
    <2>1. <<>> \in Seq(C) /\ 0 \in 0..N
      OBVIOUS
    <2>2. k[0] \in Seq(C)
      BY <1>7, <2>1, Zenon
    <2> QED BY <2>1, <2>2
  <1>9. ASSUME NEW n \in 1..N, n - 1 \in U PROVE n \in U
    <2>1. k[n - 1] \in Seq(C) /\ n \in 0..N
      BY <1>0, <1>9
    <2>2. k[n] \in Seq(C)
      BY <1>1, <1>7, <2>1
    <2> QED BY <2>1, <2>2
  <1>10. \A n \in 0..N : n \in U
    <2> HIDE DEF U
    <2> QED BY <1>8, <1>9, UpTo
  <1> QED BY <1>5, <1>10 DEF C

\* A set of entries that filling in does not leave.
FillsUp(S) ==
  S \subseteq GpuRecord /\ \A a, b \in S : a.vendor = b.vendor => Filled(a, b) \in S

\* Merging reports never leaves a set that filling in does not leave.
LEMMA MergedStays ==
  ASSUME NEW S, FillsUp(S), NEW gpus \in Seq(S)
  PROVE  Merged(gpus) \in Seq(S)
  <1> DEFINE rhs(f, n) == IF n = 0 THEN <<>> ELSE AddGpu(f[n - 1], gpus[n])
  <1>0. PICK N \in Nat : N = Len(gpus) /\ DOMAIN gpus = 1..N
    OBVIOUS
  <1>1. ASSUME NEW n \in 1..N, NEW out \in Seq(S) PROVE AddGpu(out, gpus[n]) \in Seq(S)
    <2>1. PICK g \in S : g = gpus[n]
      BY <1>0
    <2> DEFINE same == {i \in DOMAIN out : out[i].vendor = g.vendor /\ out[i].name = g.name}
    <2>2. CASE same = {}
      BY <2>1, <2>2 DEF AddGpu
    <2>3. CASE same # {}
      <3>1. PICK l \in Nat : l = Len(out) /\ DOMAIN out = 1..l
        OBVIOUS
      <3>2. \A i \in 1..l : (IF i \in same THEN Filled(out[i], g) ELSE out[i]) \in S
        BY <3>1 DEF FillsUp
      <3>3. AddGpu(out, g) = [i \in 1..l |-> IF i \in same THEN Filled(out[i], g) ELSE out[i]]
        BY <2>3, <3>1 DEF AddGpu
      <3> HIDE DEF same
      <3>4. AddGpu(out, g) \in [1..l -> S]
        BY <3>2, <3>3
      <3> QED BY <2>1, <3>4
    <2> QED BY <2>2, <2>3
  <1>2. PICK f \in [0..N -> Seq(S)] : f[0] = <<>> /\ \A n \in 1..N : f[n] = AddGpu(f[n - 1], gpus[n])
    <2>1. PICK step : step = [p \in (1..N) \X Seq(S) |-> AddGpu(p[2], gpus[p[1]])]
      OBVIOUS
    <2>2. \A n \in 1..N, out \in Seq(S) : step[<<n, out>>] = AddGpu(out, gpus[n])
      BY <2>1
    <2>3. step \in [(1..N) \X Seq(S) -> Seq(S)]
      BY <1>1, <2>1
    <2>4. <<>> \in Seq(S)
      OBVIOUS
    <2>5. PICK f : IsIteration(f, N, Seq(S), <<>>, step)
      <3>1. PICK V : V = Seq(S)
        OBVIOUS
      <3>2. PICK base \in V : base = <<>>
        BY <2>4, <3>1
      <3>3. \E f : IsIteration(f, N, V, base, step)
        BY <2>3, <3>1, Iterates
      <3> QED BY <3>1, <3>2, <3>3
    <2>a. f \in [0..N -> Seq(S)] /\ f[0] = <<>> /\ \A n \in 1..N : f[n] = step[<<n, f[n - 1]>>]
      BY <2>5 DEF IsIteration
    <2>6. \A n \in 1..N : f[n - 1] \in Seq(S)
      BY <2>a
    <2> QED BY <2>2, <2>a, <2>6
  <1>3. f = [n \in 0..N |-> rhs(f, n)]
    <2>1. \A n \in 0..N : f[n] = rhs(f, n)
      BY <1>2
    <2> HIDE DEF rhs
    <2> QED BY <2>1
  <1> DEFINE k == CHOOSE h : h = [n \in 0..N |-> rhs(h, n)]
  <1>4. k = [n \in 0..N |-> rhs(k, n)]
    <2> HIDE DEF rhs
    <2> QED BY <1>3
  <1>5. Merged(gpus) = k[N]
    BY <1>0 DEF Merged
  <1> HIDE DEF k
  <1>6. \A n \in 0..N : k[n] = rhs(k, n)
    <2> HIDE DEF rhs
    <2> QED BY <1>4
  <1>7. k[0] = <<>> /\ \A n \in 1..N : k[n] = AddGpu(k[n - 1], gpus[n])
    BY <1>0, <1>6
  <1> DEFINE U == {n \in 0..N : k[n] \in Seq(S)}
  <1>8. 0 \in U
    <2>1. <<>> \in Seq(S) /\ 0 \in 0..N
      OBVIOUS
    <2>2. k[0] \in Seq(S)
      BY <1>7, <2>1, Zenon
    <2> QED BY <2>1, <2>2
  <1>9. ASSUME NEW n \in 1..N, n - 1 \in U PROVE n \in U
    <2>1. k[n - 1] \in Seq(S) /\ n \in 0..N
      BY <1>0, <1>9
    <2>2. k[n] \in Seq(S)
      BY <1>1, <1>7, <2>1
    <2> QED BY <2>1, <2>2
  <1>10. \A n \in 0..N : n \in U
    <2> HIDE DEF U
    <2> QED BY <1>8, <1>9, UpTo
  <1> QED BY <1>5, <1>10

\* An entry of the report stands for a card that is there, if CUDA is to use it.
OnMachine(m) ==
  {g \in GpuRecord : g.vendor = "nvidia" =>
     \E k \in DOMAIN m.cards : m.cards[k].vendor = "nvidia" /\ m.cards[k].vram >= g.vram}

\* A filled-in entry is an entry, of the same vendor, with the memory of one of the two.
LEMMA FilledIn ==
  ASSUME NEW a \in GpuRecord, NEW b \in GpuRecord
  PROVE  /\ Filled(a, b) \in GpuRecord /\ Filled(a, b).vendor = a.vendor
         /\ Filled(a, b).vram \in {a.vram, b.vram}
  <1>1. PICK v \in Nat : v = (IF a.vram = 0 THEN b.vram ELSE a.vram) /\ v \in {a.vram, b.vram}
    BY DEF GpuRecord
  <1>2. PICK c \in Seq(Nat) : c = IF a.cap = <<>> THEN b.cap ELSE a.cap
    BY DEF GpuRecord
  <1>3. PICK h : h = [a EXCEPT !.vram = v, !.cap = c]
    OBVIOUS
  <1>4. Filled(a, b) = h
    BY <1>1, <1>2, <1>3 DEF Filled
  <1>5. h \in GpuRecord /\ h.vendor = a.vendor /\ h.vram = v
    BY <1>3 DEF GpuRecord
  <1> QED BY <1>1, <1>4, <1>5

\* Filling in one entry that is there from another of its vendor gives one that is there.
LEMMA MachineFillsUp ==
  ASSUME NEW m
  PROVE  FillsUp(OnMachine(m))
  <1>1. OnMachine(m) \subseteq GpuRecord
    BY DEF OnMachine
  <1>2. ASSUME NEW a \in OnMachine(m), NEW b \in OnMachine(m), a.vendor = b.vendor
        PROVE  Filled(a, b) \in OnMachine(m)
    <2>1. a \in GpuRecord /\ b \in GpuRecord
      BY DEF OnMachine
    <2>2. PICK h : h = Filled(a, b)
      OBVIOUS
    <2>3. h \in GpuRecord /\ h.vendor = a.vendor /\ h.vram \in {a.vram, b.vram}
      BY <2>1, <2>2, FilledIn
    <2>4. h.vendor = "nvidia" =>
            \E k \in DOMAIN m.cards : m.cards[k].vendor = "nvidia" /\ m.cards[k].vram >= h.vram
      BY <1>2, <2>3 DEF OnMachine
    <2>5. h \in OnMachine(m)
      BY <2>3, <2>4 DEF OnMachine
    <2> QED BY <2>2, <2>5
  <1> QED BY <1>1, <1>2 DEF FillsUp

\* One card as a probe sees it, with no more memory than it has.
LEMMA SeenIsThere ==
  ASSUME NEW m, IsMachine(m), NEW k \in DOMAIN m.cards, NEW name \in STRING,
         NEW vram \in Nat, vram <= m.cards[k].vram, NEW cap \in Seq(Nat)
  PROVE  Seen(m.cards[k], name, vram, cap) \in OnMachine(m)
  <1>1. m.cards[k] \in CardRecord
    BY DEF IsMachine
  <1>2. PICK vendor \in STRING : vendor = m.cards[k].vendor
    BY <1>1 DEF CardRecord
  <1>3. PICK g : g = [vendor |-> vendor, name |-> name, vram |-> vram, cap |-> cap]
    OBVIOUS
  <1>4. g \in GpuRecord /\ g.vendor = vendor /\ g.vram = vram
    BY <1>3 DEF GpuRecord
  <1>5. g \in OnMachine(m)
    <2>1. g.vendor = "nvidia" => m.cards[k].vendor = "nvidia" /\ m.cards[k].vram >= g.vram
      BY <1>1, <1>2, <1>4 DEF CardRecord
    <2> QED BY <1>4, <2>1 DEF OnMachine
  <1> QED BY <1>2, <1>3, <1>5 DEF Seen

\* The cards a probe goes through are cards of the machine.
AreCards(s, m) ==
  /\ s \in Seq(CardRecord) /\ DOMAIN s = 1..Len(s)
  /\ \A i \in 1..Len(s) : s[i] \in CardRecord /\ \E k \in DOMAIN m.cards : m.cards[k] = s[i]

LEMMA CardsOfMachine ==
  ASSUME NEW m, IsMachine(m), NEW vendors
  PROVE  AreCards(CardsOf(m.cards, vendors), m)
  <1> DEFINE C == {c \in CardRecord : c.vendor \in vendors /\ \E i \in DOMAIN m.cards : m.cards[i] = c}
  <1>1. CardsOf(m.cards, vendors) \in Seq(C)
    BY CardsAreThere DEF IsMachine
  <1>2. PICK s \in Seq(C) : s = CardsOf(m.cards, vendors)
    BY <1>1
  <1>3. \A i \in 1..Len(s) : s[i] \in C
    OBVIOUS
  <1>4. s \in Seq(CardRecord)
    <2>1. C \subseteq CardRecord
      OBVIOUS
    <2> HIDE DEF C
    <2> QED BY <2>1
  <1> QED BY <1>2, <1>3, <1>4 DEF AreCards

\* nvidia-smi shows cards that are there,
LEMMA SmiIsThere ==
  ASSUME NEW m, IsMachine(m)
  PROVE  NvidiaSmi(m) \in Seq(OnMachine(m))
  <1>a. PICK s : s = CardsOf(m.cards, {"nvidia"}) /\ AreCards(s, m)
    BY CardsOfMachine
  <1>1. /\ s = CardsOf(m.cards, {"nvidia"}) /\ DOMAIN s = 1..Len(s)
        /\ \A i \in 1..Len(s) : s[i] \in CardRecord /\ \E k \in DOMAIN m.cards : m.cards[k] = s[i]
    BY <1>a DEF AreCards
  <1>2. ASSUME NEW i \in 1..Len(s)
        PROVE  Seen(s[i], s[i].name, s[i].vram, IF m.smi = "new" THEN s[i].cap ELSE <<>>) \in OnMachine(m)
    <2>1. PICK k \in DOMAIN m.cards : m.cards[k] = s[i]
      BY <1>1
    <2>b. s[i].cap \in Seq(Nat) /\ <<>> \in Seq(Nat)
      BY <1>1 DEF CardRecord
    <2>2. PICK cap \in Seq(Nat) : cap = IF m.smi = "new" THEN s[i].cap ELSE <<>>
      <3>1. CASE m.smi = "new"
        BY <2>b, <3>1
      <3>2. CASE m.smi # "new"
        BY <2>b, <3>2, Zenon
      <3> QED BY <3>1, <3>2
    <2>3. s[i].name \in STRING /\ s[i].vram \in Nat /\ s[i].vram <= m.cards[k].vram
      BY <1>1, <2>1 DEF CardRecord
    <2>4. Seen(m.cards[k], s[i].name, s[i].vram, cap) \in OnMachine(m)
      BY <2>3, SeenIsThere
    <2> QED BY <2>1, <2>2, <2>4
  <1>3. PICK r : r = [i \in 1..Len(s) |-> Seen(s[i], s[i].name, s[i].vram, IF m.smi = "new" THEN s[i].cap ELSE <<>>)]
    OBVIOUS
  <1>4. r \in [1..Len(s) -> OnMachine(m)]
    BY <1>2, <1>3
  <1>5. r \in Seq(OnMachine(m)) /\ <<>> \in Seq(OnMachine(m))
    BY <1>4
  <1>6. NvidiaSmi(m) = <<>> \/ NvidiaSmi(m) = r
    BY <1>1, <1>3 DEF NvidiaSmi
  <1> QED BY <1>5, <1>6

\* Windows as well, with 32 bits of memory at most,
LEMMA WindowsIsThere ==
  ASSUME NEW m, IsMachine(m)
  PROVE  WindowsVideo(m) \in Seq(OnMachine(m))
  <1>a. PICK s : s = CardsOf(m.cards, Vendors) /\ AreCards(s, m)
    BY CardsOfMachine
  <1>1. /\ s = CardsOf(m.cards, Vendors) /\ DOMAIN s = 1..Len(s)
        /\ \A i \in 1..Len(s) : s[i] \in CardRecord /\ \E k \in DOMAIN m.cards : m.cards[k] = s[i]
    BY <1>a DEF AreCards
  <1>2. ASSUME NEW i \in 1..Len(s)
        PROVE  Seen(s[i], s[i].name, IF s[i].vram > 4095 THEN 4095 ELSE s[i].vram, <<>>) \in OnMachine(m)
    <2>1. PICK k \in DOMAIN m.cards : m.cards[k] = s[i]
      BY <1>1
    <2>2. s[i].name \in STRING /\ s[i].vram \in Nat
      BY <1>1 DEF CardRecord
    <2>3. PICK v \in Nat : v = (IF s[i].vram > 4095 THEN 4095 ELSE s[i].vram) /\ v <= s[i].vram
      BY <2>2
    <2>4. Seen(m.cards[k], s[i].name, v, <<>>) \in OnMachine(m)
      <3>1. <<>> \in Seq(Nat) /\ v <= m.cards[k].vram
        BY <2>1, <2>3
      <3>2. PICK cap \in Seq(Nat) : cap = <<>>
        BY <3>1
      <3>3. Seen(m.cards[k], s[i].name, v, cap) \in OnMachine(m)
        BY <2>2, <3>1, SeenIsThere
      <3> QED BY <3>2, <3>3
    <2> QED BY <2>1, <2>3, <2>4
  <1>3. PICK r : r = [i \in 1..Len(s) |-> Seen(s[i], s[i].name, IF s[i].vram > 4095 THEN 4095 ELSE s[i].vram, <<>>)]
    OBVIOUS
  <1>4. r \in [1..Len(s) -> OnMachine(m)]
    BY <1>2, <1>3
  <1>5. r \in Seq(OnMachine(m)) /\ <<>> \in Seq(OnMachine(m))
    BY <1>4
  <1>6. WindowsVideo(m) = <<>> \/ WindowsVideo(m) = r
    BY <1>1, <1>3 DEF WindowsVideo
  <1> QED BY <1>5, <1>6

\* and lspci, without memory.
LEMMA LspciIsThere ==
  ASSUME NEW m, IsMachine(m)
  PROVE  Lspci(m) \in Seq(OnMachine(m))
  <1>a. PICK s : s = CardsOf(m.cards, Vendors) /\ AreCards(s, m)
    BY CardsOfMachine
  <1>1. /\ s = CardsOf(m.cards, Vendors) /\ DOMAIN s = 1..Len(s)
        /\ \A i \in 1..Len(s) : s[i] \in CardRecord /\ \E k \in DOMAIN m.cards : m.cards[k] = s[i]
    BY <1>a DEF AreCards
  <1>2. ASSUME NEW i \in 1..Len(s) PROVE Seen(s[i], s[i].slot, 0, <<>>) \in OnMachine(m)
    <2>1. PICK k \in DOMAIN m.cards : m.cards[k] = s[i]
      BY <1>1
    <2>2. s[i].slot \in STRING /\ 0 <= m.cards[k].vram
      BY <1>1, <2>1 DEF CardRecord
    <2>b. <<>> \in Seq(Nat)
      OBVIOUS
    <2>3. PICK cap \in Seq(Nat) : cap = <<>>
      BY <2>b
    <2>4. Seen(m.cards[k], s[i].slot, 0, cap) \in OnMachine(m)
      BY <2>2, SeenIsThere, 0 \in Nat
    <2> QED BY <2>1, <2>3, <2>4
  <1>3. PICK r : r = [i \in 1..Len(s) |-> Seen(s[i], s[i].slot, 0, <<>>)]
    OBVIOUS
  <1>4. r \in [1..Len(s) -> OnMachine(m)]
    BY <1>2, <1>3
  <1>5. r \in Seq(OnMachine(m)) /\ <<>> \in Seq(OnMachine(m))
    BY <1>4
  <1>6. Lspci(m) = <<>> \/ Lspci(m) = r
    BY <1>1, <1>3 DEF Lspci
  <1> QED BY <1>5, <1>6

\* The devices of torch fill in cards of their vendor, or are added as cards that are there.
LEMMA TorchIsThere ==
  ASSUME NEW m, IsMachine(m), NEW gpus \in Seq(OnMachine(m))
  PROVE  AttachTorch(gpus, m) \in Seq(OnMachine(m))
  <1> DEFINE mine(i) == Cardinality({j \in 1..i : gpus[j].vendor = m.torch.vendor})
  <1>1. PICK ds \in Seq(GpuRecord) : ds = m.torch.devices
    BY DEF IsMachine
  <1>2. ds \in Seq(OnMachine(m)) /\ \A i \in 1..Len(ds) : ds[i] \in OnMachine(m) /\ ds[i].vendor = m.torch.vendor
    <2>1. \A i \in 1..Len(ds) : ds[i] \in GpuRecord
      OBVIOUS
    <2>2. \A i \in 1..Len(ds) : ds[i].vendor = m.torch.vendor
      BY <1>1 DEF IsMachine
    <2>3. \A i \in 1..Len(ds) : ds[i].vendor = "nvidia" =>
            \E k \in DOMAIN m.cards : m.cards[k].vendor = "nvidia" /\ m.cards[k].vram >= ds[i].vram
      BY <1>1 DEF IsMachine
    <2>4. \A i \in 1..Len(ds) : ds[i] \in OnMachine(m)
      BY <2>1, <2>3 DEF OnMachine
    <2>5. ds \in [1..Len(ds) -> OnMachine(m)] /\ Len(ds) \in Nat
      BY <2>4
    <2> QED BY <2>2, <2>4, <2>5
  <1>3. PICK l \in Nat : l = Len(gpus) /\ DOMAIN gpus = 1..l
    OBVIOUS
  <1>4. ASSUME NEW i \in 0..l
        PROVE  mine(i) \in Nat /\ (i # 0 /\ gpus[i].vendor = m.torch.vendor => mine(i) >= 1)
    <2> DEFINE M == {j \in 1..i : gpus[j].vendor = m.torch.vendor}
    <2>1. IsFiniteSet(M) /\ Cardinality(M) \in Nat
      <3>1. IsFiniteSet(1..i)
        BY FS_Interval
      <3> QED BY <3>1, FS_Subset, FS_CardinalityType
    <2>2. i # 0 /\ gpus[i].vendor = m.torch.vendor => Cardinality(M) # 0
      <3>1. i # 0 /\ gpus[i].vendor = m.torch.vendor => i \in M
        OBVIOUS
      <3> QED BY <2>1, <3>1, FS_EmptySet
    <2> QED BY <2>1, <2>2
  <1>5. \A i \in 0..l : mine(i) \in Nat
    BY <1>4
  <1>6. ASSUME NEW i \in 1..l
        PROVE  (IF gpus[i].vendor = m.torch.vendor /\ mine(i) <= Len(ds)
                THEN Filled(gpus[i], ds[mine(i)]) ELSE gpus[i]) \in OnMachine(m)
    <2>1. gpus[i] \in OnMachine(m)
      BY <1>3
    <2>2. CASE gpus[i].vendor = m.torch.vendor /\ mine(i) <= Len(ds)
      <3>1. mine(i) \in 1..Len(ds)
        BY <1>4, <2>2
      <3>2. PICK d \in OnMachine(m) : d = ds[mine(i)] /\ d.vendor = gpus[i].vendor
        BY <1>2, <2>2, <3>1
      <3>3. Filled(gpus[i], d) \in OnMachine(m)
        BY <2>1, <3>2, MachineFillsUp DEF FillsUp
      <3> QED BY <2>2, <3>2, <3>3
    <2>3. CASE ~(gpus[i].vendor = m.torch.vendor /\ mine(i) <= Len(ds))
      BY <2>1, <2>3
    <2> QED BY <2>2, <2>3
  <1>7. PICK r : r = [i \in 1..l |-> IF gpus[i].vendor = m.torch.vendor /\ mine(i) <= Len(ds)
                                     THEN Filled(gpus[i], ds[mine(i)]) ELSE gpus[i]]
    OBVIOUS
  <1>8. r \in Seq(OnMachine(m))
    <2> HIDE DEF mine
    <2>1. r \in [1..l -> OnMachine(m)]
      BY <1>6, <1>7
    <2> QED BY <2>1
  <1>9. PICK n \in Nat : n = mine(l)
    <2> HIDE DEF mine
    <2>1. l \in 0..l
      BY <1>3
    <2> QED BY <1>5, <2>1
  <1>10. SubSeq(ds, n + 1, Len(ds)) \in Seq(OnMachine(m))
    <2>1. PICK S : S = OnMachine(m)
      OBVIOUS
    <2>2. PICK t \in Seq(S) : t = ds /\ \A i \in (n + 1)..Len(ds) : t[i] \in S
      BY <1>2, <2>1
    <2>3. SubSeq(t, n + 1, Len(ds)) \in Seq(S)
      BY <2>2, SubSeqProperties
    <2> QED BY <2>1, <2>2, <2>3
  <1>11. AttachTorch(gpus, m) = r \o SubSeq(ds, n + 1, Len(ds))
    BY <1>1, <1>3, <1>7, <1>9 DEF AttachTorch
  <1> QED BY <1>8, <1>10, <1>11

\* Every entry of the report stands for a card that is there.
LEMMA ReportIsThere ==
  ASSUME NEW m, IsMachine(m)
  PROVE  CollectReport(m).gpus \in Seq(OnMachine(m))
  <1>1. PICK S : S = OnMachine(m) /\ FillsUp(S)
    BY MachineFillsUp
  <1>a. NvidiaSmi(m) \in Seq(S) /\ WindowsVideo(m) \in Seq(S) /\ Lspci(m) \in Seq(S)
    BY <1>1, SmiIsThere, WindowsIsThere, LspciIsThere
  <1>b. PICK a \in Seq(S), b \in Seq(S), c \in Seq(S) : a = NvidiaSmi(m) /\ b = WindowsVideo(m) /\ c = Lspci(m)
    BY <1>a
  <1>c. a \o b \o c \in Seq(S)
    OBVIOUS
  <1>2. PICK t \in Seq(S) : t = NvidiaSmi(m) \o WindowsVideo(m) \o Lspci(m)
    BY <1>b, <1>c
  <1>3. PICK u \in Seq(S) : u = Merged(t)
    BY <1>1, MergedStays
  <1>4. PICK v \in Seq(S) : v = AttachTorch(u, m)
    BY <1>1, TorchIsThere
  <1>5. Merged(v) \in Seq(S)
    BY <1>1, MergedStays
  <1>6. CollectReport(m).gpus = Merged(v)
    BY <1>2, <1>3, <1>4 DEF CollectReport
  <1> QED BY <1>1, <1>5, <1>6

\* The best card of a vendor is one of the entries, whenever there is one.
LEMMA BestIsThere ==
  ASSUME NEW S, S \subseteq GpuRecord, NEW gpus \in Seq(S), NEW vendor, BestGpu(gpus, vendor) # NoGpu
  PROVE  BestGpu(gpus, vendor) \in S /\ BestGpu(gpus, vendor).vendor = vendor
  <1> DEFINE mine == {x \in DOMAIN gpus : gpus[x].vendor = vendor}
             most == {x \in mine : \A j \in mine : gpus[j].vram <= gpus[x].vram}
  <1>0. PICK l \in Nat : l = Len(gpus) /\ DOMAIN gpus = 1..l
    OBVIOUS
  <1>1. mine # {}
    BY DEF BestGpu
  <1>2. \A x \in mine : gpus[x].vram \in Nat /\ gpus[x] \in S /\ x \in 1..l /\ gpus[x].vendor = vendor
    BY <1>0 DEF GpuRecord
  <1> DEFINE upto(n) == {x \in mine : x <= n}
             IsTop(x, n) == x \in upto(n) /\ \A j \in upto(n) : gpus[j].vram <= gpus[x].vram
             U == {n \in 0..l : upto(n) = {} \/ \E x : IsTop(x, n)}
  <1> HIDE DEF mine
  <1>3. 0 \in U
    BY <1>0, <1>2
  <1>4. ASSUME NEW n \in 1..l, n - 1 \in U PROVE n \in U
    <2>1. CASE n \notin mine
      <3>1. upto(n) = upto(n - 1)
        BY <1>2, <2>1
      <3> HIDE DEF upto
      <3> QED BY <1>4, <3>1
    <2>2. CASE n \in mine /\ upto(n - 1) = {}
      <3>1. upto(n) = {n}
        <4>1. n \in upto(n)
          BY <2>2
        <4>2. ASSUME NEW x \in upto(n) PROVE x = n
          <5>1. x \in mine /\ x \in 1..l /\ x <= n
            BY <1>2
          <5>2. x <= n - 1 => x \in upto(n - 1)
            BY <5>1
          <5> QED BY <2>2, <5>1, <5>2
        <4> HIDE DEF upto
        <4> QED BY <4>1, <4>2
      <3>2. gpus[n].vram <= gpus[n].vram
        BY <1>2, <2>2
      <3> HIDE DEF upto
      <3>3. IsTop(n, n)
        BY <3>1, <3>2
      <3> QED BY <3>3
    <2>3. CASE n \in mine /\ upto(n - 1) # {}
      <3>1. PICK x : IsTop(x, n - 1)
        <4> HIDE DEF upto, IsTop
        <4> QED BY <1>4, <2>3
      <3>2. \A j \in upto(n) : j = n \/ j \in upto(n - 1)
        BY <1>2
      <3>3. x \in upto(n) /\ n \in upto(n)
        BY <1>2, <2>3, <3>1
      <3>a. gpus[n].vram \in Nat /\ gpus[x].vram \in Nat /\ \A j \in upto(n) : gpus[j].vram \in Nat
        BY <1>2, <3>3
      <3>4. CASE gpus[n].vram <= gpus[x].vram
        <4>1. IsTop(x, n)
          <5> HIDE DEF upto
          <5> QED BY <3>1, <3>2, <3>3, <3>4
        <4> HIDE DEF IsTop
        <4> QED BY <4>1
      <3>5. CASE gpus[n].vram > gpus[x].vram
        <4>1. IsTop(n, n)
          <5> HIDE DEF upto
          <5> QED BY <3>a, <3>1, <3>2, <3>3, <3>5
        <4> HIDE DEF IsTop
        <4> QED BY <4>1
      <3> QED BY <3>a, <3>4, <3>5
    <2> QED BY <2>1, <2>2, <2>3
  <1>5. upto(l) = {} \/ \E x : IsTop(x, l)
    <2>1. \A n \in 0..l : n \in U
      <3> HIDE DEF U
      <3> QED BY <1>3, <1>4, UpTo
    <2>2. l \in 0..l
      BY <1>0
    <2>3. l \in U
      BY <2>1, <2>2
    <2> HIDE DEF upto, IsTop
    <2> QED BY <2>3
  <1>6. most # {}
    <2>1. upto(l) = mine
      BY <1>2
    <2> QED BY <1>1, <1>5, <2>1
  <1>7. most \subseteq Nat
    BY <1>2
  <1>8. PICK i : i = CHOOSE x \in most : \A j \in most : x <= j
    OBVIOUS
  <1>9. i \in most
    <2> HIDE DEF most
    <2>1. \E x \in most : \A y \in most : x <= y
      BY <1>6, <1>7, LeastNumber
    <2> QED BY <1>8, <2>1
  <1>10. BestGpu(gpus, vendor) = gpus[i]
    BY <1>1, <1>8 DEF BestGpu, mine
  <1> QED BY <1>2, <1>9, <1>10

\* A profile the resolver considers: CUDA only with a card that is there.
IsCandidate(c, m) ==
  /\ c.id \in {"nvidia-cuda", "amd-rocm-linux", "cpu-safe"}
  /\ c.id = "nvidia-cuda" => c.gpu \in OnMachine(m) /\ c.gpu.vendor = "nvidia"

FitCandidates(c, m) ==
  /\ 1 \in DOMAIN c /\ \A i \in DOMAIN c : IsCandidate(c[i], m)
  /\ \E i \in DOMAIN c : c[i].id = "cpu-safe"
  /\ \A i, j \in DOMAIN c : c[i].id = c[j].id => i = j

\* The four shapes the list of candidates can have.
LEMMA ShapeFits ==
  ASSUME NEW m, NEW n, NEW r, NEW s, NEW c,
         IsCandidate(r, m), r.id = "amd-rocm-linux", IsCandidate(s, m), s.id = "cpu-safe",
         \/ c = <<s>> \/ c = <<r, s>>
         \/ (c = <<n, s>> \/ c = <<n, r, s>>) /\ IsCandidate(n, m) /\ n.id = "nvidia-cuda"
  PROVE  FitCandidates(c, m)
  <1>1. CASE c = <<s>>
    BY <1>1 DEF FitCandidates
  <1>2. CASE c = <<r, s>>
    BY <1>2 DEF FitCandidates
  <1>3. CASE c = <<n, s>> /\ IsCandidate(n, m) /\ n.id = "nvidia-cuda"
    BY <1>3 DEF FitCandidates
  <1>4. CASE c = <<n, r, s>> /\ IsCandidate(n, m) /\ n.id = "nvidia-cuda"
    BY <1>4 DEF FitCandidates
  <1> QED BY <1>1, <1>2, <1>3, <1>4

\* Lists of up to three elements, put together.
LEMMA ShortLists ==
  ASSUME NEW x, NEW y, NEW z
  PROVE  /\ <<>> \o <<>> = <<>> /\ <<>> \o <<x>> = <<x>> /\ <<x>> \o <<>> = <<x>> /\ <<x>> \o <<y>> = <<x, y>>
         /\ Append(<<>>, x) = <<x>> /\ Append(<<x>>, y) = <<x, y>> /\ Append(<<x, y>>, z) = <<x, y, z>>
  <1> DEFINE S == {x, y, z}
  <1>0. <<>> \in Seq(S) /\ <<x>> \in Seq(S)
    OBVIOUS
  <1>1. <<>> \o <<>> = <<>>
    BY <1>0, ConcatEmptySeq
  <1>2. <<>> \o <<x>> = <<x>> /\ <<x>> \o <<>> = <<x>>
    BY <1>0, ConcatEmptySeq
  <1>a. x \in S /\ y \in S /\ z \in S /\ <<x, y>> \in Seq(S) /\ <<y>> \in Seq(S) /\ <<x, y, z>> \in Seq(S)
    OBVIOUS
  <1> HIDE DEF S
  <1>b. Len(<<x>>) = 1 /\ Len(<<y>>) = 1 /\ Len(<<x, y>>) = 2 /\ Len(<<x, y, z>>) = 3
    OBVIOUS
  <1>c. <<x>>[1] = x /\ <<y>>[1] = y /\ <<x, y>>[1] = x /\ <<x, y>>[2] = y
    OBVIOUS
  <1>d. <<x, y, z>>[1] = x /\ <<x, y, z>>[2] = y /\ <<x, y, z>>[3] = z
    OBVIOUS
  <1>3. <<x>> \o <<y>> = <<x, y>>
    <2>1. PICK s : s = <<x>> \o <<y>>
      OBVIOUS
    <2>2. s \in Seq(S) /\ Len(s) = 2 /\ s[1] = x /\ s[2] = y
      BY <1>0, <1>a, <1>b, <1>c, <2>1, ConcatProperties
    <2>3. \A i \in 1..2 : s[i] = <<x, y>>[i]
      BY <1>c, <2>2
    <2> QED BY <1>a, <1>b, <2>1, <2>2, <2>3, SeqEqual
  <1>4. Append(<<>>, x) = <<x>>
    OBVIOUS
  <1>5. Append(<<x>>, y) = <<x, y>>
    <2>1. PICK s : s = Append(<<x>>, y)
      OBVIOUS
    <2>2. s \in Seq(S) /\ Len(s) = 2 /\ s[1] = x /\ s[2] = y
      BY <1>0, <1>a, <1>b, <1>c, <2>1, AppendProperties
    <2>3. \A i \in 1..2 : s[i] = <<x, y>>[i]
      BY <1>c, <2>2
    <2> QED BY <1>a, <1>b, <2>1, <2>2, <2>3, SeqEqual
  <1>6. Append(<<x, y>>, z) = <<x, y, z>>
    <2>1. PICK s : s = Append(<<x, y>>, z)
      OBVIOUS
    <2>2. s \in Seq(S) /\ Len(s) = 3 /\ s[1] = x /\ s[2] = y /\ s[3] = z
      BY <1>a, <1>b, <1>c, <2>1, AppendProperties
    <2>3. \A i \in 1..3 : s[i] = <<x, y, z>>[i]
      BY <1>d, <2>2
    <2> QED BY <1>a, <1>b, <2>1, <2>2, <2>3, SeqEqual
  <1> QED BY <1>1, <1>2, <1>3, <1>4, <1>5, <1>6, Zenon

\* The resolver finds a profile for every machine, each at most once.
LEMMA CandidatesFit ==
  ASSUME NEW m, IsMachine(m)
  PROVE  FitCandidates(Candidates(CollectReport(m)), m)
  <1>1. PICK r : r = CollectReport(m)
    OBVIOUS
  <1>2. PICK n : n = Candidate("nvidia-cuda", BestGpu(r.gpus, "nvidia"))
    OBVIOUS
  <1>3. PICK a : a = Candidate("amd-rocm-linux", BestGpu(r.gpus, "amd"))
    OBVIOUS
  <1>4. PICK b : b = Candidate("cpu-safe", BestGpu(r.gpus, "amd"))
    OBVIOUS
  <1>5. PICK s : s = Candidate("cpu-safe", NoGpu)
    OBVIOUS
  <1>6. /\ n.id = "nvidia-cuda" /\ a.id = "amd-rocm-linux" /\ b.id = "cpu-safe" /\ s.id = "cpu-safe"
        /\ n.gpu = BestGpu(r.gpus, "nvidia")
    BY <1>2, <1>3, <1>4, <1>5 DEF Candidate
  <1>7. IsCandidate(a, m) /\ IsCandidate(b, m) /\ IsCandidate(s, m)
    BY <1>6 DEF IsCandidate
  <1>8. BestGpu(r.gpus, "nvidia") # NoGpu => IsCandidate(n, m)
    <2>1. r.gpus \in Seq(OnMachine(m)) /\ OnMachine(m) \subseteq GpuRecord
      BY <1>1, ReportIsThere DEF OnMachine
    <2> QED BY <1>6, <2>1, BestIsThere DEF IsCandidate
  <1> DEFINE first  == IF BestGpu(r.gpus, "nvidia") # NoGpu /\ r.os # "darwin" THEN <<n>> ELSE <<>>
             second == IF BestGpu(r.gpus, "amd") = NoGpu THEN <<>>
                       ELSE IF r.os = "linux" /\ r.rocm \in {"official", "visible"} THEN <<a>> ELSE <<b>>
             safe(f) == \E i \in DOMAIN f : f[i].id = "cpu-safe"
  <1>9. PICK f : f = first \o second
    OBVIOUS
  <1>10. Candidates(r) = IF safe(f) THEN f ELSE Append(f, s)
    BY <1>2, <1>3, <1>4, <1>5, <1>9 DEF Candidates
  <1>a. Append(<<>>, s) = <<s>> /\ Append(<<a>>, s) = <<a, s>> /\ Append(<<n>>, s) = <<n, s>> /\ Append(<<n, a>>, s) = <<n, a, s>>
    BY ShortLists, Zenon
  <1>11. f \in {<<>>, <<a>>, <<b>>} \/ (IsCandidate(n, m) /\ f \in {<<n>>, <<n, a>>, <<n, b>>})
    <2>1. second \in {<<>>, <<a>>, <<b>>}
      BY Zenon
    <2>2. CASE first = <<>>
      <3>1. \A t \in {<<>>, <<a>>, <<b>>} : <<>> \o t = t
        BY ShortLists, Zenon
      <3> HIDE DEF first, second
      <3> QED BY <1>9, <2>1, <2>2, <3>1, Zenon
    <2>3. CASE first = <<n>> /\ IsCandidate(n, m)
      <3>1. <<n>> \o <<>> = <<n>> /\ <<n>> \o <<a>> = <<n, a>> /\ <<n>> \o <<b>> = <<n, b>>
        BY ShortLists, Zenon
      <3> HIDE DEF first, second
      <3> QED BY <1>9, <2>1, <2>3, <3>1, Zenon
    <2> QED BY <1>8, <2>2, <2>3
  <1>12. CASE f = <<>> \/ f = <<a>>
    <2>1. ~safe(f)
      BY <1>6, <1>12
    <2>2. Candidates(r) = <<s>> \/ Candidates(r) = <<a, s>>
      BY <1>a, <1>10, <1>12, <2>1
    <2> QED BY <1>1, <1>6, <1>7, <2>2, ShapeFits
  <1>13. CASE f = <<b>>
    <2>1. safe(f)
      BY <1>6, <1>13
    <2>2. Candidates(r) = <<b>>
      BY <1>10, <1>13, <2>1
    <2> QED BY <1>1, <1>6, <1>7, <2>2, ShapeFits
  <1>14. CASE IsCandidate(n, m) /\ (f = <<n>> \/ f = <<n, a>>)
    <2>1. ~safe(f)
      BY <1>6, <1>14
    <2>2. Candidates(r) = <<n, s>> \/ Candidates(r) = <<n, a, s>>
      BY <1>a, <1>10, <1>14, <2>1
    <2> QED BY <1>1, <1>6, <1>7, <1>14, <2>2, ShapeFits
  <1>15. CASE IsCandidate(n, m) /\ f = <<n, b>>
    <2>1. safe(f)
      <3>1. 2 \in DOMAIN f /\ f[2] = b
        BY <1>15
      <3> QED BY <1>6, <3>1
    <2>2. Candidates(r) = <<n, b>>
      BY <1>10, <1>15, <2>1
    <2> QED BY <1>1, <1>6, <1>7, <1>15, <2>2, ShapeFits
  <1> QED BY <1>11, <1>12, <1>13, <1>14, <1>15

\* What the defaults of a profile switch on, and for which card.
FitDefaults(d, id, gpu) ==
  /\ d.backend = CASE id = "nvidia-cuda" -> "cuda" [] id = "amd-rocm-linux" -> "rocm" [] id = "cpu-safe" -> "cpu"
  /\ d.attention \in {"auto", "math"} /\ d.cache \in {"off", "fb"}
  /\ d.compile => id = "nvidia-cuda"
  /\ d.blackwell => id = "nvidia-cuda"
  /\ d.nunchaku => id = "nvidia-cuda" /\ AmperePlus(gpu) /\ Tier(gpu) >= 2

\* The defaults of each profile.
LEMMA DefaultsFit ==
  ASSUME NEW id \in {"nvidia-cuda", "amd-rocm-linux", "cpu-safe"}, NEW gpu
  PROVE  FitDefaults(RuntimeDefaults(id, gpu), id, gpu)
  <1>1. PICK d : d = RuntimeDefaults(id, gpu)
    OBVIOUS
  <1>2. CASE id = "nvidia-cuda"
    BY <1>1, <1>2 DEF RuntimeDefaults, FitDefaults
  <1>3. CASE id = "amd-rocm-linux"
    BY <1>1, <1>3 DEF RuntimeDefaults, FitDefaults
  <1>4. CASE id = "cpu-safe"
    BY <1>1, <1>4 DEF RuntimeDefaults, FitDefaults
  <1> QED BY <1>2, <1>3, <1>4

\* What may be switched on, and what a model may be offered for.
FitProfile(p, m) ==
  /\ p.backend \in {"cuda", "rocm", "cpu"} /\ p.stub \in BOOLEAN
  /\ p.features \cap p.disabled = {}
  /\ p.backend = "cuda" => CardFor(p, m)
  /\ p.features # {} => ~p.stub /\ p.backend = "cuda"
  /\ "nunchaku_cuda" \in p.features => AmperePlus(p.gpu) /\ p.gpu.vram >= 8000
  /\ "nunchaku_cuda" \notin p.disabled => AmperePlus(p.gpu) /\ p.backend = "cuda"
  /\ p.policy.recommended \cap p.policy.hidden = {}

\* Stub mode turns off what the defaults had switched on.
LEMMA ActiveFits ==
  ASSUME NEW id \in {"nvidia-cuda", "amd-rocm-linux", "cpu-safe"}, NEW gpu, NEW stub \in BOOLEAN,
         id = "cpu-safe" => stub
  PROVE  LET d == ActiveDefaults(RuntimeDefaults(id, gpu), stub) IN
         /\ FitDefaults(d, IF stub THEN "cpu-safe" ELSE id, gpu)
         /\ d.backend = "cuda" => ~stub /\ id = "nvidia-cuda"
  <1>1. CASE ~stub
    BY <1>1, DefaultsFit DEF ActiveDefaults, FitDefaults
  <1>2. CASE stub
    <2>1. CASE id = "nvidia-cuda"
      BY <1>2, <2>1 DEF ActiveDefaults, RuntimeDefaults, FitDefaults
    <2>2. CASE id = "amd-rocm-linux"
      BY <1>2, <2>2 DEF ActiveDefaults, RuntimeDefaults, FitDefaults
    <2>3. CASE id = "cpu-safe"
      BY <1>2, <2>3 DEF ActiveDefaults, RuntimeDefaults, FitDefaults
    <2> QED BY <2>1, <2>2, <2>3
  <1> QED BY <1>1, <1>2

\* A profile that a candidate resolves to fits the machine, stub mode or not.
LEMMA CapabilityFits ==
  ASSUME NEW m, NEW c, IsCandidate(c, m), NEW stubMode \in BOOLEAN
  PROVE  /\ FitProfile(Capability(Resolved(c), stubMode), m)
         /\ ~stubMode => FitDefaults(Capability(Resolved(c), stubMode).defaults, c.id, c.gpu)
  <1>1. PICK q : q = Resolved(c)
    OBVIOUS
  <1>2. PICK stub \in BOOLEAN : stub = (stubMode \/ c.id = "cpu-safe")
    OBVIOUS
  <1>3. PICK raw : raw = RuntimeDefaults(c.id, c.gpu)
    OBVIOUS
  <1>4. /\ q.id = c.id /\ q.gpu = c.gpu /\ q.defaults = raw /\ q.optional = OptionalFeatures(c.id, raw)
        /\ q.disabled = ProfileDisabled(c.id) /\ q.policy = ModelPolicy(raw, Tier(c.gpu))
    BY <1>1, <1>3 DEF Resolved
  <1>5. PICK d : d = ActiveDefaults(raw, stub)
    OBVIOUS
  <1>6. c.id \in {"nvidia-cuda", "amd-rocm-linux", "cpu-safe"}
    BY DEF IsCandidate
  <1>7. FitDefaults(d, IF stub THEN "cpu-safe" ELSE c.id, c.gpu) /\ (d.backend = "cuda" => ~stub /\ c.id = "nvidia-cuda")
    BY <1>2, <1>3, <1>5, <1>6, ActiveFits
  <1>8. PICK p : p = Capability(q, stubMode)
    OBVIOUS
  <1>9. PICK off : off = DisabledFeatures(q, d, stub)
    OBVIOUS
  <1>10. /\ p.stub = stub /\ p.backend = d.backend /\ p.gpu = c.gpu /\ p.defaults = d /\ p.disabled = off
         /\ p.features = Features(q, d, off) /\ p.policy = q.policy
    BY <1>2, <1>4, <1>5, <1>8, <1>9 DEF Capability
  <1>11. /\ d.backend \in {"cuda", "rocm", "cpu"}
         /\ d.backend = "cuda" => ~stub /\ c.id = "nvidia-cuda"
         /\ d.compile \/ d.blackwell \/ d.nunchaku => d.backend = "cuda"
         /\ d.nunchaku => AmperePlus(c.gpu) /\ Tier(c.gpu) >= 2
    <2>1. CASE stub
      BY <1>7, <2>1 DEF FitDefaults
    <2>2. CASE ~stub
      BY <1>6, <1>7, <2>2 DEF FitDefaults
    <2> QED BY <2>1, <2>2
  <1>12. /\ "blackwell_fast_paths" \in off => d.backend # "cuda"
         /\ "nunchaku_cuda" \notin off => d.nunchaku
    BY <1>4, <1>6, <1>9, <1>11 DEF DisabledFeatures, ProfileDisabled, CudaOnly, CudaFeatures
  <1>13. p.features \cap p.disabled = {}
    BY <1>10, <1>11, <1>12 DEF Features
  <1>14. p.features # {} => ~p.stub /\ p.backend = "cuda"
    BY <1>10, <1>11 DEF Features
  <1>15. "nunchaku_cuda" \in p.features => "nunchaku_cuda" \notin off
    BY <1>10, <1>13
  <1>16. p.backend = "cuda" => CardFor(p, m) /\ c.gpu \in GpuRecord
    <2> SUFFICES ASSUME p.backend = "cuda" PROVE CardFor(p, m) /\ c.gpu \in GpuRecord
      OBVIOUS
    <2>1. c.gpu \in OnMachine(m) /\ c.gpu.vendor = "nvidia"
      BY <1>10, <1>11 DEF IsCandidate
    <2> QED BY <1>10, <2>1 DEF CardFor, OnMachine
  <1>17. d.nunchaku => AmperePlus(p.gpu) /\ p.gpu.vram >= 8000
    <2> SUFFICES ASSUME d.nunchaku PROVE AmperePlus(p.gpu) /\ p.gpu.vram >= 8000
      OBVIOUS
    <2>1. PICK v \in Nat : v = c.gpu.vram
      BY <1>10, <1>11, <1>16 DEF GpuRecord
    <2>2. Tier(c.gpu) >= 2 => v >= 8000
      <3>1. v = 0 => Tier(c.gpu) = 0
        BY <2>1 DEF Tier
      <3>2. v # 0 /\ v < 8000 => Tier(c.gpu) = 1
        BY <2>1 DEF Tier
      <3> QED BY <3>1, <3>2
    <2> QED BY <1>10, <1>11, <2>1, <2>2
  <1>18. p.policy.recommended \cap p.policy.hidden = {}
    BY <1>4, <1>10 DEF ModelPolicy
  <1>19. FitProfile(p, m)
    BY <1>2, <1>10, <1>11, <1>12, <1>13, <1>14, <1>15, <1>16, <1>17, <1>18 DEF FitProfile
  <1>20. ~stubMode => FitDefaults(p.defaults, c.id, c.gpu)
    <2>1. CASE stub
      <3>1. ~stubMode => c.id = "cpu-safe"
        BY <1>2, <2>1
      <3> QED BY <1>7, <1>10, <2>1, <3>1
    <2> QED BY <1>7, <1>10, <2>1
  <1> QED BY <1>1, <1>8, <1>19, <1>20

\* A model is offered for real, or recommended, where it can run.
LEMMA FitsOffer ==
  ASSUME NEW m, NEW p, FitProfile(p, m), NEW d
  PROVE  /\ RuntimeMode(d, p) = "real" /\ d.family # "gguf" =>
              /\ p.backend \in {"cuda", "rocm"}
              /\ Nunchaku(d.quant) => AmperePlus(p.gpu) /\ p.backend = "cuda"
         /\ Recommendation(d, p) = "recommended" => Available(d, p) /\ d.family \notin p.policy.hidden
  <1>1. p.backend \in {"cuda", "rocm", "cpu"}
    BY DEF FitProfile
  <1>2. RuntimeMode(d, p) = "real" => ~p.stub /\ Available(d, p)
    BY DEF RuntimeMode
  <1>3. ASSUME RuntimeMode(d, p) = "real", d.family # "gguf" PROVE ~Unavailable(d, p)
    BY <1>2, <1>3 DEF Available
  <1>4. ~Unavailable(d, p) => p.backend # "cpu" /\ (Nunchaku(d.quant) => "nunchaku_cuda" \notin p.disabled)
    BY DEF Unavailable
  <1>5. Recommendation(d, p) = "recommended" =>
          RuntimeMode(d, p) = "real" /\ d.family \in p.policy.recommended
    <2>1. RuntimeMode(d, p) \in {"stub", "real", "disabled"}
      BY DEF RuntimeMode
    <2> QED BY <2>1 DEF Recommendation
  <1> QED BY <1>1, <1>2, <1>3, <1>4, <1>5 DEF FitProfile

\* Whatever the machine, what is switched on and offered there fits it.
LEMMA MachineFits ==
  ASSUME NEW m, IsMachine(m), NEW stubMode \in BOOLEAN
  PROVE  /\ FitProfile(Profile(m, stubMode), m)
         /\ LET c == Candidates(CollectReport(m)) IN
            FitCandidates(c, m) /\ \A i \in DOMAIN c : FitProfile(Capability(Resolved(c[i]), stubMode), m)
  <1>1. PICK c : c = Candidates(CollectReport(m))
    OBVIOUS
  <1>2. FitCandidates(c, m)
    BY <1>1, CandidatesFit
  <1>3. \A i \in DOMAIN c : IsCandidate(c[i], m)
    BY <1>2 DEF FitCandidates
  <1>4. ASSUME NEW i \in DOMAIN c PROVE FitProfile(Capability(Resolved(c[i]), stubMode), m)
    BY <1>3, CapabilityFits
  <1>5. Profile(m, stubMode) = Capability(Resolved(c[1]), stubMode) /\ 1 \in DOMAIN c
    BY <1>1, <1>2 DEF Profile, ResolveProfile, FitCandidates
  <1> QED BY <1>1, <1>2, <1>4, <1>5

\* The startup tunes the knobs to values that the settings allow.
LEMMA DesiredFits ==
  ASSUME NEW m, IsMachine(m)
  PROVE  LET w == Desired(Profile(m, FALSE)) IN w.attention \in {"auto", "math"} /\ w.cache \in {"off", "fb"}
  <1>1. PICK c : c = Candidates(CollectReport(m))
    OBVIOUS
  <1>2. IsCandidate(c[1], m)
    BY <1>1, CandidatesFit DEF FitCandidates
  <1>3. PICK p : p = Profile(m, FALSE)
    OBVIOUS
  <1>4. p = Capability(Resolved(c[1]), FALSE)
    BY <1>1, <1>3 DEF Profile, ResolveProfile
  <1>5. p.defaults.attention \in {"auto", "math"} /\ p.defaults.cache \in {"off", "fb"}
    BY <1>2, <1>4, CapabilityFits DEF FitDefaults
  <1> QED BY <1>3, <1>5 DEF Desired

\* A value that is read back from the file as it was written, null texts excepted.
Sane(k, v) == Sanitized(k, v) = v \/ (k = "lora" /\ v = Null)

\* A width that was rounded once is not changed again.
LEMMA FittedTwice ==
  ASSUME NEW n \in Int
  PROVE  Fitted(n) \in Int /\ Fitted(Fitted(n)) = Fitted(n)
  <1>1. PICK c \in 256..2048 : c = IF n < 256 THEN 256 ELSE IF n > 2048 THEN 2048 ELSE n
    OBVIOUS
  <1>2. PICK d \in Int : /\ d = IF c % 128 = 32 THEN (c + 32) \div 64 - 1 ELSE (c + 32) \div 64
                       /\ d >= 4 /\ d <= 32
    OBVIOUS
  <1>3. Fitted(n) = d * 64 /\ d * 64 \in 256..2048
    BY <1>1, <1>2 DEF Fitted
  <1>4. (d * 64 + 32) \div 64 = d /\ (d * 64) % 128 # 32
    BY <1>2
  <1>5. Fitted(d * 64) = d * 64
    BY <1>2, <1>3, <1>4 DEF Fitted
  <1> QED BY <1>3, <1>5

\* Texts that are not the empty one.
LEMMA TextsDiffer ==
  Null # NoText /\ "None" # NoText /\ "None" # Null
  BY Zenon DEF Null, NoText

\* A sanitized value is sane.
LEMMA SanitizedIsSane ==
  ASSUME NEW k, NEW v, k = "width" => v \in Int
  PROVE  Sane(k, Sanitized(k, v)) /\ (k = "width" => Sanitized(k, v) \in Int)
  <1>1. CASE k = "width"
    BY <1>1, FittedTwice DEF Sane, Sanitized
  <1>2. CASE k = "lora"
    BY <1>2, TextsDiffer DEF Sane, Sanitized
  <1>3. CASE k # "width" /\ k # "lora"
    BY <1>3 DEF Sane, Sanitized
  <1> QED BY <1>1, <1>2, <1>3

------------------------------------------------------------------------------
\* Values as settings have them.
AreValues(v) == DOMAIN v = Keys /\ v["stub"] \in BOOLEAN /\ v["width"] \in Int

\* The choices are on their lists, but for values of an environment in keys outside S.
ChoicesHold(v, S) ==
  \A k \in ChoiceKeys : v[k] \in ChoicesOf(k) \/ (k \notin S /\ GivenSomewhere(k, v[k]))

SettingsTypes ==
  /\ app \in {"down", "up", "writing", "failed"} /\ file.kind \in {"absent", "torn", "whole"}
  /\ AreValues(values) /\ AreValues(file.values)
  /\ asked \subseteq Keys /\ DOMAIN chosen \subseteq asked
  /\ machine \in Machines /\ env \in Environments

\* What is running can be saved and read back; what is saved is what was chosen.
RunningSettings ==
  app \in {"up", "writing"} =>
    /\ \A k \in asked : Sane(k, values[k])
    /\ ChoicesHold(values, asked)
    /\ pairBy = "config" => Launchable(values)
SavedSettings ==
  /\ file.kind = "absent" => asked = {} /\ app # "writing"
  /\ file.kind = "whole" =>
       /\ \A k \in DOMAIN chosen : file.values[k] = chosen[k] /\ Sane(k, file.values[k])
       /\ ChoicesHold(file.values, asked)
  /\ app = "up" => file.kind # "torn"

SettingsInv ==
  SettingsTypes /\ RunningSettings /\ SavedSettings /\ ChosenSurvive /\ StartFailsForCause

\* The keys, and that the defaults are values that may be saved.
LEMMA KeysAre ==
  /\ Keys = {"stub", "width", "lora", "attention", "cache", "tf32", "llama", "context"}
  /\ AreValues(Defaults) /\ \A k \in ChoiceKeys : Defaults[k] \in ChoicesOf(k)
  <1>1. Keys = {"stub", "width", "lora", "attention", "cache", "tf32", "llama", "context"}
    BY DEF Keys, Defaults
  <1>2. Defaults.stub = TRUE /\ Defaults.width = 1024 /\ Defaults.attention = "auto" /\ Defaults.cache = "fb"
        /\ Defaults.llama = "default" /\ Defaults.context = "f16"
    BY DEF Defaults
  <1>a. Defaults["stub"] \in BOOLEAN /\ Defaults["width"] \in Int
    BY DEF Defaults
  <1>3. AreValues(Defaults)
    BY <1>a DEF AreValues, Keys
  <1>4. \A k \in ChoiceKeys : Defaults[k] \in ChoicesOf(k)
    BY <1>2 DEF ChoicesOf, ChoiceKeys
  <1> QED BY <1>1, <1>3, <1>4

\* What a saved or requested body leaves: each value it names sanitized, the rest kept.
LEMMA Merging ==
  ASSUME NEW old, AreValues(old), NEW raw, Acceptable(raw),
         "stub" \in DOMAIN raw => raw["stub"] \in BOOLEAN,
         "width" \in DOMAIN raw => raw["width"] \in Int, NEW S
  PROVE  /\ AreValues(Merge(old, raw))
         /\ \A k \in DOMAIN raw : k \in Keys /\ Merge(old, raw)[k] = Sanitized(k, raw[k]) /\ Sane(k, Merge(old, raw)[k])
         /\ \A k \in Keys \ DOMAIN raw : Merge(old, raw)[k] = old[k]
         /\ ChoicesHold(old, S) => ChoicesHold(Merge(old, raw), S \cup DOMAIN raw)
         /\ ChoiceKeys \subseteq DOMAIN raw => ChoicesHold(Merge(old, raw), Keys)
  <1>1. PICK v : v = Merge(old, raw)
    OBVIOUS
  <1>2. v = [k \in Keys |-> IF k \in DOMAIN raw THEN Sanitized(k, raw[k]) ELSE old[k]]
    BY <1>1 DEF Merge
  <1>3. DOMAIN v = Keys
    BY <1>2
  <1>4. ASSUME NEW k \in DOMAIN raw PROVE k \in Keys /\ v[k] = Sanitized(k, raw[k]) /\ Sane(k, v[k])
    <2>1. k \in Keys
      BY DEF Acceptable
    <2>2. v[k] = Sanitized(k, raw[k])
      BY <1>2, <2>1
    <2> QED BY <2>1, <2>2, SanitizedIsSane
  <1>5. \A k \in Keys \ DOMAIN raw : v[k] = old[k]
    BY <1>2
  <1>6. "stub" \in Keys /\ "width" \in Keys /\ ChoiceKeys \subseteq Keys
    BY KeysAre DEF ChoiceKeys
  <1>7. v["stub"] \in BOOLEAN
    <2>1. CASE "stub" \in DOMAIN raw
      BY <1>4, <2>1 DEF Sanitized
    <2>2. CASE "stub" \notin DOMAIN raw
      BY <1>5, <1>6, <2>2 DEF AreValues
    <2> QED BY <2>1, <2>2
  <1>8. v["width"] \in Int
    <2>1. CASE "width" \in DOMAIN raw
      BY <1>4, <2>1, SanitizedIsSane
    <2>2. CASE "width" \notin DOMAIN raw
      BY <1>5, <1>6, <2>2 DEF AreValues
    <2> QED BY <2>1, <2>2
  <1>9. ASSUME NEW k \in ChoiceKeys, k \in DOMAIN raw PROVE v[k] \in ChoicesOf(k)
    <2>1. raw[k] \in ChoicesOf(k)
      BY <1>9 DEF Acceptable
    <2>2. Sanitized(k, raw[k]) = raw[k]
      BY DEF Sanitized, ChoiceKeys
    <2> QED BY <1>4, <1>9, <2>1, <2>2
  <1>10. ASSUME NEW k \in ChoiceKeys, k \notin DOMAIN raw PROVE v[k] = old[k]
    BY <1>5, <1>6, <1>10
  <1>11. ChoicesHold(old, S) => ChoicesHold(v, S \cup DOMAIN raw)
    BY <1>9, <1>10 DEF ChoicesHold
  <1>12. ChoiceKeys \subseteq DOMAIN raw => ChoicesHold(v, Keys)
    BY <1>9 DEF ChoicesHold
  <1> QED BY <1>1, <1>3, <1>4, <1>5, <1>7, <1>8, <1>11, <1>12 DEF AreValues

\* What the environment sets: typed, and within the choices or its own.
LEMMA GivenValues ==
  ASSUME env \in Environments
  PROVE  AreValues(FromEnvironment) /\ ChoicesHold(FromEnvironment, {})
  <1>1. PICK v : v = FromEnvironment
    OBVIOUS
  <1>2. v = [k \in Keys |-> IF k \in DOMAIN env.given THEN env.given[k] ELSE Defaults[k]]
    BY <1>1 DEF FromEnvironment
  <1>3. "stub" \in Keys /\ "width" \in Keys /\ ChoiceKeys \subseteq Keys
    BY KeysAre DEF ChoiceKeys
  <1>4. \A k \in DOMAIN env.given : k \in Keys /\ env.given[k] \in ValuesOf(k)
    BY AppSettingsAssumption
  <1>5. v["stub"] \in BOOLEAN
    <2>1. ValuesOf("stub") = BOOLEAN
      BY DEF ValuesOf
    <2> QED BY <1>2, <1>3, <1>4, <2>1, KeysAre DEF AreValues
  <1>6. v["width"] \in Int
    <2>1. ValuesOf("width") = Int
      BY DEF ValuesOf
    <2> QED BY <1>2, <1>3, <1>4, <2>1, KeysAre DEF AreValues
  <1>7. AreValues(v)
    BY <1>2, <1>5, <1>6 DEF AreValues
  <1>8. ASSUME NEW k \in ChoiceKeys PROVE v[k] \in ChoicesOf(k) \/ GivenSomewhere(k, v[k])
    <2>1. CASE k \in DOMAIN env.given
      BY <1>2, <1>3, <2>1 DEF GivenSomewhere
    <2>2. CASE k \notin DOMAIN env.given
      BY <1>2, <1>3, <2>2, KeysAre
    <2> QED BY <2>1, <2>2
  <1> QED BY <1>1, <1>7, <1>8 DEF ChoicesHold

\* Tuning touches no key the user set, no type, and no choice but for a valid one.
LEMMA Tuning ==
  ASSUME machine \in Machines, NEW v, AreValues(v), NEW userSet
  PROVE  /\ AreValues(Tuned(v, userSet))
         /\ \A k \in Keys \cap userSet : Tuned(v, userSet)[k] = v[k]
         /\ \A S : ChoicesHold(v, S) => ChoicesHold(Tuned(v, userSet), S)
  <1>1. PICK w : w = Desired(Profile(machine, FALSE))
    OBVIOUS
  <1>2. w.attention \in {"auto", "math"} /\ w.cache \in {"off", "fb"}
    BY <1>1, DesiredFits, AppSettingsAssumption
  <1>3. PICK u : u = Tuned(v, userSet)
    OBVIOUS
  <1>4. CASE v.stub \/ ~env.autotune
    BY <1>4 DEF Tuned
  <1>5. CASE ~(v.stub \/ ~env.autotune)
    <2>1. u = [k \in Keys |-> IF k \in TuneKeys \ userSet THEN w[k] ELSE v[k]]
      BY <1>1, <1>3, <1>5 DEF Tuned
    <2>2. "stub" \in Keys /\ "width" \in Keys /\ ChoiceKeys \subseteq Keys
      BY KeysAre DEF ChoiceKeys
    <2>3. AreValues(u)
      BY <2>1, <2>2 DEF AreValues, TuneKeys
    <2>4. \A k \in Keys \cap userSet : u[k] = v[k]
      BY <2>1
    <2>5. ASSUME NEW k \in ChoiceKeys PROVE u[k] \in ChoicesOf(k) \/ u[k] = v[k]
      <3>1. CASE k \in TuneKeys \ userSet
        <4>1. u[k] = w[k]
          BY <2>1, <2>2, <3>1
        <4>2. k = "attention" \/ k = "cache"
          BY <3>1 DEF TuneKeys, ChoiceKeys
        <4> QED BY <1>2, <4>1, <4>2 DEF ChoicesOf
      <3>2. CASE k \notin TuneKeys \ userSet
        BY <2>1, <2>2, <3>2
      <3> QED BY <3>1, <3>2
    <2>6. ASSUME NEW S, ChoicesHold(v, S) PROVE ChoicesHold(u, S)
      BY <2>5, <2>6 DEF ChoicesHold
    <2> QED BY <1>3, <2>3, <2>4, <2>6
  <1> QED BY <1>4, <1>5

------------------------------------------------------------------------------
LEMMA SettingsStart ==
  ASSUME AppSettingsInit
  PROVE  SettingsInv
  <1>1. /\ machine \in Machines /\ env \in Environments /\ app = "down" /\ values = Defaults
        /\ file.kind = "absent" /\ file.values = Defaults /\ asked = {} /\ DOMAIN chosen = {} /\ boot = NotBooted
    BY DEF AppSettingsInit
  <1>2. SettingsTypes
    BY <1>1, KeysAre DEF SettingsTypes
  <1>3. RunningSettings /\ SavedSettings /\ StartFailsForCause
    BY <1>1 DEF RunningSettings, SavedSettings, StartFailsForCause
  <1>4. ChosenSurvive
    <2>1. DOMAIN boot.chosen = {}
      BY <1>1 DEF NotBooted
    <2> QED BY <2>1 DEF ChosenSurvive
  <1> QED BY <1>2, <1>3, <1>4 DEF SettingsInv

LEMMA StartAppKeeps ==
  ASSUME SettingsInv, StartApp
  PROVE  SettingsInv'
  <1> DEFINE saved   == file.kind = "whole"
             loaded  == IF saved THEN Merge(FromEnvironment, file.values) ELSE FromEnvironment
             userSet == IF saved THEN Keys ELSE DOMAIN env.given
  <1>1. /\ app = "down" /\ file.kind # "torn" /\ (saved => Acceptable(file.values)) /\ app' = "up"
        /\ values' = Tuned(loaded, userSet)
        /\ boot' = [done |-> TRUE, values |-> values', chosen |-> chosen]
        /\ pairBy' = (IF saved THEN "file" ELSE "environment")
        /\ UNCHANGED <<machine, env, file, asked, chosen, saves, kills>>
    BY DEF StartApp
  <1>2. SettingsTypes /\ SavedSettings
    BY DEF SettingsInv
  <1>3. AreValues(FromEnvironment) /\ ChoicesHold(FromEnvironment, {})
    BY <1>2, GivenValues DEF SettingsTypes
  <1>4. AreValues(loaded) /\ ChoicesHold(loaded, asked)
        /\ (saved => \A k \in Keys : loaded[k] = Sanitized(k, file.values[k]) /\ Sane(k, loaded[k]))
    <2>1. CASE saved
      <3>1. AreValues(file.values) /\ DOMAIN file.values = Keys /\ Acceptable(file.values)
        BY <1>1, <1>2, <2>1 DEF SettingsTypes, AreValues
      <3>2. ChoiceKeys \subseteq DOMAIN file.values
        BY <3>1, KeysAre DEF ChoiceKeys
      <3>3. PICK f : f = file.values
        OBVIOUS
      <3>4. PICK old : old = FromEnvironment
        OBVIOUS
      <3>5. /\ AreValues(Merge(old, f)) /\ ChoicesHold(Merge(old, f), Keys)
            /\ \A k \in DOMAIN f : Merge(old, f)[k] = Sanitized(k, f[k]) /\ Sane(k, Merge(old, f)[k])
            /\ ChoicesHold(old, {}) => ChoicesHold(Merge(old, f), {} \cup DOMAIN f)
        BY <1>3, <3>1, <3>2, <3>3, <3>4, Merging DEF AreValues
      <3>6. ChoicesHold(Merge(old, f), asked)
        BY <1>2, <3>5 DEF ChoicesHold, SettingsTypes
      <3> QED BY <2>1, <3>1, <3>3, <3>4, <3>5, <3>6
    <2>2. CASE ~saved
      <3>1. asked = {}
        BY <1>1, <1>2, <2>2 DEF SettingsTypes, SavedSettings
      <3> QED BY <1>3, <2>2, <3>1
    <2> QED BY <2>1, <2>2
  <1>5. PICK l : l = loaded
    OBVIOUS
  <1>6. PICK u : u = userSet
    OBVIOUS
  <1>7. values' = Tuned(l, u) /\ machine \in Machines
    BY <1>1, <1>2, <1>5, <1>6 DEF SettingsTypes
  <1>8. /\ AreValues(values') /\ (ChoicesHold(l, asked) => ChoicesHold(values', asked))
        /\ \A k \in Keys \cap u : values'[k] = l[k]
    BY <1>4, <1>5, <1>7, Tuning
  <1>9. saved => \A k \in Keys : values'[k] = Sanitized(k, file.values[k]) /\ Sane(k, values'[k])
    BY <1>4, <1>5, <1>6, <1>8
  <1>10. SettingsTypes'
    BY <1>1, <1>2, <1>8 DEF SettingsTypes
  <1>11. RunningSettings'
    <2>1. \A k \in asked' : Sane(k, values'[k])
      <3>1. CASE saved
        BY <1>1, <1>2, <1>9, <3>1 DEF SettingsTypes
      <3>2. CASE ~saved
        BY <1>1, <1>2, <3>2 DEF SettingsTypes, SavedSettings
      <3> QED BY <3>1, <3>2
    <2>2. ChoicesHold(values', asked')
      <3>1. ChoicesHold(values', asked)
        BY <1>4, <1>5, <1>8
      <3> QED BY <1>1, <3>1
    <2>3. pairBy' # "config"
      BY <1>1
    <2> QED BY <2>1, <2>2, <2>3 DEF RunningSettings, ChoicesHold
  <1>12. SavedSettings'
    <2> HIDE DEF loaded, userSet
    <2> QED BY <1>1, <1>2 DEF SavedSettings, ChoicesHold
  <1>13. ChosenSurvive'
    <2>1. boot'.values = values' /\ boot'.chosen = chosen
      BY <1>1
    <2>2. ASSUME NEW k \in DOMAIN chosen
          PROVE  (k = "lora" /\ chosen[k] = Null) \/ values'[k] = chosen[k]
      <3>1. saved
        BY <1>1, <1>2, <2>2 DEF SettingsTypes, SavedSettings
      <3>2. k \in Keys /\ file.values[k] = chosen[k] /\ Sane(k, file.values[k])
        BY <1>2, <3>1 DEF SettingsTypes, SavedSettings
      <3>3. values'[k] = Sanitized(k, file.values[k])
        BY <1>9, <3>1, <3>2
      <3> QED BY <3>2, <3>3 DEF Sane
    <2> QED BY <2>1, <2>2 DEF ChosenSurvive
  <1>14. StartFailsForCause'
    BY <1>1 DEF StartFailsForCause
  <1> QED BY <1>10, <1>11, <1>12, <1>13, <1>14 DEF SettingsInv

LEMMA StartAppFailsKeeps ==
  ASSUME SettingsInv, StartAppFails
  PROVE  SettingsInv'
  <1>1. /\ app = "down" /\ (file.kind = "torn" \/ (file.kind = "whole" /\ ~Acceptable(file.values)))
        /\ app' = "failed" /\ UNCHANGED <<machine, env, values, file, asked, chosen, boot, pairBy, saves, kills>>
    BY DEF StartAppFails
  <1>2. SettingsTypes /\ SavedSettings /\ ChosenSurvive
    BY DEF SettingsInv
  <1>3. SettingsTypes' /\ SavedSettings'
    BY <1>1, <1>2 DEF SettingsTypes, SavedSettings, ChoicesHold
  <1>4. RunningSettings'
    BY <1>1 DEF RunningSettings
  <1>5. ChosenSurvive'
    BY <1>1, <1>2 DEF ChosenSurvive
  <1>6. StartFailsForCause'
    <2>1. ASSUME file.kind = "whole"
          PROVE  \E k \in ChoiceKeys \ asked :
                   file.values[k] \notin ChoicesOf(k) /\ GivenSomewhere(k, file.values[k])
      <3>1. PICK k \in ChoiceKeys : file.values[k] \notin ChoicesOf(k)
        BY <1>1, <1>2, <2>1 DEF SettingsTypes, AreValues, Acceptable
      <3>2. k \notin asked /\ GivenSomewhere(k, file.values[k])
        BY <1>2, <2>1, <3>1 DEF SavedSettings, ChoicesHold
      <3> QED BY <3>1, <3>2
    <2> QED BY <1>1, <2>1 DEF StartFailsForCause
  <1> QED BY <1>3, <1>4, <1>5, <1>6 DEF SettingsInv

LEMMA SaveSettingsKeeps ==
  ASSUME SettingsInv, NEW patch \in Patches, SaveSettings(patch)
  PROVE  SettingsInv'
  <1>1. /\ app = "up" /\ Acceptable(patch) /\ values' = Merge(values, patch)
        /\ file' = [file EXCEPT !.kind = "torn"] /\ app' = "writing" /\ asked' = asked \cup DOMAIN patch
        /\ pairBy' = (IF DOMAIN patch \cap {"llama", "context"} # {} THEN "override" ELSE pairBy)
        /\ UNCHANGED <<machine, env, chosen, boot, kills>>
    BY DEF SaveSettings
  <1>2. SettingsTypes /\ RunningSettings /\ SavedSettings /\ ChosenSurvive
    BY DEF SettingsInv
  <1>3. ("stub" \in DOMAIN patch => patch["stub"] \in BOOLEAN) /\ ("width" \in DOMAIN patch => patch["width"] \in Int)
    <2>1. \A k \in DOMAIN patch \cap Keys : patch[k] \in ValuesOf(k)
      BY AppSettingsAssumption
    <2>2. "stub" \in Keys /\ "width" \in Keys
      BY KeysAre
    <2>3. ValuesOf("stub") = BOOLEAN /\ ValuesOf("width") = Int
      BY DEF ValuesOf
    <2> QED BY <2>1, <2>2, <2>3
  <1>4. PICK v : v = values /\ AreValues(v)
    BY <1>2 DEF SettingsTypes
  <1>5. /\ AreValues(values')
        /\ \A k \in DOMAIN patch : k \in Keys /\ Sane(k, values'[k])
        /\ \A k \in Keys \ DOMAIN patch : values'[k] = values[k]
        /\ ChoicesHold(values, asked) => ChoicesHold(values', asked \cup DOMAIN patch)
    BY <1>1, <1>3, <1>4, Merging
  <1>6. file'.kind = "torn" /\ (file'.values = file.values)
    BY <1>1, <1>2 DEF SettingsTypes, SavedSettings
  <1>7. SettingsTypes'
    <2>1. asked' \subseteq Keys /\ DOMAIN chosen' \subseteq asked'
      BY <1>1, <1>2, <1>5 DEF SettingsTypes
    <2> QED BY <1>1, <1>2, <1>5, <1>6, <2>1 DEF SettingsTypes
  <1>8. RunningSettings'
    <2>1. ASSUME NEW k \in asked' PROVE Sane(k, values'[k])
      <3>1. CASE k \in DOMAIN patch
        BY <1>5, <3>1
      <3>2. CASE k \notin DOMAIN patch
        <4>1. k \in asked /\ k \in Keys
          BY <1>1, <1>2, <3>2 DEF SettingsTypes
        <4>2. Sane(k, values[k]) /\ values'[k] = values[k]
          BY <1>1, <1>2, <1>5, <3>2, <4>1 DEF RunningSettings
        <4> QED BY <4>2
      <3> QED BY <3>1, <3>2
    <2>2. ChoicesHold(values', asked')
      BY <1>1, <1>2, <1>5 DEF RunningSettings
    <2>3. pairBy' = "config" => Launchable(values')
      <3> SUFFICES ASSUME pairBy' = "config" PROVE Launchable(values')
        OBVIOUS
      <3>1. DOMAIN patch \cap {"llama", "context"} = {} /\ pairBy = "config"
        BY <1>1
      <3>2. "llama" \in Keys \ DOMAIN patch /\ "context" \in Keys \ DOMAIN patch
        BY <3>1, KeysAre
      <3>3. values'["llama"] = values["llama"] /\ values'["context"] = values["context"]
        BY <1>5, <3>2
      <3> QED BY <1>1, <1>2, <3>1, <3>3 DEF RunningSettings, Launchable
    <2> QED BY <2>1, <2>2, <2>3 DEF RunningSettings, Launchable, ChoicesHold
  <1>9. SavedSettings'
    BY <1>1, <1>6 DEF SavedSettings
  <1>10. ChosenSurvive' /\ StartFailsForCause'
    BY <1>1, <1>2 DEF ChosenSurvive, StartFailsForCause
  <1> QED BY <1>7, <1>8, <1>9, <1>10 DEF SettingsInv

LEMMA SaveWrittenKeeps ==
  ASSUME SettingsInv, SaveWritten
  PROVE  SettingsInv'
  <1>1. /\ app = "writing" /\ app' = "up" /\ file' = [kind |-> "whole", values |-> values]
        /\ chosen' = [k \in asked |-> values[k]]
        /\ UNCHANGED <<machine, env, values, asked, boot, pairBy, saves, kills>>
    BY DEF SaveWritten
  <1>2. SettingsTypes /\ RunningSettings /\ SavedSettings /\ ChosenSurvive
    BY DEF SettingsInv
  <1>3. file'.kind = "whole" /\ file'.values = values /\ DOMAIN chosen' = asked
    BY <1>1
  <1>4. SettingsTypes'
    BY <1>1, <1>2, <1>3 DEF SettingsTypes
  <1>5. RunningSettings'
    BY <1>1, <1>2 DEF RunningSettings, ChoicesHold, Launchable
  <1>6. SavedSettings'
    <2>1. \A k \in DOMAIN chosen' : file'.values[k] = chosen'[k] /\ Sane(k, file'.values[k])
      BY <1>1, <1>2, <1>3 DEF RunningSettings
    <2>2. ChoicesHold(values, asked)
      BY <1>1, <1>2 DEF RunningSettings
    <2> QED BY <1>1, <1>3, <2>1, <2>2 DEF SavedSettings, ChoicesHold
  <1>7. ChosenSurvive' /\ StartFailsForCause'
    BY <1>1, <1>2 DEF ChosenSurvive, StartFailsForCause
  <1> QED BY <1>4, <1>5, <1>6, <1>7 DEF SettingsInv

LEMMA SetLlamaPairKeeps ==
  ASSUME SettingsInv, NEW pair \in Pairs, SetLlamaPair(pair[1], pair[2])
  PROVE  SettingsInv'
  <1>1. PICK type : /\ type = (IF pair[2] # Null THEN pair[2]
                               ELSE IF values.context \in Supported(pair[1]) THEN values.context ELSE "f16")
                    /\ app = "up" /\ type \in Supported(pair[1])
                    /\ values' = [values EXCEPT !.llama = pair[1], !.context = type]
                    /\ pairBy' = "config" /\ UNCHANGED <<machine, env, app, file, asked, chosen, boot, saves, kills>>
    BY DEF SetLlamaPair
  <1>2. SettingsTypes /\ RunningSettings /\ SavedSettings /\ ChosenSurvive
    BY DEF SettingsInv
  <1>3. DOMAIN values = Keys /\ "llama" \in Keys /\ "context" \in Keys /\ "stub" \in Keys /\ "width" \in Keys
        /\ ChoiceKeys \subseteq Keys
    BY <1>2, KeysAre DEF SettingsTypes, AreValues, ChoiceKeys
  <1>4. /\ DOMAIN values' = Keys /\ values'["llama"] = pair[1] /\ values'["context"] = type
        /\ \A k \in Keys \ {"llama", "context"} : values'[k] = values[k]
    BY <1>1, <1>3
  <1>5. AreValues(values')
    BY <1>2, <1>3, <1>4 DEF SettingsTypes, AreValues
  <1>6. SettingsTypes'
    BY <1>1, <1>2, <1>5 DEF SettingsTypes
  <1>7. RunningSettings'
    <2>1. ASSUME NEW k \in asked' PROVE Sane(k, values'[k])
      <3>1. CASE k \in {"llama", "context"}
        BY <3>1 DEF Sane, Sanitized
      <3>2. CASE k \notin {"llama", "context"}
        BY <1>1, <1>2, <1>4, <3>2 DEF RunningSettings, SettingsTypes
      <3> QED BY <3>1, <3>2
    <2>2. ChoicesHold(values', asked')
      <3> SUFFICES ASSUME NEW k \in ChoiceKeys
                   PROVE  values'[k] \in ChoicesOf(k) \/ (k \notin asked /\ GivenSomewhere(k, values'[k]))
        BY <1>1 DEF ChoicesHold
      <3>1. pair[1] \in ChoicesOf("llama") /\ type \in ChoicesOf("context")
        BY <1>1, AppSettingsAssumption DEF Supported, ChoicesOf
      <3>2. CASE k = "llama"
        BY <1>4, <3>1, <3>2
      <3>3. CASE k = "context"
        BY <1>4, <3>1, <3>3
      <3>4. CASE k \notin {"llama", "context"}
        BY <1>1, <1>2, <1>3, <1>4, <3>4 DEF ChoicesHold, RunningSettings
      <3> QED BY <3>2, <3>3, <3>4
    <2>3. Launchable(values')
      BY <1>1, <1>4 DEF Launchable
    <2> QED BY <1>1, <1>2, <2>1, <2>2, <2>3 DEF RunningSettings, ChoicesHold, Launchable
  <1>8. SavedSettings' /\ ChosenSurvive' /\ StartFailsForCause'
    BY <1>1, <1>2 DEF SavedSettings, ChosenSurvive, StartFailsForCause, ChoicesHold
  <1> QED BY <1>6, <1>7, <1>8 DEF SettingsInv

LEMMA KillAppKeeps ==
  ASSUME SettingsInv, KillApp
  PROVE  SettingsInv'
  <1>1. /\ app' = "down" /\ values' = Defaults /\ boot' = NotBooted /\ machine' \in Machines /\ env' \in Environments
        /\ UNCHANGED <<file, asked, chosen, pairBy, saves>>
    BY DEF KillApp
  <1>2. SettingsTypes /\ SavedSettings
    BY DEF SettingsInv
  <1>3. SettingsTypes'
    <2>1. AreValues(values')
      BY <1>1, KeysAre
    <2> QED BY <1>1, <1>2, <2>1 DEF SettingsTypes
  <1>4. RunningSettings' /\ SavedSettings' /\ StartFailsForCause'
    BY <1>1, <1>2 DEF RunningSettings, SavedSettings, StartFailsForCause, ChoicesHold
  <1>5. ChosenSurvive'
    <2>1. DOMAIN boot'.chosen = {}
      BY <1>1 DEF NotBooted
    <2> QED BY <2>1 DEF ChosenSurvive
  <1> QED BY <1>3, <1>4, <1>5 DEF SettingsInv

LEMMA SettingsStep ==
  ASSUME SettingsInv, [AppSettingsNext]_appSettingsVars
  PROVE  SettingsInv'
  <1>1. CASE UNCHANGED appSettingsVars
    <2>1. SettingsTypes' /\ RunningSettings' /\ SavedSettings'
      BY <1>1 DEF SettingsInv, appSettingsVars, SettingsTypes, RunningSettings, SavedSettings, Launchable, ChoicesHold
    <2>2. ChosenSurvive' /\ StartFailsForCause'
      BY <1>1 DEF SettingsInv, appSettingsVars, ChosenSurvive, StartFailsForCause
    <2> QED BY <2>1, <2>2 DEF SettingsInv
  <1>2. CASE AppSettingsNext
    BY <1>1, <1>2, StartAppKeeps, StartAppFailsKeeps, SaveWrittenKeeps, KillAppKeeps, SaveSettingsKeeps, SetLlamaPairKeeps
    DEF AppSettingsNext, SaveRefused
  <1> QED BY <1>1, <1>2

LEMMA SettingsSound ==
  ASSUME SettingsInv
  PROVE  AppSettingsAreSound
  <1>1. SettingsTypes /\ RunningSettings /\ ChosenSurvive /\ StartFailsForCause
    BY DEF SettingsInv
  <1>2. AppSettingsTypeOK
    BY <1>1 DEF SettingsTypes, AreValues, AppSettingsTypeOK
  <1>3. ConfigIsLaunchable
    BY <1>1 DEF RunningSettings, ConfigIsLaunchable
  <1>4. IsMachine(machine) /\ values["stub"] \in BOOLEAN
    BY <1>1, AppSettingsAssumption DEF SettingsTypes, AreValues
  <1>5. PICK stubMode \in BOOLEAN : stubMode = values.stub
    BY <1>4
  <1>6. HardwareFits
    <2>1. PICK c : c = Candidates(CollectReport(machine))
      OBVIOUS
    <2>2. FitCandidates(c, machine) /\ \A i \in DOMAIN c : FitProfile(Capability(Resolved(c[i]), stubMode), machine)
      BY <1>4, <2>1, MachineFits
    <2> QED BY <1>5, <2>1, <2>2 DEF HardwareFits, FitCandidates, FitProfile
  <1>7. OffersFit
    <2>1. PICK p : p = Profile(machine, stubMode)
      OBVIOUS
    <2>2. FitProfile(p, machine)
      BY <1>4, <2>1, MachineFits
    <2> QED BY <1>5, <2>1, <2>2, FitsOffer DEF OffersFit
  <1> QED BY <1>1, <1>2, <1>3, <1>6, <1>7 DEF AppSettingsAreSound

\* settings_overrides.py, main.py, llm.py, install_profiles.py, capability_profile.py,
\* model_compatibility.py: what a request chose comes back after every kill, a start
\* fails only for a torn file or for a choice in the file that an environment gave to a
\* key no request set, the llama pair can be launched, and
\* what is switched on or offered fits the machine.
THEOREM SettingsStaySound == AppSettingsSpec => []AppSettingsAreSound
  <1>1. AppSettingsInit => SettingsInv
    BY SettingsStart
  <1>2. SettingsInv /\ [AppSettingsNext]_appSettingsVars => SettingsInv'
    BY SettingsStep
  <1>3. SettingsInv => AppSettingsAreSound
    BY SettingsSound
  <1> QED BY <1>1, <1>2, <1>3, PTL DEF AppSettingsSpec
=============================================================================
