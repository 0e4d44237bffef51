-------------------------------- MODULE Tools --------------------------------
(***************************************************************************)
(* The local tools (api/tts.py, vision.py, transcription.py, uploads.py):   *)
(* speech and vision run a process of their own under a timeout, a          *)
(* transcription runs in a thread of the pool that the worker's model loads *)
(* use as well, and a timeout cannot end a thread. Uploads are read piece   *)
(* by piece up to a limit. No tool asks the GPU arbiter.                    *)
(***************************************************************************)
EXTENDS Naturals, FiniteSets

CONSTANTS ToolCalls,   \* requests
          ToolFiles,   \* ToolFiles[t]: the model files of a tool, in directory order
          ToolId(_),   \* the id a file's name is reduced to
          Threads,     \* slots of the default thread pool
          MaxUpload,   \* the limit of an upload, in pieces of one unit
          BodySizes,   \* sizes of the bodies clients send
          NoToolFile,
          MaxToolKills \* bound

ToolNames == {"tts", "vision", "transcription"}

ASSUME ToolsAssumption == {Threads, MaxUpload, MaxToolKills} \subseteq Nat /\ BodySizes \subseteq Nat

VARIABLES call,    \* call[c]: the tool, its model, the stage the request is at and its answer
          body,    \* body[c]: units the client has left to send, and units read
          input,   \* input[c]: the upload on disk
          output,  \* output[c]: the .wav of llama-tts
          record,  \* record[c]: the .json written last; "broken": its write failed half-way
          process, \* process[c]: the tool's process
          thread,  \* thread[c]: the transcription's work item in the pool
          loads,   \* the worker's load: "none", "queued" or "running" in the pool
          stranded,\* history: processes of a backend that was killed
          toolKills

toolFiles == <<input, output, record>>
toolRuns == <<process, thread, loads>>
toolHistory == <<stranded, toolKills>>
toolVars == <<call, body, toolFiles, toolRuns, toolHistory>>

NoCall == [tool |-> "none", model |-> NoToolFile, stage |-> "idle", answer |-> 0]

ToolsInit ==
  /\ call = [c \in ToolCalls |-> NoCall] /\ body = [c \in ToolCalls |-> [left |-> 0, read |-> 0]]
  /\ input = [c \in ToolCalls |-> FALSE]
  /\ output = [c \in ToolCalls |-> "none"] /\ record = output
  /\ process = [c \in ToolCalls |-> "none"] /\ thread = process /\ loads = "none"
  /\ stranded = {} /\ toolKills = 0

------------------------------------------------------------------------------
(* Models *)

\* _model_map: of files whose names are reduced to one id the last one is found.
ToolModel(t, id) ==
  LET named == {i \in DOMAIN ToolFiles[t] : ToolId(ToolFiles[t][i]) = id}
  IN IF named = {} THEN NoToolFile
     ELSE ToolFiles[t][CHOOSE i \in named : \A j \in named : j <= i]

------------------------------------------------------------------------------
(* A request *)

Answer(c, code) == call' = [call EXCEPT ![c].stage = "over", ![c].answer = code]
GoOn(c, stage) == call' = [call EXCEPT ![c].stage = stage]

\* The checks of the request: binary or engine, text or prompt, model. Speech has no
\* upload.
StartTool(c, t, id, size) ==
  /\ call[c] = NoCall
  /\ call' = [call EXCEPT ![c] =
       IF ToolModel(t, id) = NoToolFile THEN [@ EXCEPT !.tool = t, !.stage = "over", !.answer = 404]
       ELSE [tool |-> t, model |-> ToolModel(t, id), answer |-> 0,
             stage |-> IF t = "tts" THEN "ready" ELSE "reading"]]
  /\ body' = [body EXCEPT ![c] = [left |-> size, read |-> 0]]
  /\ UNCHANGED <<toolFiles, toolRuns, toolHistory>>

\* read_limited_upload: one read of what is there, one unit past the limit at most.
ReadPiece(c) ==
  /\ call[c].stage = "reading" /\ body[c].left > 0
  /\ \E n \in 1..body[c].left :
       /\ n <= (MaxUpload - body[c].read) + 1
       /\ body' = [body EXCEPT ![c] = [left |-> @.left - n, read |-> @.read + n]]
       /\ IF body[c].read + n > MaxUpload THEN Answer(c, 413) ELSE UNCHANGED call
  /\ UNCHANGED <<toolFiles, toolRuns, toolHistory>>

\* The body has ended: an empty one is refused, another is written to disk.
StoreUpload(c) ==
  /\ call[c].stage = "reading" /\ body[c].left = 0
  /\ IF body[c].read = 0 THEN Answer(c, 422) /\ UNCHANGED input
     ELSE GoOn(c, "ready") /\ input' = [input EXCEPT ![c] = TRUE]
  /\ UNCHANGED <<body, output, record, toolRuns, toolHistory>>

------------------------------------------------------------------------------
(* Speech and vision: a process *)

RunsProcess(c) == call[c].tool \in {"tts", "vision"}

\* create_subprocess_exec; an OSError is answered 500.
SpawnTool(c) ==
  /\ call[c].stage = "ready" /\ RunsProcess(c)
  /\ \/ GoOn(c, "running") /\ process' = [process EXCEPT ![c] = "running"]
     \/ Answer(c, 500) /\ UNCHANGED process
  /\ UNCHANGED <<body, toolFiles, thread, loads, toolHistory>>

\* The process: llama-tts writes its .wav, and either ends or hangs.
ToolWrites(c) ==
  /\ process[c] = "running" /\ call[c].tool = "tts"
  /\ \/ output[c] = "none" /\ output' = [output EXCEPT ![c] = "partial"]
     \/ output[c] = "partial" /\ output' = [output EXCEPT ![c] = "whole"]
  /\ UNCHANGED <<call, body, input, record, toolRuns, toolHistory>>

ToolExits(c) ==
  /\ process[c] = "running"
  /\ process' = [process EXCEPT ![c] = IF call[c].tool = "tts" /\ output[c] = "partial" THEN "failed" ELSE "ended"]
  /\ UNCHANGED <<call, body, toolFiles, thread, loads, toolHistory>>

ToolCrashes(c) ==
  /\ process[c] = "running" /\ process' = [process EXCEPT ![c] = "failed"]
  /\ UNCHANGED <<call, body, toolFiles, thread, loads, toolHistory>>

\* The metadata is written last; when that fails, everything else stays as it is.
StoreRecord(c) ==
  \/ Answer(c, 200) /\ record' = [record EXCEPT ![c] = "whole"]
  \/ Answer(c, 500) /\ \E left \in {"none", "broken"} : record' = [record EXCEPT ![c] = left]

\* communicate() returns: the exit code, then the .wav, then the metadata.
CollectTool(c) ==
  /\ call[c].stage = "running" /\ RunsProcess(c)
  /\ process[c] \in {"ended", "failed"}
  /\ process' = [process EXCEPT ![c] = "none"]
  /\ IF process[c] = "failed"
     THEN /\ Answer(c, 500) /\ UNCHANGED record
          /\ output' = IF call[c].tool = "tts" THEN [output EXCEPT ![c] = "none"] ELSE output
     ELSE /\ UNCHANGED output
          /\ IF call[c].tool = "tts" /\ output[c] = "none" THEN Answer(c, 500) /\ UNCHANGED record
             ELSE StoreRecord(c)
  /\ UNCHANGED <<body, input, thread, loads, toolHistory>>

\* Mutant: the timeout leaves the process running.
TimeoutKeeps(c) ==
  /\ call[c].stage = "running" /\ RunsProcess(c) /\ process[c] = "running"
  /\ Answer(c, 504)
  /\ UNCHANGED <<body, toolFiles, toolRuns, toolHistory>>

\* TimeoutError: kill, and wait for the end; a .wav that was begun stays.
TimeoutProcess(c) ==
  /\ call[c].stage = "running" /\ RunsProcess(c) /\ process[c] = "running"
  /\ Answer(c, 504) /\ process' = [process EXCEPT ![c] = "none"]
  /\ UNCHANGED <<body, toolFiles, thread, loads, toolHistory>>

------------------------------------------------------------------------------
(* Transcription: a thread of the pool *)

Busy == Cardinality({c \in ToolCalls : thread[c] = "running"}) + (IF loads = "running" THEN 1 ELSE 0)

\* asyncio.to_thread
SubmitTranscription(c) ==
  /\ call[c].stage = "ready" /\ call[c].tool = "transcription"
  /\ GoOn(c, "running") /\ thread' = [thread EXCEPT ![c] = "queued"]
  /\ UNCHANGED <<body, toolFiles, process, loads, toolHistory>>

ThreadStarts(c) ==
  /\ thread[c] = "queued" /\ Busy < Threads
  /\ thread' = [thread EXCEPT ![c] = "running"]
  /\ UNCHANGED <<call, body, toolFiles, process, loads, toolHistory>>

\* It returns or raises; whether anybody still waits for it makes no difference.
ThreadEnds(c) ==
  /\ thread[c] = "running"
  /\ \/ thread' = [thread EXCEPT ![c] = "ended"]
     \/ thread' = [thread EXCEPT ![c] = "failed"]
  /\ UNCHANGED <<call, body, toolFiles, process, loads, toolHistory>>

CollectTranscription(c) ==
  /\ call[c].stage = "running" /\ thread[c] \in {"ended", "failed"}
  /\ IF thread[c] = "failed" THEN Answer(c, 500) /\ UNCHANGED record
     ELSE StoreRecord(c)
  /\ UNCHANGED <<body, input, output, toolRuns, toolHistory>>

\* A work item that has not started is cancelled, one that has started goes on.
TimeoutThread(c) ==
  /\ call[c].stage = "running" /\ thread[c] \in {"queued", "running"}
  /\ Answer(c, 504)
  /\ thread' = [thread EXCEPT ![c] = IF @ = "queued" THEN "none" ELSE @]
  /\ UNCHANGED <<body, toolFiles, process, loads, toolHistory>>

\* The worker's model load wants a thread of the same pool.
LoadStep ==
  /\ \/ loads = "none" /\ loads' = "queued"
     \/ loads = "queued" /\ Busy < Threads /\ loads' = "running"
     \/ loads = "running" /\ loads' = "none"
  /\ UNCHANGED <<call, body, toolFiles, process, thread, toolHistory>>

------------------------------------------------------------------------------
\* tts_audio, vision_metadata, transcription_metadata: what is on disk under the id.
AudioServed(c) == call[c].tool = "tts" /\ output[c] # "none"
MetadataServed(c) == call[c].tool # "tts" /\ record[c] # "none"

\* The backend is killed: its threads go with it, its processes do not.
KillTools ==
  /\ toolKills < MaxToolKills /\ toolKills' = toolKills + 1
  /\ stranded' = stranded \union {c \in ToolCalls : process[c] = "running"}
  /\ call' = [c \in ToolCalls |-> IF call[c].stage \in {"idle", "over"} THEN call[c]
                                  ELSE [call[c] EXCEPT !.stage = "over"]]
  /\ thread' = [c \in ToolCalls |-> "none"] /\ loads' = "none"
  /\ UNCHANGED <<body, toolFiles, process>>

ToolsNext ==
  \/ \E c \in ToolCalls :
       \/ \E t \in ToolNames, size \in BodySizes :
            \E id \in {ToolId(f) : f \in UNION {{ToolFiles[u][i] : i \in DOMAIN ToolFiles[u]} : u \in ToolNames}} :
              StartTool(c, t, id, size)
       \/ ReadPiece(c) \/ StoreUpload(c)
       \/ SpawnTool(c) \/ ToolWrites(c) \/ ToolExits(c) \/ ToolCrashes(c) \/ CollectTool(c) \/ TimeoutProcess(c)
       \/ SubmitTranscription(c) \/ ThreadStarts(c) \/ ThreadEnds(c) \/ CollectTranscription(c) \/ TimeoutThread(c)
  \/ LoadStep \/ KillTools

ToolsSpec == ToolsInit /\ [][ToolsNext]_toolVars

------------------------------------------------------------------------------
(* Properties *)

ToolsTypeOK ==
  /\ \A c \in ToolCalls : call[c].tool \in ToolNames \union {"none"} /\ body[c].read \in Nat
  /\ stranded \subseteq ToolCalls

\* A request that is over has left no process behind, whatever hung, failed or came
\* too late, unless the backend was killed; a thread it may have left, but only by a
\* timeout.
NothingIsLeft ==
  \A c \in ToolCalls : call[c].stage = "over" =>
    /\ process[c] = "running" => c \in stranded
    /\ thread[c] = "running" => call[c].answer = 504

\* What is answered 200 is there in full, together with its metadata, and nothing
\* else has metadata in full. After an answer 500 a .wav is served only if it is
\* whole: the process ended well and its metadata could not be written.
AnswersAreStored ==
  \A c \in ToolCalls :
    /\ record[c] = "whole" <=> call[c].answer = 200
    /\ call[c].answer = 200 => /\ call[c].tool = "tts" => output[c] = "whole" /\ AudioServed(c)
                               /\ call[c].tool # "tts" => input[c] /\ MetadataServed(c)
    /\ call[c].answer = 500 /\ call[c].tool = "tts" /\ AudioServed(c) => output[c] = "whole"

\* uploads.py:37: no body takes more than a unit above the limit in memory, and a
\* file on disk is within it and as long as what was sent.
UploadsAreBounded ==
  \A c \in ToolCalls :
    /\ body[c].read <= MaxUpload + 1
    /\ input[c] => body[c].read \in 1..MaxUpload /\ body[c].left = 0

ToolsAreSound == ToolsTypeOK /\ NothingIsLeft /\ AnswersAreStored /\ UploadsAreBounded
==============================================================================
