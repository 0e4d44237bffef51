---------------------------- MODULE VoiceSession ----------------------------
(***************************************************************************)
(* A live voice session (voice_engine/realtime.py): its start and stop      *)
(* under _SESSION_LOCK, the audio callback and the worker thread over their *)
(* two rings, and the recordings that requests start and stop meanwhile.    *)
(* Audio is counted in samples of the stream: resampling and formant shifts *)
(* compensate each other, and what a block sounds like is left out.         *)
(***************************************************************************)
EXTENDS Naturals

CONSTANTS Chunk,       \* chunk_samples, what the worker pulls at once
          Block,       \* _block_16k, what is converted at once: Chunk, rounded
          Cap,         \* where the callback bounds the input ring: 2 s
          MaxFrames,   \* the longest callback
          Requests,    \* requests that start and stop recordings
          MaxSessions, \* bound: sessions opened
          MaxErrors,   \* bound: conversions that fail
          MaxRecordings \* bound: recordings started

ASSUME VoiceAssumption ==
  /\ Chunk \in Nat \ {0} /\ Block \in Nat \ {0} /\ Cap \in Nat
  /\ MaxFrames \in Nat \ {0}
  /\ MaxSessions \in Nat /\ MaxErrors \in Nat /\ MaxRecordings \in Nat

VARIABLES lane,      \* what _SESSION and the holder of _SESSION_LOCK are at
          sessions,  \* sessions opened so far
          stream,    \* the session's audio streams
          leaked,    \* whether streams of an abandoned start are open
          thread,    \* the worker thread
          stopping,  \* _stop
          frames,    \* samples that a callback has pushed and not yet played
          input, fifo, output, \* samples in the rings and in the processor
          errors,    \* conversions that failed
          extra,     \* history: samples that failed conversions have added
          recording, \* recording[s]: the active recording of session s, or 0
          recordings,\* recordings started so far
          kept,      \* kept[s]: the recordings that _recording_frames has chunks of
          asked,     \* asked[r]: the session and recording that request r is to stop
          results    \* history: results[g]: how often recording g was returned

laneVars == <<lane, sessions, stream, leaked>>
audioVars == <<frames, input, fifo, output, errors, extra>>
recordVars == <<recording, recordings, kept, asked, results>>
vars == <<laneVars, thread, stopping, audioVars, recordVars>>

Recordings == 1 .. MaxRecordings
Sessions == 1 .. MaxSessions
NoStop == [of |-> 0, rec |-> 0]
Least(m, n) == IF m < n THEN m ELSE n
Minus(m, n) == IF m < n THEN 0 ELSE m - n

Init ==
  /\ lane = "none" /\ sessions = 0 /\ stream = "closed" /\ leaked = FALSE
  /\ thread = "none" /\ stopping = FALSE
  /\ frames = 0 /\ input = 0 /\ fifo = 0 /\ output = 0 /\ errors = 0 /\ extra = 0
  /\ recording = [s \in Sessions |-> 0] /\ recordings = 0
  /\ kept = [s \in Sessions |-> {}]
  /\ asked = [r \in Requests |-> NoStop]
  /\ results = [g \in Recordings |-> 0]

------------------------------------------------------------------------------
(* start_session and stop_session *)

\* A new RealtimeSession loads its model...
Open ==
  /\ lane = "none" /\ sessions < MaxSessions
  /\ sessions' = sessions + 1
  /\ lane' = "loading"
  /\ UNCHANGED <<stream, leaked, thread, stopping, audioVars, recordVars>>

\* ... which may fail, as may opening a device: there is nothing to clean up.
OpenFails ==
  /\ lane = "loading"
  /\ lane' = "none"
  /\ UNCHANGED <<sessions, stream, leaked, thread, stopping, audioVars, recordVars>>

\* The rings, a chunk of silence ahead, the streams, and a thread not yet started.
OpenDevices ==
  /\ lane = "loading"
  /\ lane' = "starting" /\ stream' = "open" /\ thread' = "created"
  /\ stopping' = FALSE
  /\ frames' = 0 /\ input' = 0 /\ fifo' = 0 /\ output' = Chunk /\ extra' = 0
  /\ UNCHANGED <<sessions, leaked, errors, recordVars>>

\* The rings and the processor go with the session.
DropAudio ==
  /\ frames' = 0 /\ input' = 0 /\ fifo' = 0 /\ output' = 0 /\ extra' = 0

StartStream ==
  /\ lane = "starting" /\ stream = "open"
  /\ stream' = "running"
  /\ UNCHANGED <<lane, sessions, leaked, thread, stopping, audioVars, recordVars>>

\* A device does not start: stop() joins a thread that never ran, which raises
\* before the streams are closed.
StartFails ==
  /\ lane = "starting"
  /\ lane' = "none" /\ stream' = "closed" /\ leaked' = TRUE
  /\ thread' = "none" /\ stopping' = TRUE
  /\ DropAudio
  /\ UNCHANGED <<sessions, errors, recordVars>>

StartThread ==
  /\ lane = "starting" /\ stream = "running"
  /\ lane' = "live" /\ thread' = "waiting"
  /\ UNCHANGED <<sessions, stream, leaked, stopping, audioVars, recordVars>>

Stop ==
  /\ lane = "live"
  /\ lane' = "joining" /\ stopping' = TRUE
  /\ UNCHANGED <<sessions, stream, leaked, thread, audioVars, recordVars>>

\* The thread has ended, or 5 s are over: then it ends by itself later on, and
\* reaches nothing but the session that is thrown away here.
Joined ==
  /\ lane = "joining"
  /\ lane' = "none" /\ stream' = "closed" /\ thread' = "none"
  /\ DropAudio
  /\ UNCHANGED <<sessions, leaked, stopping, errors, recordVars>>

------------------------------------------------------------------------------
(* The audio callback *)

Push(n) ==
  /\ stream = "running" /\ frames = 0
  /\ frames' = n
  /\ input' = input + n
  /\ UNCHANGED <<laneVars, thread, stopping, fifo, output, errors, extra, recordVars>>

\* Mutant: the input ring is bounded by the wrong size.
PlayShort ==
  /\ frames > 0
  /\ input' = Least(input, frames)
  /\ output' = Minus(output, frames)
  /\ frames' = 0
  /\ UNCHANGED <<laneVars, thread, stopping, fifo, errors, extra, recordVars>>

\* Mutant: the input ring is not bounded.
PlayAll ==
  /\ frames > 0
  /\ output' = Minus(output, frames)
  /\ frames' = 0
  /\ UNCHANGED <<laneVars, thread, stopping, input, fifo, errors, extra, recordVars>>

\* drop_to, then pull, which pads with silence what is missing.
Play ==
  /\ frames > 0
  /\ input' = Least(input, Cap)
  /\ output' = Minus(output, frames)
  /\ frames' = 0
  /\ UNCHANGED <<laneVars, thread, stopping, fifo, errors, extra, recordVars>>

------------------------------------------------------------------------------
(* The worker thread: _run *)

\* available() and pull(): only the callback runs in between, and leaves what is pulled.
PullChunk ==
  /\ thread = "waiting" /\ ~stopping /\ input >= Chunk
  /\ input' = input - Chunk
  /\ thread' = "converting"
  /\ UNCHANGED <<laneVars, stopping, frames, fifo, output, errors, extra, recordVars>>

\* process() converts the blocks that are complete, and keeps the rest.
Convert ==
  /\ thread = "converting"
  /\ \E blocks \in 0 .. fifo + Chunk :
       /\ fifo + Chunk - blocks * Block \in 0 .. Block - 1
       /\ fifo' = fifo + Chunk - blocks * Block
       /\ output' = output + blocks * Block
  /\ thread' = "recording"
  /\ UNCHANGED <<laneVars, stopping, frames, input, errors, extra, recordVars>>

\* Pass-through leaves the processor alone.
PassThrough ==
  /\ thread = "converting"
  /\ output' = output + Chunk
  /\ thread' = "recording"
  /\ UNCHANGED <<laneVars, stopping, frames, input, fifo, errors, extra, recordVars>>

\* A stage raises, before the chunk is in the fifo or with one of its blocks: the
\* chunk is played as silence, and what the fifo still has is played later.
ConvertFails ==
  /\ thread = "converting" /\ errors < MaxErrors
  /\ errors' = errors + 1
  /\ output' = output + Chunk
  /\ \/ UNCHANGED <<fifo, extra>>
     \/ \E blocks \in 1 .. fifo + Chunk :
          /\ blocks * Block <= fifo + Chunk
          /\ fifo' = fifo + Chunk - blocks * Block
          /\ extra' = extra + Minus(Chunk, blocks * Block)
  /\ thread' = "recording"
  /\ UNCHANGED <<laneVars, stopping, frames, input, recordVars>>

\* _record_chunk, of the session that is open.
RecordChunk ==
  /\ thread = "recording"
  /\ thread' = "waiting"
  /\ kept' = IF recording[sessions] = 0 THEN kept
             ELSE [kept EXCEPT ![sessions] = @ \union {recording[sessions]}]
  /\ UNCHANGED <<laneVars, stopping, audioVars, recording, recordings, asked, results>>

\* The recording is longer than 180 s: it ends, and what it has is never returned.
ExpireRecording ==
  /\ thread = "recording" /\ recording[sessions] # 0
  /\ thread' = "waiting"
  /\ recording' = [recording EXCEPT ![sessions] = 0]
  /\ UNCHANGED <<laneVars, stopping, audioVars, recordings, kept, asked, results>>

EndThread ==
  /\ thread = "waiting" /\ stopping
  /\ thread' = "ended"
  /\ UNCHANGED <<laneVars, stopping, audioVars, recordVars>>

------------------------------------------------------------------------------
(* Recordings *)

HasSession == lane \in {"live", "joining"}

\* Mutant: what an expired recording left is kept.
StartRecordingOver ==
  /\ HasSession /\ recording[sessions] = 0 /\ recordings < MaxRecordings
  /\ recordings' = recordings + 1
  /\ recording' = [recording EXCEPT ![sessions] = recordings + 1]
  /\ UNCHANGED <<laneVars, thread, stopping, audioVars, kept, asked, results>>

StartRecording ==
  /\ HasSession /\ recording[sessions] = 0 /\ recordings < MaxRecordings
  /\ recordings' = recordings + 1
  /\ recording' = [recording EXCEPT ![sessions] = recordings + 1]
  /\ kept' = [kept EXCEPT ![sessions] = {}]
  /\ UNCHANGED <<laneVars, thread, stopping, audioVars, asked, results>>

\* stop_recording waits 650 ms for the last chunks...
StopRecording(r) ==
  /\ HasSession /\ recording[sessions] # 0 /\ asked[r] = NoStop
  /\ asked' = [asked EXCEPT ![r] = [of |-> sessions, rec |-> recording[sessions]]]
  /\ UNCHANGED <<laneVars, thread, stopping, audioVars, recording, recordings, kept, results>>

\* ... and looks again: somebody may have stopped it, or it has expired.
StopTooLate(r) ==
  /\ asked[r] # NoStop /\ recording[asked[r].of] = 0
  /\ asked' = [asked EXCEPT ![r] = NoStop]
  /\ UNCHANGED <<laneVars, thread, stopping, audioVars, recording, recordings, kept, results>>

\* Mutant: the recording that was active before the wait is returned.
TakeUnseen(r) ==
  /\ asked[r] # NoStop
  /\ results' = [results EXCEPT ![asked[r].rec] = @ + 1]
  /\ recording' = [recording EXCEPT ![asked[r].of] = 0]
  /\ kept' = [kept EXCEPT ![asked[r].of] = {}]
  /\ asked' = [asked EXCEPT ![r] = NoStop]
  /\ UNCHANGED <<laneVars, thread, stopping, audioVars, recordings>>

TakeRecording(r) ==
  /\ asked[r] # NoStop /\ recording[asked[r].of] # 0
  /\ results' = [results EXCEPT ![recording[asked[r].of]] = @ + 1]
  /\ recording' = [recording EXCEPT ![asked[r].of] = 0]
  /\ kept' = [kept EXCEPT ![asked[r].of] = {}]
  /\ asked' = [asked EXCEPT ![r] = NoStop]
  /\ UNCHANGED <<laneVars, thread, stopping, audioVars, recordings>>

------------------------------------------------------------------------------

Callback == (\E n \in 1 .. MaxFrames : Push(n)) \/ Play

Work ==
  \/ PullChunk \/ Convert \/ PassThrough \/ ConvertFails
  \/ RecordChunk \/ ExpireRecording \/ EndThread

Lane ==
  \/ Open \/ OpenFails \/ OpenDevices
  \/ StartStream \/ StartFails \/ StartThread
  \/ Stop \/ Joined

Next ==
  \/ Lane \/ Callback \/ Work
  \/ StartRecording
  \/ \E r \in Requests : StopRecording(r) \/ StopTooLate(r) \/ TakeRecording(r)

Spec == Init /\ [][Next]_vars

\* Devices call back and the thread runs; nobody has to start or stop anything.
FairSpec == Spec /\ WF_vars(Callback) /\ WF_vars(Work)

------------------------------------------------------------------------------
(* Properties *)

LaneTypes ==
  /\ lane \in {"none", "loading", "starting", "live", "joining"}
  /\ sessions \in 0 .. MaxSessions
  /\ stream \in {"closed", "open", "running"} /\ leaked \in BOOLEAN
  /\ thread \in {"none", "created", "waiting", "converting", "recording", "ended"}
  /\ stopping \in BOOLEAN

AudioTypes ==
  /\ frames \in 0 .. MaxFrames
  /\ input \in Nat /\ fifo \in Nat /\ output \in Nat /\ extra \in Nat
  /\ errors \in 0 .. MaxErrors

RecordTypes ==
  /\ recording \in [Sessions -> 0 .. MaxRecordings]
  /\ recordings \in 0 .. MaxRecordings
  /\ kept \in [Sessions -> SUBSET Recordings]
  /\ asked \in [Requests -> [of : Sessions, rec : Recordings] \union {NoStop}]
  /\ results \in [Recordings -> Nat]

\* The types of the session's state.
VoiceTypeOK == LaneTypes /\ AudioTypes /\ RecordTypes

\* The chunk that the worker holds.
Held == IF thread = "converting" THEN Chunk ELSE 0

\* What is heard lags behind what is said by two seconds and little more, however long
\* the worker stalls and however often: only the input ring is bounded (drop_to), but
\* the output ring grows only by silence that was played while it was empty. What
\* failed conversions add comes on top, and stays.
LatencyIsBounded ==
  input + Held + fifo + output <= Cap + Chunk + Block + frames + extra

\* A live session converts, whatever else it does: the callback never cuts the input
\* ring so short that the worker waits for ever, unless a chunk is longer than two
\* seconds, which engine.py (_clamp_sample_rate, _clamp_chunk_size) does not exclude.
AudioFlows ==
  Chunk <= Cap =>
    (lane = "live" /\ thread = "waiting") ~> (lane # "live" \/ thread # "waiting")

\* Of several requests that stop a recording one gets it (the second look of stop_recording).
ReturnedOnce == \A g \in Recordings : results[g] <= 1

\* The session's state under the requests that record it (stop_recording waits in the
\* middle of its work).
RecordingIsSound == VoiceTypeOK /\ ReturnedOnce

\* A recording has no chunk of an earlier one, though an expired one leaves its chunks.
OwnChunks ==
  \A s \in Sessions : recording[s] # 0 => kept[s] \subseteq {recording[s]}

\* start_session: "Raises on failure (no half-open session is left behind)".
NoHalfOpenSession == lane = "none" => ~leaked
=============================================================================
