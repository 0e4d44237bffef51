------------------------- MODULE VoiceSessionProofs -------------------------
(***************************************************************************)
(* What VoiceSession keeps for any sizes of chunks, blocks and callbacks,   *)
(* and any number of sessions, failures, recordings and requests.           *)
(***************************************************************************)
EXTENDS VoiceSession, TLAPS

\* The streams and the thread exist while a session is being started, live or stopped.
LaneInv ==
  /\ lane # "none" => sessions \in Sessions
  /\ thread # "none" => lane \in {"starting", "live", "joining"}

\* What the next Play may leave: the input ring exceeds its bound by the last push at
\* most, and the processor keeps less than a block but for what a failure left behind.
RingInv ==
  /\ input <= Cap + frames
  /\ fifo < Block + extra

\* An active recording was started in one session, and was not returned yet.
RecordingInv ==
  /\ \A s \in Sessions : recording[s] <= recordings
  /\ \A s, t \in Sessions : recording[s] # 0 /\ recording[s] = recording[t] => s = t
  /\ \A s \in Sessions : recording[s] # 0 => results[recording[s]] = 0
  /\ \A g \in Recordings : g > recordings => results[g] = 0

AudioInv == RingInv /\ LatencyIsBounded
TakeInv == RecordingInv /\ ReturnedOnce /\ OwnChunks

VoiceInv == VoiceTypeOK /\ LaneInv /\ AudioInv /\ TakeInv

\* Before the first session there is neither audio nor a recording.
LEMMA InitVoiceInv == Init => VoiceInv
<1> SUFFICES ASSUME Init PROVE VoiceInv
  OBVIOUS
<1> USE VoiceAssumption DEF Init
<1>1. VoiceTypeOK
  <2>1. LaneTypes
    <3>1. sessions \in 0 .. MaxSessions
      OBVIOUS
    <3>2. leaked \in BOOLEAN /\ stopping \in BOOLEAN
      BY Zenon
    <3> QED BY <3>1, <3>2 DEF LaneTypes
  <2>2. AudioTypes
    BY DEF AudioTypes
  <2>3. RecordTypes
    BY DEF RecordTypes
  <2> QED BY <2>1, <2>2, <2>3 DEF VoiceTypeOK
<1>2. LaneInv /\ AudioInv
  BY DEF LaneInv, AudioInv, RingInv, LatencyIsBounded, Held
<1>3. TakeInv
  BY DEF TakeInv, RecordingInv, ReturnedOnce, OwnChunks, Sessions, Recordings
<1> QED BY <1>1, <1>2, <1>3 DEF VoiceInv

\* Recordings see nothing of the streams and the rings.
LEMMA TakeUnchanged ==
  ASSUME VoiceInv, UNCHANGED recordVars
  PROVE  TakeInv'
  BY DEF VoiceInv, TakeInv, RecordingInv, ReturnedOnce, OwnChunks, recordVars

\* The rings see nothing of the recordings.
LEMMA AudioUnchanged ==
  ASSUME VoiceInv, UNCHANGED audioVars, thread' = "converting" => thread = "converting"
  PROVE  AudioInv'
  BY VoiceAssumption DEF VoiceInv, VoiceTypeOK, LaneTypes, AudioTypes, RecordTypes,
     AudioInv, RingInv, LatencyIsBounded, Held, audioVars

\* A step that changes nothing.
LEMMA StutterKeeps ==
  ASSUME VoiceInv, UNCHANGED vars
  PROVE  VoiceInv'
<1>1. VoiceTypeOK' /\ LaneInv'
  BY DEF VoiceInv, VoiceTypeOK, LaneTypes, AudioTypes, RecordTypes, LaneInv, vars, laneVars,
     audioVars, recordVars
<1>2. AudioInv' /\ TakeInv'
  BY TakeUnchanged, AudioUnchanged DEF vars
<1> QED BY <1>1, <1>2 DEF VoiceInv

\* Loading a model touches neither rings nor recordings.
LEMMA OpenKeeps ==
  ASSUME VoiceInv, Open \/ OpenFails
  PROVE  VoiceInv'
<1>1. VoiceTypeOK' /\ LaneInv'
  <2>1. VoiceTypeOK'
    BY VoiceAssumption DEF VoiceInv, VoiceTypeOK, LaneTypes, AudioTypes, RecordTypes,
       Open, OpenFails, laneVars, audioVars, recordVars
  <2>2. LaneInv'
    BY VoiceAssumption DEF VoiceInv, VoiceTypeOK, LaneTypes, AudioTypes, RecordTypes,
       LaneInv, Sessions, Open, OpenFails, laneVars, audioVars, recordVars
  <2> QED BY <2>1, <2>2
<1>2. AudioInv' /\ TakeInv'
  BY TakeUnchanged, AudioUnchanged DEF Open, OpenFails
<1> QED BY <1>1, <1>2 DEF VoiceInv

\* A session starts with one chunk of silence in the output ring.
LEMMA OpenDevicesKeeps ==
  ASSUME VoiceInv, OpenDevices
  PROVE  VoiceInv'
<1> USE VoiceAssumption DEF laneVars, audioVars, recordVars
<1>1. VoiceTypeOK' /\ LaneInv'
  <2>1. VoiceTypeOK'
    <3>1. LaneTypes'
      BY DEF VoiceInv, VoiceTypeOK, LaneTypes, OpenDevices
    <3>2. AudioTypes'
      BY VoiceAssumption DEF VoiceInv, VoiceTypeOK, AudioTypes, OpenDevices
    <3>3. RecordTypes'
      BY DEF VoiceInv, VoiceTypeOK, RecordTypes, OpenDevices, recordVars
    <3> QED BY <3>1, <3>2, <3>3 DEF VoiceTypeOK
  <2>2. LaneInv'
    BY VoiceAssumption DEF VoiceInv, VoiceTypeOK, LaneTypes, AudioTypes, RecordTypes,
       LaneInv, Sessions, OpenDevices, laneVars, audioVars, recordVars
  <2> QED BY <2>1, <2>2
<1>2. AudioInv'
  BY DEF VoiceInv, VoiceTypeOK, LaneTypes, AudioTypes, RecordTypes, LaneInv, AudioInv,
     RingInv, LatencyIsBounded, Held, OpenDevices
<1>3. TakeInv'
  BY TakeUnchanged DEF OpenDevices
<1> QED BY <1>1, <1>2, <1>3 DEF VoiceInv

\* Starting and stopping leave the rings alone.
LEMMA StartKeeps ==
  ASSUME VoiceInv, StartStream \/ StartThread \/ Stop
  PROVE  VoiceInv'
<1>1. VoiceTypeOK' /\ LaneInv'
  BY VoiceAssumption DEF VoiceInv, VoiceTypeOK, LaneTypes, AudioTypes, RecordTypes, LaneInv,
     Sessions, StartStream, StartThread, Stop, laneVars, audioVars, recordVars
<1>2. AudioInv' /\ TakeInv'
  BY TakeUnchanged, AudioUnchanged DEF StartStream, StartThread, Stop
<1> QED BY <1>1, <1>2 DEF VoiceInv

\* A session that ends takes its rings with it.
LEMMA DropKeeps ==
  ASSUME VoiceInv, StartFails \/ Joined
  PROVE  VoiceInv'
<1> USE VoiceAssumption DEF laneVars, audioVars, recordVars
<1>1. VoiceTypeOK' /\ LaneInv'
  <2>1. VoiceTypeOK'
    <3>1. LaneTypes'
      BY DEF VoiceInv, VoiceTypeOK, LaneTypes, StartFails, Joined, DropAudio
    <3>2. AudioTypes'
      BY VoiceAssumption DEF VoiceInv, VoiceTypeOK, AudioTypes, StartFails, Joined, DropAudio
    <3>3. RecordTypes'
      BY DEF VoiceInv, VoiceTypeOK, RecordTypes, StartFails, Joined, DropAudio, recordVars
    <3> QED BY <3>1, <3>2, <3>3 DEF VoiceTypeOK
  <2>2. LaneInv'
    BY VoiceAssumption DEF VoiceInv, VoiceTypeOK, LaneTypes, AudioTypes, RecordTypes,
       LaneInv, Sessions, StartFails, Joined, DropAudio, laneVars, audioVars, recordVars
  <2> QED BY <2>1, <2>2
<1>2. AudioInv'
  BY DEF VoiceInv, VoiceTypeOK, LaneTypes, AudioTypes, RecordTypes, LaneInv, AudioInv,
     RingInv, LatencyIsBounded, Held, StartFails, Joined, DropAudio
<1>3. TakeInv'
  BY TakeUnchanged DEF StartFails, Joined, DropAudio
<1> QED BY <1>1, <1>2, <1>3 DEF VoiceInv

\* What a callback pushes it is about to play.
LEMMA PushKeeps ==
  ASSUME VoiceInv, NEW n \in 1 .. MaxFrames, Push(n)
  PROVE  VoiceInv'
<1> USE VoiceAssumption DEF laneVars, audioVars, recordVars
<1>1. VoiceTypeOK' /\ LaneInv'
  BY DEF VoiceInv, VoiceTypeOK, LaneTypes, AudioTypes, RecordTypes, LaneInv, Sessions, Push
<1>2. AudioInv'
  BY DEF VoiceInv, VoiceTypeOK, LaneTypes, AudioTypes, RecordTypes, LaneInv, AudioInv,
     RingInv, LatencyIsBounded, Held, Push
<1>3. TakeInv'
  BY TakeUnchanged DEF Push
<1> QED BY <1>1, <1>2, <1>3 DEF VoiceInv

\* Either the output ring shrinks by what was pushed, or it is empty and all that is left
\* is what the input ring may keep, the chunk of the worker and the rest of a block.
LEMMA PlayKeeps ==
  ASSUME VoiceInv, Play
  PROVE  VoiceInv'
<1> USE VoiceAssumption DEF laneVars, audioVars, recordVars
<1>1. VoiceTypeOK' /\ LaneInv'
  BY DEF VoiceInv, VoiceTypeOK, LaneTypes, AudioTypes, RecordTypes, LaneInv, Sessions, Play,
     Least, Minus
<1>2. AudioInv'
  BY DEF VoiceInv, VoiceTypeOK, LaneTypes, AudioTypes, RecordTypes, LaneInv, AudioInv,
     RingInv, LatencyIsBounded, Held, Play, Least, Minus
<1>3. TakeInv'
  BY TakeUnchanged DEF Play, Least, Minus
<1> QED BY <1>1, <1>2, <1>3 DEF VoiceInv

\* A chunk moves from the ring to the worker, who has waited for all of it.
LEMMA PullChunkKeeps ==
  ASSUME VoiceInv, PullChunk
  PROVE  VoiceInv'
<1> USE VoiceAssumption DEF laneVars, audioVars, recordVars
<1>1. VoiceTypeOK' /\ LaneInv'
  BY DEF VoiceInv, VoiceTypeOK, LaneTypes, AudioTypes, RecordTypes, LaneInv, Sessions, PullChunk
<1>2. AudioInv'
  BY DEF VoiceInv, VoiceTypeOK, LaneTypes, AudioTypes, RecordTypes, LaneInv, AudioInv,
     RingInv, LatencyIsBounded, Held, PullChunk
<1>3. TakeInv'
  BY TakeUnchanged DEF PullChunk
<1> QED BY <1>1, <1>2, <1>3 DEF VoiceInv

\* Converting moves samples, and leaves less than a block in the processor.
LEMMA ConvertKeeps ==
  ASSUME VoiceInv, Convert
  PROVE  VoiceInv'
<1> USE VoiceAssumption DEF laneVars, audioVars, recordVars
<1>1. VoiceTypeOK' /\ LaneInv'
  <2>1. VoiceTypeOK'
    BY VoiceAssumption DEF VoiceInv, VoiceTypeOK, LaneTypes, AudioTypes, RecordTypes,
       Convert, laneVars, audioVars, recordVars
  <2>2. LaneInv'
    BY VoiceAssumption DEF VoiceInv, VoiceTypeOK, LaneTypes, AudioTypes, RecordTypes,
       LaneInv, Sessions, Convert, laneVars, audioVars, recordVars
  <2> QED BY <2>1, <2>2
<1>2. AudioInv'
  BY DEF VoiceInv, VoiceTypeOK, LaneTypes, AudioTypes, RecordTypes, LaneInv, AudioInv,
     RingInv, LatencyIsBounded, Held, Convert
<1>3. TakeInv'
  BY TakeUnchanged DEF Convert
<1> QED BY <1>1, <1>2, <1>3 DEF VoiceInv

\* Pass-through moves the chunk to the output.
LEMMA PassThroughKeeps ==
  ASSUME VoiceInv, PassThrough
  PROVE  VoiceInv'
<1> USE VoiceAssumption DEF laneVars, audioVars, recordVars
<1>1. VoiceTypeOK' /\ LaneInv'
  BY DEF VoiceInv, VoiceTypeOK, LaneTypes, AudioTypes, RecordTypes, LaneInv, Sessions,
     PassThrough
<1>2. AudioInv'
  BY DEF VoiceInv, VoiceTypeOK, LaneTypes, AudioTypes, RecordTypes, LaneInv, AudioInv,
     RingInv, LatencyIsBounded, Held, PassThrough
<1>3. TakeInv'
  BY TakeUnchanged DEF PassThrough
<1> QED BY <1>1, <1>2, <1>3 DEF VoiceInv

\* A failure adds at most the silence that extra counts, and so does what is left in the processor.
LEMMA ConvertFailsKeeps ==
  ASSUME VoiceInv, ConvertFails
  PROVE  VoiceInv'
<1> USE VoiceAssumption DEF laneVars, audioVars, recordVars
<1>1. VoiceTypeOK' /\ LaneInv'
  BY DEF VoiceInv, VoiceTypeOK, LaneTypes, AudioTypes, RecordTypes, LaneInv, Sessions,
     ConvertFails, Minus
<1>2. AudioInv'
  BY DEF VoiceInv, VoiceTypeOK, LaneTypes, AudioTypes, RecordTypes, LaneInv, AudioInv,
     RingInv, LatencyIsBounded, Held, ConvertFails, Minus
<1>3. TakeInv'
  BY TakeUnchanged DEF ConvertFails, Minus
<1> QED BY <1>1, <1>2, <1>3 DEF VoiceInv

\* The thread ends between two chunks.
LEMMA EndThreadKeeps ==
  ASSUME VoiceInv, EndThread
  PROVE  VoiceInv'
<1>1. VoiceTypeOK' /\ LaneInv'
  BY VoiceAssumption DEF VoiceInv, VoiceTypeOK, LaneTypes, AudioTypes, RecordTypes, LaneInv,
     Sessions, EndThread, laneVars, audioVars, recordVars
<1>2. AudioInv' /\ TakeInv'
  BY TakeUnchanged, AudioUnchanged DEF EndThread
<1> QED BY <1>1, <1>2 DEF VoiceInv

\* A chunk is added to the active recording only.
LEMMA RecordChunkKeeps ==
  ASSUME VoiceInv, RecordChunk
  PROVE  VoiceInv'
<1> USE VoiceAssumption DEF laneVars, audioVars, recordVars
<1>1. VoiceTypeOK'
  BY DEF VoiceInv, VoiceTypeOK, LaneTypes, AudioTypes, RecordTypes, LaneInv, RecordingInv,
     TakeInv, HasSession, Sessions, Recordings, NoStop, RecordChunk
<1>2. LaneInv'
  BY DEF VoiceInv, LaneInv, RecordChunk
<1>3. RecordingInv'
  BY DEF VoiceInv, VoiceTypeOK, LaneTypes, AudioTypes, RecordTypes, LaneInv, TakeInv,
     RecordingInv, HasSession, Sessions, Recordings, RecordChunk
<1>4. ReturnedOnce' /\ OwnChunks'
  BY DEF VoiceInv, VoiceTypeOK, LaneTypes, AudioTypes, RecordTypes, LaneInv, TakeInv,
     RecordingInv, ReturnedOnce, OwnChunks, HasSession,
     Sessions, Recordings, RecordChunk
<1>5. AudioInv'
  BY AudioUnchanged DEF RecordChunk
<1> QED BY <1>1, <1>2, <1>3, <1>4, <1>5 DEF VoiceInv, TakeInv

\* An expired recording leaves its chunks behind, but none is active.
LEMMA ExpireRecordingKeeps ==
  ASSUME VoiceInv, ExpireRecording
  PROVE  VoiceInv'
<1> USE VoiceAssumption DEF laneVars, audioVars, recordVars
<1>1. VoiceTypeOK'
  BY DEF VoiceInv, VoiceTypeOK, LaneTypes, AudioTypes, RecordTypes, LaneInv, RecordingInv,
     TakeInv, HasSession, Sessions, Recordings, NoStop, ExpireRecording
<1>2. LaneInv'
  BY DEF VoiceInv, LaneInv, ExpireRecording
<1>3. RecordingInv'
  BY DEF VoiceInv, VoiceTypeOK, LaneTypes, AudioTypes, RecordTypes, LaneInv, TakeInv,
     RecordingInv, HasSession, Sessions, Recordings, ExpireRecording
<1>4. ReturnedOnce' /\ OwnChunks'
  BY DEF VoiceInv, VoiceTypeOK, LaneTypes, AudioTypes, RecordTypes, LaneInv, TakeInv,
     RecordingInv, ReturnedOnce, OwnChunks, HasSession,
     Sessions, Recordings, ExpireRecording
<1>5. AudioInv'
  BY AudioUnchanged DEF ExpireRecording
<1> QED BY <1>1, <1>2, <1>3, <1>4, <1>5 DEF VoiceInv, TakeInv

\* A new recording has a new number, and no chunks.
LEMMA StartRecordingKeeps ==
  ASSUME VoiceInv, StartRecording
  PROVE  VoiceInv'
<1> USE VoiceAssumption DEF laneVars, audioVars, recordVars
<1>1. VoiceTypeOK'
  BY DEF VoiceInv, VoiceTypeOK, LaneTypes, AudioTypes, RecordTypes, LaneInv, RecordingInv,
     TakeInv, HasSession, Sessions, Recordings, NoStop, StartRecording
<1>2. LaneInv'
  BY DEF VoiceInv, LaneInv, StartRecording
<1>3. RecordingInv'
  BY DEF VoiceInv, VoiceTypeOK, LaneTypes, AudioTypes, RecordTypes, LaneInv, TakeInv,
     RecordingInv, HasSession, Sessions, Recordings, StartRecording
<1>4. ReturnedOnce' /\ OwnChunks'
  BY DEF VoiceInv, VoiceTypeOK, LaneTypes, AudioTypes, RecordTypes, LaneInv, TakeInv,
     RecordingInv, ReturnedOnce, OwnChunks, HasSession,
     Sessions, Recordings, StartRecording
<1>5. AudioInv'
  BY AudioUnchanged DEF StartRecording
<1> QED BY <1>1, <1>2, <1>3, <1>4, <1>5 DEF VoiceInv, TakeInv

\* A request that waits has changed nothing.
LEMMA StopRecordingKeeps ==
  ASSUME VoiceInv, NEW r \in Requests, StopRecording(r)
  PROVE  VoiceInv'
<1> USE VoiceAssumption DEF laneVars, audioVars, recordVars
<1>1. VoiceTypeOK'
  BY DEF VoiceInv, VoiceTypeOK, LaneTypes, AudioTypes, RecordTypes, LaneInv, RecordingInv,
     TakeInv, HasSession, Sessions, Recordings, NoStop, StopRecording
<1>2. LaneInv'
  BY DEF VoiceInv, LaneInv, StopRecording
<1>3. RecordingInv'
  BY DEF VoiceInv, VoiceTypeOK, LaneTypes, AudioTypes, RecordTypes, LaneInv, TakeInv,
     RecordingInv, HasSession, Sessions, Recordings, StopRecording
<1>4. ReturnedOnce' /\ OwnChunks'
  BY DEF VoiceInv, VoiceTypeOK, LaneTypes, AudioTypes, RecordTypes, LaneInv, TakeInv,
     RecordingInv, ReturnedOnce, OwnChunks, HasSession,
     Sessions, Recordings, StopRecording
<1>5. AudioInv'
  BY AudioUnchanged DEF StopRecording
<1> QED BY <1>1, <1>2, <1>3, <1>4, <1>5 DEF VoiceInv, TakeInv

\* A request that finds no recording returns none.
LEMMA StopTooLateKeeps ==
  ASSUME VoiceInv, NEW r \in Requests, StopTooLate(r)
  PROVE  VoiceInv'
<1> USE VoiceAssumption DEF laneVars, audioVars, recordVars
<1>1. VoiceTypeOK'
  BY DEF VoiceInv, VoiceTypeOK, LaneTypes, AudioTypes, RecordTypes, LaneInv, RecordingInv,
     TakeInv, HasSession, Sessions, Recordings, NoStop, StopTooLate
<1>2. LaneInv'
  BY DEF VoiceInv, LaneInv, StopTooLate
<1>3. RecordingInv'
  BY DEF VoiceInv, VoiceTypeOK, LaneTypes, AudioTypes, RecordTypes, LaneInv, TakeInv,
     RecordingInv, HasSession, Sessions, Recordings, StopTooLate
<1>4. ReturnedOnce' /\ OwnChunks'
  BY DEF VoiceInv, VoiceTypeOK, LaneTypes, AudioTypes, RecordTypes, LaneInv, TakeInv,
     RecordingInv, ReturnedOnce, OwnChunks, HasSession,
     Sessions, Recordings, StopTooLate
<1>5. AudioInv'
  BY AudioUnchanged DEF StopTooLate
<1> QED BY <1>1, <1>2, <1>3, <1>4, <1>5 DEF VoiceInv, TakeInv

\* The recording that is returned is no longer active anywhere.
LEMMA TakeRecordingKeeps ==
  ASSUME VoiceInv, NEW r \in Requests, TakeRecording(r)
  PROVE  VoiceInv'
<1> USE VoiceAssumption DEF laneVars, audioVars, recordVars
<1>1. VoiceTypeOK'
  BY DEF VoiceInv, VoiceTypeOK, LaneTypes, AudioTypes, RecordTypes, LaneInv, RecordingInv,
     TakeInv, HasSession, Sessions, Recordings, NoStop, TakeRecording
<1>2. LaneInv'
  BY DEF VoiceInv, LaneInv, TakeRecording
<1>3. RecordingInv'
  <2> DEFINE t == asked[r].of
             g == recording[t]
  <2>1. RecordTypes /\ RecordingInv /\ t \in Sessions /\ g # 0
    BY DEF VoiceInv, VoiceTypeOK, RecordTypes, TakeInv, NoStop, TakeRecording
  <2>2. /\ recording' = [recording EXCEPT ![t] = 0]
        /\ results' = [results EXCEPT ![g] = @ + 1]
        /\ recordings' = recordings
    BY DEF TakeRecording
  <2>3. g \in Recordings /\ g <= recordings
    BY <2>1 DEF RecordTypes, RecordingInv, Recordings
  <2> HIDE DEF t, g
  <2>4. recording'[t] = 0 /\ \A s \in Sessions : s # t => recording'[s] = recording[s]
    BY <2>1, <2>2 DEF RecordTypes
  <2>5. \A h \in Recordings : h # g => results'[h] = results[h]
    BY <2>2, <2>3 DEF RecordTypes
  <2>6. \A s \in Sessions : recording'[s] <= recordings'
    BY <2>1, <2>2, <2>4 DEF RecordTypes, RecordingInv
  <2>7. \A s, u \in Sessions : recording'[s] # 0 /\ recording'[s] = recording'[u] => s = u
    BY <2>1, <2>4 DEF RecordingInv
  <2>8. \A s \in Sessions : recording'[s] # 0 => results'[recording'[s]] = 0
    <3> SUFFICES ASSUME NEW s \in Sessions, recording'[s] # 0
                 PROVE  results'[recording'[s]] = 0
      OBVIOUS
    <3>1. s # t /\ recording'[s] = recording[s]
      BY <2>4
    <3>2. recording[s] \in Recordings /\ recording[s] # g
      BY <2>1, <3>1 DEF RecordTypes, RecordingInv, Recordings, g
    <3> QED BY <2>1, <2>5, <3>1, <3>2 DEF RecordingInv
  <2>9. \A h \in Recordings : h > recordings' => results'[h] = 0
    BY <2>1, <2>2, <2>3, <2>5 DEF RecordTypes, RecordingInv, Recordings
  <2> QED BY <2>6, <2>7, <2>8, <2>9 DEF RecordingInv
<1>4. ReturnedOnce' /\ OwnChunks'
  BY DEF VoiceInv, VoiceTypeOK, LaneTypes, AudioTypes, RecordTypes, LaneInv, TakeInv,
     RecordingInv, ReturnedOnce, OwnChunks, HasSession,
     Sessions, Recordings, TakeRecording
<1>5. AudioInv'
  BY AudioUnchanged DEF TakeRecording
<1> QED BY <1>1, <1>2, <1>3, <1>4, <1>5 DEF VoiceInv, TakeInv

\* Every step keeps the invariant.
LEMMA VoiceStep ==
  VoiceInv /\ [Next]_vars => VoiceInv'
<1> SUFFICES ASSUME VoiceInv, [Next]_vars PROVE VoiceInv'
  OBVIOUS
<1>1. CASE Lane
  BY <1>1, OpenKeeps, OpenDevicesKeeps, StartKeeps, DropKeeps DEF Lane
<1>2. CASE Callback
  BY <1>2, PushKeeps, PlayKeeps DEF Callback
<1>3. CASE Work
  BY <1>3, PullChunkKeeps, ConvertKeeps, PassThroughKeeps, ConvertFailsKeeps, EndThreadKeeps,
     RecordChunkKeeps, ExpireRecordingKeeps DEF Work
<1>4. CASE StartRecording
  BY <1>4, StartRecordingKeeps
<1>5. ASSUME NEW r \in Requests, StopRecording(r) \/ StopTooLate(r) \/ TakeRecording(r)
      PROVE  VoiceInv'
  BY <1>5, StopRecordingKeeps, StopTooLateKeeps, TakeRecordingKeeps
<1>6. CASE UNCHANGED vars
  BY <1>6, StutterKeeps
<1> QED BY <1>1, <1>2, <1>3, <1>4, <1>5, <1>6 DEF Next

\* The inductive invariant of a voice session (realtime.py).
THEOREM VoiceInvHolds == Spec => []VoiceInv
  BY InitVoiceInv, VoiceStep, PTL DEF Spec

\* The types of the session's state are kept; in particular no ring has a negative
\* number of samples (realtime.py, _Ring).
THEOREM VoiceTypes == Spec => []VoiceTypeOK
  BY VoiceInvHolds, PTL DEF VoiceInv

\* Stalls of the worker, underruns and overruns in any order leave the voice at most
\* two seconds and a little behind (callback, _run, process).
THEOREM VoiceLatency == Spec => []LatencyIsBounded
  BY VoiceInvHolds, PTL DEF VoiceInv, AudioInv

\* A recording is returned to one request (stop_recording).
THEOREM RecordingReturnedOnce == Spec => []ReturnedOnce
  BY VoiceInvHolds, PTL DEF VoiceInv, TakeInv

\* A recording has its own chunks only (start_recording, _record_chunk).
THEOREM RecordingOwnsChunks == Spec => []OwnChunks
  BY VoiceInvHolds, PTL DEF VoiceInv, TakeInv

\* The types of the session, and a recording for one request only.
THEOREM RecordingsAreSound == Spec => []RecordingIsSound
  BY VoiceTypes, RecordingReturnedOnce, PTL DEF RecordingIsSound
=============================================================================
