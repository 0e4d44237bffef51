------------------------ MODULE VoiceServicesProofs -------------------------
(***************************************************************************)
(* What holds of the voice engine around a session, for every number of     *)
(* voices, conversions, settings, chunk lengths and resampler pieces. Three  *)
(* parts: the engine (VoiceEngine), its settings and presets (VoiceSettings) *)
(* and the stages of a stream (VoiceStream), each with its inductive         *)
(* invariant, one lemma per action, and the theorem at the end; the lemmas   *)
(* on division, windows and records stand where they are first needed.       *)
(***************************************************************************)
EXTENDS VoiceEngine, VoiceSettings, VoiceStream, SequenceTheorems, TLAPS

------------------------------------------------------------------------------
(* The voice engine: whose voice is converted, and which files are whole       *)

Stages == {"idle", "copying", "check", "loading", "naming", "taking", "loaded", "denoise", "extract",
           "open", "writing", "live", "done"}
UserRecord == [stage : Stages, voice : Voices \union {NoVoice}, model : Nat, dtln : BOOLEAN]
FileStates == {"none", "partial", "whole"}
Resting == {"idle", "done"}

EngineTypes ==
  /\ shelf \subseteq Voices /\ pretrain \subseteq AssetFiles /\ denoising \in BOOLEAN
  /\ user \in [Users -> UserRecord]
  /\ \A u \in Users : user[u].stage \notin Resting => user[u].voice \in Voices
  /\ cache \in [id : Voices \union {NoVoice}, model : Nat] /\ cache.model <= Len(voiceOf)
  /\ voiceOf \in Seq(Voices \union {NoVoice})
  /\ \A u \in Users : user[u].model <= Len(voiceOf)
  /\ dtln \in Users \union {NoUser} /\ overlapped \in BOOLEAN

\* The lock: one conversion at a time, and a session loads beside it only where the
\* history says so.
OneAtATime ==
  /\ \A c, d \in Conversions : Inside(c) /\ Inside(d) => c = d
  /\ overlapped \/ \A c \in Conversions : ~(Loading(c) /\ Loading(LiveLane))

\* Whoever loaded the model, or found it, takes the one that is cached.
CacheNames ==
  \/ overlapped
  \/ /\ \A u \in Users : user[u].model # 0 => voiceOf[user[u].model] = user[u].voice
     /\ \A u \in Users : user[u].stage \in {"naming", "taking"} =>
          cache.model # 0 /\ voiceOf[cache.model] = user[u].voice
     /\ \/ \E u \in Users : user[u].stage = "naming"
        \/ cache.id = NoVoice
        \/ cache.model # 0 /\ voiceOf[cache.model] = cache.id

\* A token names the complete output of a conversion that is over; without a crash an
\* upload is there only while its conversion is.
FilesKept ==
  /\ {temp, wav, mp3} \subseteq [Conversions -> FileStates] /\ crashes \in Nat
  /\ returned \subseteq Conversions
  /\ \A c \in returned : wav[c] = "whole" /\ user[c].stage = "done"
  /\ crashes = 0 => \A c \in Conversions : /\ temp[c] # "none" => user[c].stage \notin Resting
                                           /\ mp3[c] # "partial"

VoiceInv == EngineTypes /\ OneAtATime /\ CacheNames /\ FilesKept

\* The live session is a user of its own beside the conversions.
LEMMA UsersDiffer == \A c \in Conversions : c \in Users /\ c # LiveLane /\ LiveLane \in Users
  BY VoiceEngineAssumption DEF Users

\* One user moves, the others stay as they are.
OthersStay(u) == user' \in [Users -> UserRecord] /\ (\A x \in Users : x # u => user'[x] = user[x])
MovedTo(u, stage) ==
  /\ OthersStay(u) /\ user'[u].stage = stage
  /\ user'[u].voice = user[u].voice /\ user'[u].model = user[u].model

\* A user gets a new record, the others keep theirs.
LEMMA Leaves ==
  ASSUME user \in [Users -> UserRecord], NEW u \in Users, NEW e \in UserRecord,
         user' = [user EXCEPT ![u] = e]
  PROVE  OthersStay(u) /\ user'[u] = e
  BY DEF OthersStay

\* A user that moves keeps what it asked for.
LEMMA Moves ==
  ASSUME user \in [Users -> UserRecord], NEW u \in Users, NEW stage \in Stages, At(u, stage)
  PROVE  MovedTo(u, stage)
  <1>1. PICK e : e = [user[u] EXCEPT !.stage = stage]
    OBVIOUS
  <1>2. e \in UserRecord /\ e.stage = stage /\ e.voice = user[u].voice /\ e.model = user[u].model
    BY <1>1 DEF UserRecord
  <1>3. user' = [user EXCEPT ![u] = e]
    BY <1>1 DEF At
  <1>4. OthersStay(u) /\ user'[u] = e
    BY <1>2, <1>3, Leaves
  <1> QED BY <1>2, <1>4 DEF MovedTo

\* A step that leaves the cache alone: the model it leaves its user with is the one it had.
QuietStep(u) ==
  /\ OthersStay(u)
  /\ UNCHANGED <<shelf, pretrain, denoising, cache, voiceOf>>
  /\ dtln' \in Users \union {NoUser}
  /\ overlapped' \in BOOLEAN /\ (overlapped => overlapped')
  /\ user'[u].model = 0 \/ (user'[u].model = user[u].model /\ user'[u].voice = user[u].voice)
  /\ user'[u].stage \notin {"naming", "taking"} /\ user[u].stage # "naming"
  /\ user'[u].stage \notin Resting => user'[u].voice \in Voices

\* A step of one user that touches neither cache nor models keeps the invariant.
LEMMA QuietKeeps ==
  ASSUME EngineTypes, CacheNames, NEW u \in Users, QuietStep(u)
  PROVE  EngineTypes' /\ CacheNames'
  <1>1. EngineTypes'
    <2>1. ASSUME NEW x \in Users
          PROVE  /\ user'[x].stage \notin Resting => user'[x].voice \in Voices
                 /\ user'[x].model <= Len(voiceOf)
      <3>1. CASE x = u
        BY <3>1 DEF EngineTypes, QuietStep
      <3>2. CASE x # u
        BY <3>2 DEF EngineTypes, QuietStep, OthersStay
      <3> QED BY <3>1, <3>2
    <2>2. user' \in [Users -> UserRecord]
      BY DEF QuietStep, OthersStay
    <2> QED BY <2>1, <2>2 DEF EngineTypes, QuietStep
  <1>2. CacheNames'
    <2>1. CASE overlapped
      BY <2>1 DEF QuietStep, CacheNames
    <2>2. CASE ~overlapped
      <3>1. \A x \in Users : user'[x].model # 0 => user'[x].model = user[x].model /\ user'[x].voice = user[x].voice
        BY DEF QuietStep, OthersStay
      <3>2. \A x \in Users : user'[x].stage \in {"naming", "taking"} => x # u /\ user'[x] = user[x]
        BY DEF QuietStep, OthersStay
      <3>3. \A x \in Users : user[x].stage = "naming" => x # u /\ user'[x] = user[x]
        BY DEF QuietStep, OthersStay
      <3> QED BY <2>2, <3>1, <3>2, <3>3 DEF QuietStep, CacheNames
    <2> QED BY <2>1, <2>2 DEF EngineTypes
  <1> QED BY <1>1, <1>2

\* A user that does not come in leaves the lock as it is.
LEMMA StaysOne ==
  ASSUME OneAtATime, NEW u \in Users, OthersStay(u), overlapped => overlapped',
         Inside(u)' => Inside(u), Loading(u)' => Loading(u)
  PROVE  OneAtATime'
  <1>1. \A x \in Users : (Inside(x)' => Inside(x)) /\ (Loading(x)' => Loading(x))
    <2>1. ASSUME NEW x \in Users PROVE (Inside(x)' => Inside(x)) /\ (Loading(x)' => Loading(x))
      <3>1. CASE x = u
        BY <3>1
      <3>2. CASE x # u
        BY <3>2 DEF OthersStay, Inside, Loading
      <3> QED BY <3>1, <3>2
    <2> QED BY <2>1
  <1> QED BY <1>1, UsersDiffer DEF OneAtATime

\* A user's files stay, while it is not at rest, or go with it.
FilesStay(u) ==
  /\ UNCHANGED <<wav, mp3, returned, crashes>>
  /\ temp' \in [Conversions -> FileStates]
  /\ user[u].stage # "done"
  /\ \A c \in Conversions : c # u => temp'[c] = temp[c]
  /\ u \in Conversions => temp'[u] = "none" \/ user'[u].stage \notin Resting

LEMMA FilesStayKept ==
  ASSUME FilesKept, NEW u \in Users, OthersStay(u), FilesStay(u)
  PROVE  FilesKept'
  <1>1. \A c \in Conversions : c # u => user'[c] = user[c]
    BY UsersDiffer DEF OthersStay
  <1>2. \A c \in returned' : wav'[c] = "whole" /\ user'[c].stage = "done"
    BY <1>1 DEF FilesKept, FilesStay
  <1>3. ASSUME crashes' = 0, NEW c \in Conversions
        PROVE  (temp'[c] # "none" => user'[c].stage \notin Resting) /\ mp3'[c] # "partial"
    BY <1>1, <1>3 DEF FilesKept, FilesStay
  <1> QED BY <1>2, <1>3 DEF FilesKept, FilesStay

LEMMA QuietVoice ==
  ASSUME VoiceInv, NEW u \in Users, QuietStep(u), FilesStay(u),
         Inside(u)' => Inside(u), Loading(u)' => Loading(u)
  PROVE  VoiceInv'
  BY QuietKeeps, StaysOne, FilesStayKept DEF VoiceInv, QuietStep

\* A step of the inference: the stage is all that changes, beside the denoiser's stream.
LEMMA QuietMove ==
  ASSUME VoiceInv, NEW u \in Users, NEW stage \in Stages, At(u, stage),
         user[u].stage \in {"loaded", "denoise", "extract", "open", "writing", "live"},
         stage \in {"denoise", "extract", "open", "writing", "live"},
         dtln' \in Users \union {NoUser},
         UNCHANGED <<shelf, pretrain, denoising, cache, voiceOf, overlapped>>
  PROVE  /\ QuietStep(u) /\ OthersStay(u) /\ user[u].stage \notin Resting /\ user'[u].stage \notin Resting
         /\ (Inside(u)' => Inside(u)) /\ (Loading(u)' => Loading(u))
  <1>1. MovedTo(u, stage)
    BY Moves DEF VoiceInv, EngineTypes
  <1> QED BY <1>1 DEF VoiceInv, EngineTypes, MovedTo, QuietStep, Resting, Inside, Loading

LEMMA InferenceKeeps ==
  ASSUME VoiceInv, NEW u \in Users,
         \/ (u \in Conversions /\ TakeDenoiser(u)) \/ (u \in Conversions /\ Denoise(u))
         \/ OpenSession(u) \/ NameSession(u)
         \/ (u = LiveLane /\ LiveChunkDone)
  PROVE  VoiceInv'
  <1>0. dtln \in Users \union {NoUser} /\ temp \in [Conversions -> FileStates]
    BY DEF VoiceInv, EngineTypes, FilesKept
  <1>1. PICK stage \in {"denoise", "extract", "open", "live"} :
          /\ At(u, stage) /\ UNCHANGED <<shelf, pretrain, denoising, cache, voiceOf, overlapped, temp, wav, mp3, returned, crashes>>
          /\ user[u].stage \in {"loaded", "denoise", "extract", "open"}
          /\ dtln' \in Users \union {NoUser}
    <2>1. CASE TakeDenoiser(u)
      BY <1>0, <2>1 DEF TakeDenoiser, veDisk, veFiles, veHistory
    <2>2. CASE Denoise(u)
      BY <1>0, <2>2 DEF Denoise, veDisk, veFiles, veHistory
    <2>3. CASE OpenSession(u)
      BY <1>0, <2>3 DEF OpenSession, veDisk, veFiles, veHistory
    <2>4. CASE NameSession(u)
      BY <1>0, <2>4 DEF NameSession, veDisk, veFiles, veHistory
    <2>5. CASE u = LiveLane /\ LiveChunkDone
      BY <1>0, <2>5 DEF LiveChunkDone, veDisk, veFiles, veHistory
    <2> QED BY <2>1, <2>2, <2>3, <2>4, <2>5
  <1>2. /\ QuietStep(u) /\ OthersStay(u) /\ user[u].stage \notin Resting /\ user'[u].stage \notin Resting
        /\ (Inside(u)' => Inside(u)) /\ (Loading(u)' => Loading(u))
    <2>1. stage \in Stages
      BY <1>1 DEF Stages
    <2> QED BY <1>1, <2>1, QuietMove
  <1>3. FilesStay(u)
    BY <1>0, <1>1, <1>2 DEF FilesStay, Resting
  <1> QED BY <1>2, <1>3, QuietVoice

LEMMA UseRecords ==
  /\ NoUse \in UserRecord /\ NoUse.stage = "idle" /\ NoUse.model = 0
  /\ Done \in UserRecord /\ Done.stage = "done" /\ Done.model = 0
  BY DEF NoUse, Done, UserRecord, Stages

LEMMA UploadKeeps ==
  ASSUME VoiceInv, NEW c \in Conversions, NEW v \in Voices, NEW d \in BOOLEAN, Upload(c, v, d)
  PROVE  VoiceInv'
  <1>1. PICK e : e = [NoUse EXCEPT !.stage = "copying", !.voice = v, !.dtln = d]
    OBVIOUS
  <1>2. e \in UserRecord /\ e.stage = "copying" /\ e.voice = v /\ e.model = 0
    BY <1>1 DEF NoUse, UserRecord, Stages
  <1>3. user' = [user EXCEPT ![c] = e]
    BY <1>1 DEF Upload
  <1>4. OthersStay(c) /\ user'[c] = e
    BY <1>2, <1>3, UsersDiffer, Leaves DEF VoiceInv, EngineTypes
  <1>5. /\ UNCHANGED <<shelf, pretrain, denoising, cache, voiceOf, dtln, overlapped, wav, mp3, returned, crashes>>
        /\ user[c].stage = "idle" /\ temp' = [temp EXCEPT ![c] = "whole"]
    BY UseRecords DEF Upload, veDisk, veFiles, veHistory
  <1>6. QuietStep(c)
    BY <1>2, <1>4, <1>5 DEF VoiceInv, EngineTypes, QuietStep
  <1>7. FilesStay(c)
    BY <1>2, <1>4, <1>5 DEF VoiceInv, FilesKept, FilesStay, Resting, FileStates
  <1>8. ~Inside(c)' /\ ~Loading(c)'
    BY <1>2, <1>4 DEF Inside, Loading
  <1> QED BY <1>6, <1>7, <1>8, UsersDiffer, QuietVoice

\* The lock: nobody else is inside, and a session that is loading is written down.
LEMMA EnterKeeps ==
  ASSUME VoiceInv, NEW c \in Conversions, EnterEngine(c)
  PROVE  VoiceInv'
  <1>1. /\ At(c, "check") /\ user[c].stage = "copying" /\ overlapped' = (overlapped \/ Loading(LiveLane))
        /\ UNCHANGED <<shelf, pretrain, denoising, cache, voiceOf, dtln, temp, wav, mp3, returned, crashes>>
        /\ \A x \in Conversions : ~Inside(x)
    BY DEF EnterEngine, veDisk, veFiles
  <1>2. MovedTo(c, "check")
    <2>1. "check" \in Stages
      BY DEF Stages
    <2> QED BY <1>1, <2>1, UsersDiffer, Moves DEF VoiceInv, EngineTypes
  <1>3. Loading(LiveLane) \in BOOLEAN
    BY DEF Loading
  <1>4. QuietStep(c)
    <2>1. overlapped' \in BOOLEAN /\ (overlapped => overlapped')
      BY <1>1, <1>3 DEF VoiceInv, EngineTypes
    <2> QED BY <1>1, <1>2, <2>1, UsersDiffer DEF VoiceInv, EngineTypes, MovedTo, QuietStep, Resting
  <1>5. FilesStay(c)
    BY <1>1, <1>2 DEF VoiceInv, FilesKept, FilesStay, MovedTo, Resting
  <1>6. OneAtATime'
    <2>1. \A x \in Conversions : x # c => ~Inside(x)'
      BY <1>1, <1>2, UsersDiffer DEF MovedTo, OthersStay, Inside
    <2>2. overlapped' \/ \A x \in Conversions : ~(Loading(x)' /\ Loading(LiveLane)')
      <3>1. Loading(LiveLane)' => Loading(LiveLane)
        BY <1>2, UsersDiffer DEF MovedTo, OthersStay, Loading
      <3> QED BY <1>1, <3>1
    <2> QED BY <2>1, <2>2 DEF OneAtATime
  <1> QED BY <1>2, <1>4, <1>5, <1>6, UsersDiffer, QuietKeeps, FilesStayKept DEF VoiceInv, MovedTo

LEMMA FailsKeeps ==
  ASSUME VoiceInv, NEW c \in Conversions, ConvertFails(c)
  PROVE  VoiceInv'
  <1>1. /\ UNCHANGED <<shelf, pretrain, denoising, cache, voiceOf, dtln, overlapped, wav, mp3, returned, crashes>>
        /\ user[c].stage \in {"copying", "check", "loading", "loaded", "denoise", "extract", "writing"}
        /\ temp' = [temp EXCEPT ![c] = "none"] /\ user' = [user EXCEPT ![c] = Done]
    BY DEF ConvertFails, veDisk, veFiles, veHistory
  <1>2. OthersStay(c) /\ user'[c] = Done
    BY <1>1, UseRecords, UsersDiffer, Leaves DEF VoiceInv, EngineTypes
  <1>3. QuietStep(c)
    BY <1>1, <1>2, UseRecords DEF VoiceInv, EngineTypes, QuietStep, Resting
  <1>4. FilesStay(c)
    BY <1>1, <1>2 DEF VoiceInv, FilesKept, FilesStay, FileStates
  <1>5. ~Inside(c)' /\ ~Loading(c)'
    BY <1>2, UseRecords DEF Inside, Loading
  <1> QED BY <1>3, <1>4, <1>5, UsersDiffer, QuietVoice

LEMMA ExtractFailsKeeps ==
  ASSUME VoiceInv, NEW u \in Users, ExtractFails(u)
  PROVE  VoiceInv'
  <1>1. /\ UNCHANGED <<shelf, pretrain, denoising, cache, voiceOf, dtln, overlapped, wav, mp3, returned, crashes>>
        /\ user[u].stage = "extract" /\ temp' = [c \in Conversions |-> IF c = u THEN "none" ELSE temp[c]]
        /\ user' = [user EXCEPT ![u] = IF u = LiveLane THEN [@ EXCEPT !.stage = "live"] ELSE Done]
    BY DEF ExtractFails, veDisk, veFiles, veHistory
  <1>2. PICK e : e = IF u = LiveLane THEN [user[u] EXCEPT !.stage = "live"] ELSE Done
    OBVIOUS
  <1>3. /\ e \in UserRecord /\ e.stage \in {"live", "done"} /\ (e.stage = "live" => u = LiveLane)
        /\ e.model = 0 \/ (e.model = user[u].model /\ e.voice = user[u].voice)
        /\ e.stage # "done" => e.voice \in Voices
    <2>1. CASE u = LiveLane
      <3>1. e = [user[u] EXCEPT !.stage = "live"] /\ user[u] \in UserRecord /\ user[u].voice \in Voices
        BY <1>1, <1>2, <2>1 DEF VoiceInv, EngineTypes, Resting
      <3> QED BY <2>1, <3>1 DEF UserRecord, Stages
    <2>2. CASE u # LiveLane
      BY <1>2, <2>2, UseRecords
    <2> QED BY <2>1, <2>2
  <1>4. user' = [user EXCEPT ![u] = e]
    BY <1>1, <1>2
  <1>5. OthersStay(u) /\ user'[u] = e
    BY <1>3, <1>4, Leaves DEF VoiceInv, EngineTypes
  <1>6. QuietStep(u)
    BY <1>1, <1>3, <1>5 DEF VoiceInv, EngineTypes, QuietStep, Resting
  <1>7. FilesStay(u)
    BY <1>1, <1>3, <1>5 DEF VoiceInv, FilesKept, FilesStay, FileStates
  <1>8. Inside(u) /\ ~Loading(u)'
    BY <1>1, <1>3, <1>5 DEF Inside, Loading
  <1> QED BY <1>6, <1>7, <1>8, QuietVoice

\* What the history rules out: two that load at once.
LoadsAlone(u) == \A x \in Users : Loading(x) => x = u

\* Whoever loads is the only one that does, unless a session overlaps a conversion.
LEMMA LoaderIsAlone ==
  ASSUME VoiceInv, ~overlapped, NEW u \in Users, Loading(u)
  PROVE  LoadsAlone(u)
  <1>1. \A x \in Users : x \in Conversions \/ x = LiveLane
    BY DEF Users
  <1>2. \A x \in Conversions : Loading(x) => Inside(x)
    BY DEF Loading, Inside
  <1> QED BY <1>1, <1>2 DEF VoiceInv, OneAtATime, LoadsAlone

\* The model is found: it is the one the id names.
LEMMA CheckKeeps ==
  ASSUME VoiceInv, NEW u \in Users, CheckCache(u)
  PROVE  VoiceInv'
  <1>1. /\ UNCHANGED <<shelf, pretrain, denoising, cache, voiceOf, dtln, overlapped, temp, wav, mp3, returned, crashes>>
        /\ user[u].stage = "check"
    BY DEF CheckCache, veDisk, veFiles, veHistory
  <1>2. PICK stage \in {"taking", "loading"} :
          At(u, stage) /\ (stage = "taking" => cache.id = user[u].voice /\ cache.model # 0)
    BY DEF CheckCache
  <1>3. MovedTo(u, stage)
    <2>1. stage \in Stages
      BY DEF Stages
    <2> QED BY <1>2, <2>1, Moves DEF VoiceInv, EngineTypes
  <1>4. FilesStay(u)
    BY <1>1, <1>3 DEF VoiceInv, FilesKept, FilesStay, MovedTo, Resting
  <1>5. (Inside(u)' => Inside(u)) /\ (Loading(u)' => Loading(u)) /\ Loading(u)
    BY <1>1, <1>3 DEF MovedTo, Inside, Loading
  <1>6. OneAtATime' /\ FilesKept'
    BY <1>1, <1>3, <1>4, <1>5, StaysOne, FilesStayKept DEF VoiceInv, MovedTo
  <1>7. CASE stage = "loading"
    <2>1. QuietStep(u)
      BY <1>1, <1>3, <1>7 DEF VoiceInv, EngineTypes, MovedTo, QuietStep, Resting
    <2> QED BY <1>4, <1>5, <2>1, QuietVoice
  <1>8. CASE stage = "taking"
    <2>1. EngineTypes'
      <3>1. ASSUME NEW x \in Users
            PROVE  /\ user'[x].stage \notin Resting => user'[x].voice \in Voices
                   /\ user'[x].model <= Len(voiceOf)
        BY <1>1, <1>3 DEF VoiceInv, EngineTypes, MovedTo, OthersStay, Resting
      <3> QED BY <1>1, <1>3, <3>1 DEF VoiceInv, EngineTypes, MovedTo, OthersStay
    <2>2. CacheNames'
      <3>1. CASE overlapped
        BY <1>1, <3>1 DEF CacheNames
      <3>2. CASE ~overlapped
        <4>1. LoadsAlone(u)
          BY <1>5, <3>2, LoaderIsAlone
        <4>2. \A x \in Users : user[x].stage # "naming" /\ (x # u => user[x].stage # "taking")
          BY <1>1, <4>1 DEF LoadsAlone, Loading
        <4>3. user[u].voice # NoVoice
          BY <1>1, VoiceEngineAssumption DEF VoiceInv, EngineTypes, Resting
        <4>4. cache.model # 0 /\ voiceOf[cache.model] = user[u].voice /\ cache.id = user[u].voice
          BY <1>2, <1>8, <3>2, <4>2, <4>3 DEF VoiceInv, CacheNames
        <4>5. \A x \in Users : user'[x].model = user[x].model /\ user'[x].voice = user[x].voice
          BY <1>3 DEF MovedTo, OthersStay
        <4>6. \A x \in Users : user'[x].stage \in {"naming", "taking"} => x = u
          BY <1>3, <4>2 DEF MovedTo, OthersStay
        <4> QED BY <1>1, <3>2, <4>4, <4>5, <4>6 DEF VoiceInv, CacheNames
      <3> QED BY <3>1, <3>2 DEF VoiceInv, EngineTypes
    <2> QED BY <1>6, <2>1, <2>2 DEF VoiceInv
  <1> QED BY <1>7, <1>8

LEMMA LoadKeeps ==
  ASSUME VoiceInv, NEW u \in Users, LoadModel(u)
  PROVE  VoiceInv'
  <1>1. /\ UNCHANGED <<shelf, pretrain, denoising, dtln, overlapped, temp, wav, mp3, returned, crashes>>
        /\ user[u].stage = "loading" /\ voiceOf' = Append(voiceOf, user[u].voice)
        /\ cache' = [cache EXCEPT !.model = Len(voiceOf')] /\ At(u, "naming")
    BY DEF LoadModel, veDisk, veFiles, veHistory
  <1>2. MovedTo(u, "naming")
    <2>1. "naming" \in Stages
      BY DEF Stages
    <2> QED BY <1>1, <2>1, Moves DEF VoiceInv, EngineTypes
  <1>3. PICK n \in Nat : n = Len(voiceOf)
    BY DEF VoiceInv, EngineTypes
  <1>4. /\ voiceOf' \in Seq(Voices \union {NoVoice}) /\ Len(voiceOf') = n + 1
        /\ voiceOf'[n + 1] = user[u].voice
        /\ \A i \in 1..n : voiceOf'[i] = voiceOf[i]
    <2>1. user[u].voice \in Voices \union {NoVoice}
      BY DEF VoiceInv, EngineTypes, UserRecord
    <2> QED BY <1>1, <1>3, <2>1 DEF VoiceInv, EngineTypes
  <1>5. cache' \in [id : Voices \union {NoVoice}, model : Nat] /\ cache'.model = n + 1
    <2>1. PICK m \in Nat : m = n + 1
      OBVIOUS
    <2>2. cache' = [cache EXCEPT !.model = m]
      BY <1>1, <1>4, <2>1
    <2> QED BY <2>1, <2>2 DEF VoiceInv, EngineTypes
  <1>6. EngineTypes'
    <2>1. ASSUME NEW x \in Users
          PROVE  /\ user'[x].stage \notin Resting => user'[x].voice \in Voices
                 /\ user'[x].model <= Len(voiceOf')
      <3>1. user'[x].model = user[x].model /\ user'[x].voice = user[x].voice
        BY <1>2 DEF MovedTo, OthersStay
      <3>2. user[x].model \in Nat /\ user[x].model <= n
        BY <1>3 DEF VoiceInv, EngineTypes, UserRecord
      <3>3. user'[x].stage \notin Resting => user[x].stage \notin Resting
        BY <1>1, <1>2 DEF MovedTo, OthersStay, Resting
      <3> QED BY <1>4, <3>1, <3>2, <3>3 DEF VoiceInv, EngineTypes
    <2> QED BY <1>1, <1>2, <1>4, <1>5, <2>1 DEF VoiceInv, EngineTypes, MovedTo, OthersStay
  <1>7. OneAtATime' /\ FilesKept'
    <2>1. FilesStay(u)
      BY <1>1, <1>2 DEF VoiceInv, FilesKept, FilesStay, MovedTo, Resting
    <2>2. (Inside(u)' => Inside(u)) /\ (Loading(u)' => Loading(u))
      BY <1>1, <1>2 DEF MovedTo, Inside, Loading
    <2> QED BY <1>1, <1>2, <2>1, <2>2, StaysOne, FilesStayKept DEF VoiceInv, MovedTo
  <1>8. CacheNames'
    <2>1. CASE overlapped
      BY <1>1, <2>1 DEF CacheNames
    <2>2. CASE ~overlapped
      <3>1. Loading(u)
        BY <1>1 DEF Loading
      <3>2. LoadsAlone(u)
        BY <2>2, <3>1, LoaderIsAlone
      <3>3. \A x \in Users : user'[x].stage \in {"naming", "taking"} => x = u
        BY <1>2, <3>2 DEF MovedTo, OthersStay, LoadsAlone, Loading
      <3>4. ASSUME NEW x \in Users, user'[x].model # 0
            PROVE  voiceOf'[user'[x].model] = user'[x].voice
        <4>1. user'[x].model = user[x].model /\ user'[x].voice = user[x].voice
          BY <1>2 DEF MovedTo, OthersStay
        <4>2. user[x].model \in 1..n
          BY <1>3, <3>4, <4>1 DEF VoiceInv, EngineTypes, UserRecord
        <4>3. voiceOf[user[x].model] = user[x].voice
          BY <2>2, <3>4, <4>1 DEF VoiceInv, CacheNames
        <4> QED BY <1>4, <4>1, <4>2, <4>3
      <3>5. cache'.model # 0 /\ voiceOf'[cache'.model] = user'[u].voice
        BY <1>2, <1>4, <1>5 DEF MovedTo
      <3>6. user'[u].stage = "naming"
        BY <1>2 DEF MovedTo
      <3> QED BY <3>3, <3>4, <3>5, <3>6 DEF CacheNames
    <2> QED BY <2>1, <2>2 DEF VoiceInv, EngineTypes
  <1> QED BY <1>6, <1>7, <1>8 DEF VoiceInv

LEMMA NameKeeps ==
  ASSUME VoiceInv, NEW u \in Users, NameModel(u)
  PROVE  VoiceInv'
  <1>1. /\ UNCHANGED <<shelf, pretrain, denoising, voiceOf, dtln, overlapped, temp, wav, mp3, returned, crashes>>
        /\ user[u].stage = "naming" /\ cache' = [cache EXCEPT !.id = user[u].voice] /\ At(u, "taking")
    BY DEF NameModel, veDisk, veFiles, veHistory
  <1>2. MovedTo(u, "taking")
    <2>1. "taking" \in Stages
      BY DEF Stages
    <2> QED BY <1>1, <2>1, Moves DEF VoiceInv, EngineTypes
  <1>3. /\ cache' \in [id : Voices \union {NoVoice}, model : Nat] /\ cache'.model = cache.model
        /\ cache'.id = user[u].voice
    <2>1. user[u].voice \in Voices \union {NoVoice}
      BY DEF VoiceInv, EngineTypes, UserRecord
    <2> QED BY <1>1, <2>1 DEF VoiceInv, EngineTypes
  <1>4. \A x \in Users : user'[x].model = user[x].model /\ user'[x].voice = user[x].voice
    BY <1>2 DEF MovedTo, OthersStay
  <1>5. EngineTypes'
    <2>1. ASSUME NEW x \in Users
          PROVE  /\ user'[x].stage \notin Resting => user'[x].voice \in Voices
                 /\ user'[x].model <= Len(voiceOf)
      BY <1>1, <1>2 DEF VoiceInv, EngineTypes, MovedTo, OthersStay, Resting
    <2> QED BY <1>1, <1>2, <1>3, <2>1 DEF VoiceInv, EngineTypes, MovedTo, OthersStay
  <1>6. OneAtATime' /\ FilesKept'
    <2>1. FilesStay(u)
      BY <1>1, <1>2 DEF VoiceInv, FilesKept, FilesStay, MovedTo, Resting
    <2>2. (Inside(u)' => Inside(u)) /\ (Loading(u)' => Loading(u))
      BY <1>1, <1>2 DEF MovedTo, Inside, Loading
    <2> QED BY <1>1, <1>2, <2>1, <2>2, StaysOne, FilesStayKept DEF VoiceInv, MovedTo
  <1>7. CacheNames'
    <2>1. CASE overlapped
      BY <1>1, <2>1 DEF CacheNames
    <2>2. CASE ~overlapped
      <3>1. Loading(u)
        BY <1>1 DEF Loading
      <3>2. LoadsAlone(u)
        BY <2>2, <3>1, LoaderIsAlone
      <3>3. \A x \in Users : user'[x].stage \in {"naming", "taking"} => x = u
        BY <1>2, <3>2 DEF MovedTo, OthersStay, LoadsAlone, Loading
      <3>4. cache.model # 0 /\ voiceOf[cache.model] = user[u].voice
        BY <1>1, <2>2 DEF VoiceInv, CacheNames
      <3> QED BY <1>1, <1>3, <1>4, <2>2, <3>3, <3>4 DEF VoiceInv, CacheNames
    <2> QED BY <2>1, <2>2 DEF VoiceInv, EngineTypes
  <1> QED BY <1>5, <1>6, <1>7 DEF VoiceInv

LEMMA TakeKeeps ==
  ASSUME VoiceInv, NEW u \in Users, TakeModel(u)
  PROVE  VoiceInv'
  <1>1. /\ UNCHANGED <<shelf, pretrain, denoising, cache, voiceOf, dtln, overlapped, temp, wav, mp3, returned, crashes>>
        /\ user[u].stage = "taking"
        /\ user' = [user EXCEPT ![u].stage = "loaded", ![u].model = cache.model]
    BY DEF TakeModel, veDisk, veFiles, veHistory
  <1>2. PICK e : e = [user[u] EXCEPT !.stage = "loaded", !.model = cache.model]
    OBVIOUS
  <1>3. e \in UserRecord /\ e.stage = "loaded" /\ e.model = cache.model /\ e.voice = user[u].voice
    <2>1. user[u] \in UserRecord /\ cache.model \in Nat
      BY DEF VoiceInv, EngineTypes
    <2> QED BY <1>2, <2>1 DEF UserRecord, Stages
  <1>4. user' = [user EXCEPT ![u] = e]
    BY <1>1, <1>2
  <1>5. OthersStay(u) /\ user'[u] = e
    BY <1>3, <1>4, Leaves DEF VoiceInv, EngineTypes
  <1>6. EngineTypes'
    <2>1. ASSUME NEW x \in Users
          PROVE  /\ user'[x].stage \notin Resting => user'[x].voice \in Voices
                 /\ user'[x].model <= Len(voiceOf)
      BY <1>1, <1>3, <1>5 DEF VoiceInv, EngineTypes, OthersStay, Resting
    <2> QED BY <1>1, <1>5, <2>1 DEF VoiceInv, EngineTypes, OthersStay
  <1>7. OneAtATime' /\ FilesKept'
    <2>1. FilesStay(u)
      BY <1>1, <1>3, <1>5 DEF VoiceInv, FilesKept, FilesStay, Resting
    <2>2. (Inside(u)' => Inside(u)) /\ (Loading(u)' => Loading(u))
      BY <1>1, <1>3, <1>5 DEF Inside, Loading
    <2> QED BY <1>1, <1>5, <2>1, <2>2, StaysOne, FilesStayKept DEF VoiceInv
  <1>8. CacheNames'
    <2>1. CASE overlapped
      BY <1>1, <2>1 DEF CacheNames
    <2>2. CASE ~overlapped
      <3>1. cache.model # 0 /\ voiceOf[cache.model] = user[u].voice
        BY <1>1, <2>2 DEF VoiceInv, CacheNames
      <3>2. ASSUME NEW x \in Users
            PROVE  /\ user'[x].model # 0 => voiceOf[user'[x].model] = user'[x].voice
                   /\ user'[x].stage \in {"naming", "taking"} => user'[x] = user[x]
                   /\ user[x].stage = "naming" => user'[x].stage = "naming"
        BY <1>1, <1>3, <1>5, <2>2, <3>1 DEF VoiceInv, CacheNames, OthersStay
      <3> QED BY <1>1, <2>2, <3>2 DEF VoiceInv, CacheNames
    <2> QED BY <2>1, <2>2 DEF VoiceInv, EngineTypes
  <1> QED BY <1>6, <1>7, <1>8 DEF VoiceInv

\* The files of a conversion.
LEMMA ConvertKeeps ==
  ASSUME VoiceInv, NEW c \in Conversions, Convert(c)
  PROVE  VoiceInv'
  <1>1. /\ UNCHANGED <<shelf, pretrain, denoising, cache, voiceOf, dtln, overlapped, temp, mp3, returned, crashes>>
        /\ user[c].stage = "extract" /\ At(c, "writing") /\ wav' = [wav EXCEPT ![c] = "partial"]
    BY DEF Convert, veDisk, veHistory
  <1>2. /\ QuietStep(c) /\ OthersStay(c) /\ user'[c].stage \notin Resting
        /\ (Inside(c)' => Inside(c)) /\ (Loading(c)' => Loading(c))
    <2>1. "writing" \in Stages /\ dtln' \in Users \union {NoUser}
      BY <1>1 DEF Stages, VoiceInv, EngineTypes
    <2> QED BY <1>1, <2>1, UsersDiffer, QuietMove
  <1>3. FilesKept'
    <2>1. c \notin returned
      BY <1>1 DEF VoiceInv, FilesKept
    <2>2. \A x \in Conversions : x # c => user'[x] = user[x]
      BY <1>2, UsersDiffer DEF OthersStay
    <2>3. wav' \in [Conversions -> FileStates] /\ \A x \in Conversions : x # c => wav'[x] = wav[x]
      BY <1>1 DEF VoiceInv, FilesKept, FileStates
    <2>4. \A x \in returned' : wav'[x] = "whole" /\ user'[x].stage = "done"
      BY <1>1, <2>1, <2>2, <2>3 DEF VoiceInv, FilesKept
    <2>5. ASSUME crashes' = 0, NEW x \in Conversions
          PROVE  (temp'[x] # "none" => user'[x].stage \notin Resting) /\ mp3'[x] # "partial"
      BY <1>1, <1>2, <2>2, <2>5 DEF VoiceInv, FilesKept
    <2> QED BY <1>1, <2>3, <2>4, <2>5 DEF VoiceInv, FilesKept
  <1> QED BY <1>1, <1>2, <1>3, UsersDiffer, QuietKeeps, StaysOne DEF VoiceInv

LEMMA DoneKeeps ==
  ASSUME VoiceInv, NEW c \in Conversions, ConvertDone(c)
  PROVE  VoiceInv'
  <1>1. /\ UNCHANGED <<shelf, pretrain, denoising, cache, voiceOf, dtln, overlapped, mp3, crashes>>
        /\ user[c].stage = "writing" /\ user' = [user EXCEPT ![c] = Done]
        /\ wav' = [wav EXCEPT ![c] = "whole"] /\ temp' = [temp EXCEPT ![c] = "none"]
        /\ returned' = returned \union {c}
    BY DEF ConvertDone, veDisk, veHistory
  <1>2. OthersStay(c) /\ user'[c] = Done
    BY <1>1, UseRecords, UsersDiffer, Leaves DEF VoiceInv, EngineTypes
  <1>3. QuietStep(c)
    BY <1>1, <1>2, UseRecords DEF VoiceInv, EngineTypes, QuietStep, Resting
  <1>4. ~Inside(c)' /\ ~Loading(c)'
    BY <1>2, UseRecords DEF Inside, Loading
  <1>5. FilesKept'
    <2>1. \A x \in Conversions : x # c => user'[x] = user[x]
      BY <1>2, UsersDiffer DEF OthersStay
    <2>2. /\ wav' \in [Conversions -> FileStates] /\ wav'[c] = "whole"
          /\ temp' \in [Conversions -> FileStates] /\ temp'[c] = "none"
          /\ \A x \in Conversions : x # c => wav'[x] = wav[x] /\ temp'[x] = temp[x]
      BY <1>1 DEF VoiceInv, FilesKept, FileStates
    <2>3. \A x \in returned' : wav'[x] = "whole" /\ user'[x].stage = "done"
      BY <1>1, <1>2, <2>1, <2>2, UseRecords DEF VoiceInv, FilesKept
    <2>4. ASSUME crashes' = 0, NEW x \in Conversions
          PROVE  (temp'[x] # "none" => user'[x].stage \notin Resting) /\ mp3'[x] # "partial"
      BY <1>1, <2>1, <2>2, <2>4 DEF VoiceInv, FilesKept
    <2> QED BY <1>1, <2>2, <2>3, <2>4 DEF VoiceInv, FilesKept
  <1> QED BY <1>2, <1>3, <1>4, <1>5, UsersDiffer, QuietKeeps, StaysOne DEF VoiceInv, QuietStep

LEMMA ExportKeeps ==
  ASSUME VoiceInv, NEW c \in Conversions, ExportMp3(c)
  PROVE  VoiceInv'
  <1>1. /\ UNCHANGED <<shelf, pretrain, denoising, cache, voiceOf, dtln, overlapped, user, temp, wav, returned, crashes>>
        /\ mp3' = [mp3 EXCEPT ![c] = "whole"]
    BY DEF ExportMp3, veDisk, veHistory
  <1>2. mp3' \in [Conversions -> FileStates] /\ \A x \in Conversions : mp3'[x] = "whole" \/ mp3'[x] = mp3[x]
    BY <1>1 DEF VoiceInv, FilesKept, FileStates
  <1>3. FilesKept'
    BY <1>1, <1>2 DEF VoiceInv, FilesKept
  <1> QED BY <1>1, <1>3 DEF VoiceInv, EngineTypes, OneAtATime, CacheNames, Inside, Loading

LEMMA DiskKeeps ==
  ASSUME VoiceInv, ChangeDisk
  PROVE  VoiceInv'
  <1>1. /\ UNCHANGED <<cache, voiceOf, dtln, overlapped, user, temp, wav, mp3, returned, crashes>>
        /\ shelf' \subseteq Voices /\ pretrain' \subseteq AssetFiles /\ denoising' \in BOOLEAN
    BY DEF ChangeDisk, VoiceInv, EngineTypes, veFiles, veHistory
  <1> QED BY <1>1 DEF VoiceInv, EngineTypes, OneAtATime, CacheNames, FilesKept, Inside, Loading

\* The session takes no lock: when it comes in beside a conversion, the history says so.
LEMMA StartLiveKeeps ==
  ASSUME VoiceInv, NEW v \in Voices, StartLive(v)
  PROVE  VoiceInv'
  <1>1. PICK e : e = [NoUse EXCEPT !.stage = "check", !.voice = v]
    OBVIOUS
  <1>2. e \in UserRecord /\ e.stage = "check" /\ e.voice = v /\ e.model = 0
    BY <1>1 DEF NoUse, UserRecord, Stages
  <1>3. /\ UNCHANGED <<shelf, pretrain, denoising, cache, voiceOf, dtln, temp, wav, mp3, returned, crashes>>
        /\ user[LiveLane].stage = "idle" /\ user' = [user EXCEPT ![LiveLane] = e]
        /\ overlapped' = (overlapped \/ \E c \in Conversions : Loading(c))
    BY <1>1, UseRecords DEF StartLive, veDisk, veFiles
  <1>4. OthersStay(LiveLane) /\ user'[LiveLane] = e
    BY <1>2, <1>3, Leaves DEF VoiceInv, EngineTypes, Users
  <1>5. LiveLane \in Users /\ LiveLane \notin Conversions
    BY VoiceEngineAssumption DEF Users
  <1>6. QuietStep(LiveLane)
    <2>1. overlapped' \in BOOLEAN /\ (overlapped => overlapped')
      BY <1>3 DEF VoiceInv, EngineTypes
    <2> QED BY <1>2, <1>3, <1>4, <2>1 DEF VoiceInv, EngineTypes, QuietStep
  <1>7. FilesStay(LiveLane)
    BY <1>3, <1>5 DEF VoiceInv, FilesKept, FilesStay
  <1>8. OneAtATime'
    <2>1. \A c \in Conversions : (Inside(c)' <=> Inside(c)) /\ (Loading(c)' <=> Loading(c))
      BY <1>4, UsersDiffer DEF OthersStay, Inside, Loading
    <2>2. overlapped' \/ \A c \in Conversions : ~(Loading(c)' /\ Loading(LiveLane)')
      BY <1>3, <2>1
    <2> QED BY <2>1, <2>2 DEF VoiceInv, OneAtATime
  <1> QED BY <1>4, <1>5, <1>6, <1>7, <1>8, QuietKeeps, FilesStayKept DEF VoiceInv

\* The session's own steps, but for its loading.
LEMMA LiveKeeps ==
  ASSUME VoiceInv, GoLive \/ LiveChunk \/ StopLive
  PROVE  VoiceInv'
  <1>1. LiveLane \in Users /\ LiveLane \notin Conversions
    BY VoiceEngineAssumption DEF Users
  <1>2. PICK e \in UserRecord :
          /\ user' = [user EXCEPT ![LiveLane] = e]
          /\ \/ e.model = 0
             \/ e.model = user[LiveLane].model /\ e.voice = user[LiveLane].voice
          /\ e.stage \in {"idle", "live", "extract"}
          /\ e.stage # "idle" => e.voice \in Voices /\ user[LiveLane].stage \in {"loaded", "live"}
          /\ user[LiveLane].stage \in {"check", "loading", "loaded", "live"}
    <2>0. user[LiveLane] \in UserRecord /\ denoising \in BOOLEAN
      BY <1>1 DEF VoiceInv, EngineTypes
    <2>1. CASE StopLive
      BY <2>1, UseRecords DEF StopLive
    <2>2. CASE GoLive
      <3>1. PICK e : e = [user[LiveLane] EXCEPT !.stage = "live", !.dtln = denoising]
        OBVIOUS
      <3>2. user' = [user EXCEPT ![LiveLane] = e] /\ user[LiveLane].stage = "loaded"
        BY <2>2, <3>1 DEF GoLive
      <3>3. /\ e \in UserRecord /\ e.stage = "live"
            /\ e.model = user[LiveLane].model /\ e.voice = user[LiveLane].voice
        BY <2>0, <3>1 DEF UserRecord, Stages
      <3>4. user[LiveLane].voice \in Voices
        BY <1>1, <3>2 DEF VoiceInv, EngineTypes, Resting
      <3> QED BY <3>2, <3>3, <3>4
    <2>3. CASE LiveChunk
      <3>1. PICK e : e = [user[LiveLane] EXCEPT !.stage = "extract", !.dtln = denoising]
        OBVIOUS
      <3>2. user' = [user EXCEPT ![LiveLane] = e] /\ user[LiveLane].stage = "live"
        BY <2>3, <3>1 DEF LiveChunk
      <3>3. /\ e \in UserRecord /\ e.stage = "extract"
            /\ e.model = user[LiveLane].model /\ e.voice = user[LiveLane].voice
        BY <2>0, <3>1 DEF UserRecord, Stages
      <3>4. user[LiveLane].voice \in Voices
        BY <1>1, <3>2 DEF VoiceInv, EngineTypes, Resting
      <3> QED BY <3>2, <3>3, <3>4
    <2> QED BY <2>1, <2>2, <2>3
  <1>3. /\ UNCHANGED <<shelf, pretrain, denoising, cache, voiceOf, overlapped, temp, wav, mp3, returned, crashes>>
        /\ dtln' \in Users \union {NoUser}
    BY <1>1 DEF VoiceInv, EngineTypes, GoLive, LiveChunk, StopLive, veDisk, veFiles, veHistory
  <1>4. OthersStay(LiveLane) /\ user'[LiveLane] = e
    BY <1>1, <1>2, Leaves DEF VoiceInv, EngineTypes
  <1>5. QuietStep(LiveLane)
    BY <1>2, <1>3, <1>4 DEF VoiceInv, EngineTypes, QuietStep, Resting
  <1>6. FilesStay(LiveLane)
    BY <1>1, <1>2, <1>3 DEF VoiceInv, FilesKept, FilesStay
  <1>7. (Inside(LiveLane)' => Inside(LiveLane)) /\ ~Loading(LiveLane)'
    BY <1>2, <1>4 DEF Inside, Loading
  <1> QED BY <1>1, <1>5, <1>6, <1>7, QuietVoice

\* A crash leaves the files; every conversion that was under way is over.
LEMMA CrashKeeps ==
  ASSUME VoiceInv, CrashVoice
  PROVE  VoiceInv'
  <1>1. /\ UNCHANGED <<shelf, pretrain, denoising, temp, wav, returned, overlapped>>
        /\ crashes' = crashes + 1 /\ cache' = NothingCached /\ voiceOf' = <<>> /\ dtln' = NoUser
        /\ user' = [u \in Users |-> IF u = LiveLane \/ user[u] = NoUse THEN NoUse ELSE Done]
    BY DEF CrashVoice, veDisk
  <1>2. user' \in [Users -> UserRecord] /\ \A u \in Users : user'[u] = NoUse \/ user'[u] = Done
    BY <1>1, UseRecords
  <1>3. EngineTypes'
    <2>1. cache' \in [id : Voices \union {NoVoice}, model : Nat] /\ cache'.model = 0
      BY <1>1 DEF NothingCached
    <2>2. \A u \in Users : user'[u].stage \in Resting /\ user'[u].model = 0
      BY <1>2, UseRecords DEF Resting
    <2>3. voiceOf' \in Seq(Voices \union {NoVoice}) /\ Len(voiceOf') = 0
      BY <1>1
    <2> QED BY <1>1, <1>2, <2>1, <2>2, <2>3 DEF VoiceInv, EngineTypes
  <1>4. OneAtATime'
    <2>1. \A c \in Conversions : ~Inside(c)' /\ ~Loading(c)'
      BY <1>2, UsersDiffer, UseRecords DEF Inside, Loading
    <2> QED BY <2>1 DEF OneAtATime
  <1>5. CacheNames'
    <2>1. cache'.id = NoVoice
      BY <1>1 DEF NothingCached
    <2>2. \A u \in Users : user'[u].model = 0 /\ user'[u].stage \notin {"naming", "taking"}
      BY <1>2, UseRecords
    <2> QED BY <2>1, <2>2 DEF CacheNames
  <1>6. FilesKept'
    <2>1. \A c \in returned : user[c].stage = "done" /\ c \in Users /\ c # LiveLane
      BY UsersDiffer DEF VoiceInv, FilesKept
    <2>2. \A c \in returned : user'[c] = Done
      BY <1>1, <2>1, UseRecords
    <2>3. crashes' # 0 /\ crashes' \in Nat
      BY <1>1 DEF VoiceInv, FilesKept
    <2>4. mp3' \in [Conversions -> FileStates]
      BY DEF CrashVoice, VoiceInv, FilesKept, FileStates
    <2> QED BY <1>1, <2>2, <2>3, <2>4, UseRecords DEF VoiceInv, FilesKept
  <1> QED BY <1>3, <1>4, <1>5, <1>6 DEF VoiceInv

LEMMA VoiceStart == VoiceInit => VoiceInv
  <1> SUFFICES ASSUME VoiceInit PROVE VoiceInv
    OBVIOUS
  <1>1. /\ shelf = Voices /\ pretrain = AssetFiles /\ denoising = FALSE
        /\ cache = NothingCached /\ voiceOf = <<>> /\ dtln = NoUser
        /\ user = [u \in Users |-> NoUse] /\ overlapped = FALSE /\ crashes = 0
        /\ temp = [c \in Conversions |-> "none"] /\ wav = temp /\ mp3 = temp /\ returned = {}
    BY DEF VoiceInit
  <1>2. \A u \in Users : user[u] = NoUse
    BY <1>1
  <1>3. EngineTypes
    <2>1. cache \in [id : Voices \union {NoVoice}, model : Nat] /\ cache.model = 0
      BY <1>1 DEF NothingCached
    <2>2. \A u \in Users : user[u].stage \in Resting /\ user[u].model = 0
      BY <1>2, UseRecords DEF Resting
    <2>3. voiceOf \in Seq(Voices \union {NoVoice}) /\ Len(voiceOf) = 0
      BY <1>1
    <2>4. user \in [Users -> UserRecord]
      BY <1>1, UseRecords
    <2>5. shelf = Voices /\ pretrain = AssetFiles /\ denoising \in BOOLEAN /\ dtln = NoUser /\ overlapped \in BOOLEAN
      BY <1>1
    <2> QED BY <2>1, <2>2, <2>3, <2>4, <2>5 DEF EngineTypes
  <1>4. OneAtATime
    BY <1>2, UsersDiffer, UseRecords DEF OneAtATime, Inside, Loading
  <1>5. CacheNames
    <2>1. cache.id = NoVoice
      BY <1>1 DEF NothingCached
    <2> QED BY <1>2, <2>1, UseRecords DEF CacheNames
  <1>6. FilesKept
    <2>1. temp \in [Conversions -> FileStates] /\ \A c \in Conversions : temp[c] = "none"
      BY <1>1 DEF FileStates
    <2> QED BY <1>1, <2>1 DEF FilesKept
  <1> QED BY <1>3, <1>4, <1>5, <1>6 DEF VoiceInv

LEMMA VoiceRests == VoiceInv /\ UNCHANGED voiceEngineVars => VoiceInv'
  BY DEF VoiceInv, EngineTypes, OneAtATime, CacheNames, FilesKept, Inside, Loading,
         voiceEngineVars, veDisk, veFiles, veHistory

\* Everybody converts with the voice that was asked for, unless a session was loading
\* beside a conversion; a token that a client has names a complete file.
THEOREM VoiceEngineStaysSound == VoiceSpec => []VoiceEngineIsSound
  <1>1. VoiceInv /\ [VoiceNext]_voiceEngineVars => VoiceInv'
    <2> SUFFICES ASSUME VoiceInv, [VoiceNext]_voiceEngineVars PROVE VoiceInv'
      OBVIOUS
    <2>1. ASSUME NEW c \in Conversions,
                 \/ \E v \in Voices, d \in BOOLEAN : Upload(c, v, d)
                 \/ EnterEngine(c) \/ ConvertFails(c) \/ Convert(c) \/ ConvertDone(c) \/ ExportMp3(c)
          PROVE  VoiceInv'
      BY <2>1, UploadKeeps, EnterKeeps, FailsKeeps, ConvertKeeps, DoneKeeps, ExportKeeps
    <2>2. ASSUME NEW c \in Conversions, TakeDenoiser(c) \/ Denoise(c)
          PROVE  VoiceInv'
      <3>1. c \in Users
        BY UsersDiffer
      <3> QED BY <2>2, <3>1, InferenceKeeps
    <2>3. ASSUME NEW u \in Users,
                 \/ CheckCache(u) \/ LoadModel(u) \/ NameModel(u) \/ TakeModel(u) \/ ExtractFails(u)
          PROVE  VoiceInv'
      BY <2>3, CheckKeeps, LoadKeeps, NameKeeps, TakeKeeps, ExtractFailsKeeps
    <2>4. ASSUME NEW u \in Users, OpenSession(u) \/ NameSession(u)
          PROVE  VoiceInv'
      BY <2>4, InferenceKeeps
    <2>5. ASSUME NEW v \in Voices, StartLive(v)
          PROVE  VoiceInv'
      BY <2>5, StartLiveKeeps
    <2>6. CASE LiveChunkDone
      <3>1. LiveLane \in Users
        BY DEF Users
      <3> QED BY <2>6, <3>1, InferenceKeeps
    <2>7. CASE GoLive \/ LiveChunk \/ StopLive
      BY <2>7, LiveKeeps
    <2>8. CASE ChangeDisk
      BY <2>8, DiskKeeps
    <2>9. CASE CrashVoice
      BY <2>9, CrashKeeps
    <2>10. CASE UNCHANGED voiceEngineVars
      BY <2>10, VoiceRests
    <2> QED BY <2>1, <2>2, <2>3, <2>4, <2>5, <2>6, <2>7, <2>8, <2>9, <2>10 DEF VoiceNext
  <1>2. ASSUME VoiceInv PROVE VoiceEngineIsSound
    <2>1. VoiceEngineTypeOK
      <3>1. cache \in [id : Voices \union {NoVoice}, model : 0..Len(voiceOf)]
        <4>1. cache.id \in Voices \union {NoVoice} /\ cache.model \in Nat /\ cache.model <= Len(voiceOf)
              /\ Len(voiceOf) \in Nat /\ cache = [id |-> cache.id, model |-> cache.model]
          BY <1>2 DEF VoiceInv, EngineTypes
        <4> QED BY <4>1
      <3>2. \A u \in Users : user[u].voice \in Voices \union {NoVoice} /\ user[u].model \in 0..Len(voiceOf)
        BY <1>2 DEF VoiceInv, EngineTypes, UserRecord
      <3>3. \A c \in Conversions : {temp[c], wav[c], mp3[c]} \subseteq FileStates
        BY <1>2 DEF VoiceInv, FilesKept
      <3> QED BY <1>2, <3>1, <3>2, <3>3 DEF VoiceInv, EngineTypes, FileStates, VoiceEngineTypeOK
    <2>2. VoicesAreOwn
      BY <1>2 DEF VoiceInv, CacheNames, VoicesAreOwn
    <2>3. FilesAreWhole
      BY <1>2 DEF VoiceInv, FilesKept, FilesAreWhole, Resting
    <2> QED BY <2>1, <2>2, <2>3 DEF VoiceEngineIsSound
  <1> QED BY <1>1, <1>2, VoiceStart, PTL DEF VoiceSpec

------------------------------------------------------------------------------
(* Settings and presets of the voice engine: values that fit, kept over crashes *)

FitSettings == {s \in [VoiceKeys -> Int \union {NoValue}] : \A k \in VoiceKeys : s[k] \in FitValues(k)}

\* Values of the settings in an update, a file or a preset.
Offered(data) == DOMAIN data \subseteq VoiceKeys /\ \A k \in DOMAIN data : data[k] \in Offers(k)

PresetShapes ==
  /\ DOMAIN presetFile \subseteq PresetIds
  /\ \A p \in DOMAIN presetFile :
       /\ DOMAIN presetFile[p] # {} /\ DOMAIN presetFile[p] \subseteq PresetKeys
       /\ Offered(presetFile[p])

VoiceSettingsInv ==
  /\ voiceNow \in FitSettings /\ half \in BOOLEAN /\ edited \in BOOLEAN
  /\ Loaded(voiceFile) \in FitSettings
  /\ ~edited => Loaded(voiceFile) = savedVoice
  /\ ~edited /\ ~half => voiceNow = savedVoice
  /\ PresetShapes /\ presetFile = savedPresets

\* What fits a key is a number, or no value where the key allows it; never a word.
LEMMA ValuesFit ==
  ASSUME NEW k \in VoiceKeys
  PROVE  /\ FitValues(k) \subseteq Int \union {NoValue}
         /\ KeyKind[k] \in {"clamp", "level", "mode"} => NoValue \notin FitValues(k)
         /\ \A v \in FitValues(k) : v \notin {NoNumber, OffWord}
  BY VoiceSettingsAssumption DEF FitValues

\* Whatever is offered and not refused is made to fit.
LEMMA FitFits ==
  ASSUME NEW k \in VoiceKeys, NEW v \in Offers(k), ~Refused(k, v), ~Skipped(k, v)
  PROVE  Fit(k, v) \in FitValues(k)
  <1>0. /\ Lowest[k] \in Int /\ Highest[k] \in Int /\ Lowest[k] <= Highest[k]
        /\ KeyKind[k] \in {"clamp", "level", "mode", "device", "monitor"}
    BY VoiceSettingsAssumption
  <1>1. \A n \in Int : Clamp(k, n) \in Lowest[k]..Highest[k]
    BY <1>0 DEF Clamp
  <1>2. v # NoNumber
    BY DEF Refused
  <1>3. CASE v = NoValue
    <2>1. KeyKind[k] \in {"device", "monitor"}
      BY <1>3 DEF Skipped
    <2>2. Fit(k, v) = NoValue
      BY <1>3 DEF Fit
    <2> QED BY <2>1, <2>2 DEF FitValues
  <1>4. CASE v # NoValue /\ KeyKind[k] = "clamp"
    <2>1. v \in Int /\ Fit(k, v) = Clamp(k, v)
      BY <1>2, <1>4 DEF Offers, Fit
    <2> QED BY <1>1, <1>4, <2>1 DEF FitValues
  <1>5. CASE v # NoValue /\ KeyKind[k] = "level"
    <2>1. Fit(k, v) = IF v = OffWord THEN Lowest[k] ELSE IF v = 0 THEN Lowest[k] ELSE Clamp(k, v)
      BY <1>5 DEF Fit
    <2>2. v # OffWord => v \in Int
      BY <1>2, <1>5 DEF Offers
    <2>3. Lowest[k] \in Lowest[k]..Highest[k]
      BY <1>0
    <2>4. Fit(k, v) \in Lowest[k]..Highest[k]
      BY <1>1, <2>1, <2>2, <2>3
    <2> QED BY <1>5, <2>4 DEF FitValues
  <1>6. CASE v # NoValue /\ KeyKind[k] = "mode"
    <2>1. v \in Int /\ Fit(k, v) = v
      BY <1>2, <1>6 DEF Offers, Fit
    <2> QED BY <1>6, <2>1 DEF FitValues
  <1>7. CASE v # NoValue /\ KeyKind[k] = "device"
    <2>1. v \in Int /\ Fit(k, v) = IF v < 0 THEN 0 ELSE v
      BY <1>2, <1>7 DEF Offers, Fit
    <2> QED BY <1>7, <2>1 DEF FitValues
  <1>8. CASE v # NoValue /\ KeyKind[k] = "monitor"
    <2>1. v \in Int /\ Fit(k, v) = IF v < 0 THEN -1 ELSE v
      BY <1>2, <1>8 DEF Offers, Fit
    <2> QED BY <1>8, <2>1 DEF FitValues
  <1> QED BY <1>0, <1>3, <1>4, <1>5, <1>6, <1>7, <1>8

\* What fits stays as it is when it is set again.
LEMMA FitStays ==
  ASSUME NEW k \in VoiceKeys, NEW v \in FitValues(k)
  PROVE  Fit(k, v) = v /\ ~Skipped(k, v) /\ ~Refused(k, v)
  <1>0. /\ Lowest[k] \in Int /\ Highest[k] \in Int /\ Lowest[k] <= Highest[k]
        /\ KeyKind[k] \in {"clamp", "level", "mode", "device", "monitor"}
        /\ (KeyKind[k] = "level" => Lowest[k] = 0 \/ Highest[k] < 0)
        /\ {OffWord, NoNumber, NoValue} \intersect Int = {}
    BY VoiceSettingsAssumption
  <1>1. /\ v \notin {NoNumber, OffWord} /\ v \in Int \union {NoValue}
        /\ KeyKind[k] \in {"clamp", "level", "mode"} => v # NoValue
    BY ValuesFit
  <1>2. ~Skipped(k, v) /\ ~Refused(k, v)
    BY <1>0, <1>1 DEF Skipped, Refused
  <1>3. CASE v = NoValue
    BY <1>2, <1>3 DEF Fit
  <1>4. CASE v # NoValue /\ KeyKind[k] \in {"clamp", "level"}
    <2>1. v \in Int /\ Lowest[k] <= v /\ v <= Highest[k]
      BY <1>0, <1>1, <1>4 DEF FitValues
    <2>2. Clamp(k, v) = v
      BY <1>0, <2>1 DEF Clamp
    <2>3. CASE KeyKind[k] = "clamp"
      BY <1>2, <1>4, <2>2, <2>3 DEF Fit
    <2>4. CASE KeyKind[k] = "level"
      <3>1. Fit(k, v) = IF v = OffWord THEN Lowest[k] ELSE IF v = 0 THEN Lowest[k] ELSE Clamp(k, v)
        BY <1>4, <2>4 DEF Fit
      <3>2. v = 0 => Lowest[k] = 0
        BY <1>0, <2>1, <2>4
      <3> QED BY <1>1, <1>2, <2>2, <3>1, <3>2
    <2> QED BY <1>4, <2>3, <2>4
  <1>5. CASE v # NoValue /\ KeyKind[k] = "mode"
    BY <1>2, <1>5 DEF Fit
  <1>6. CASE v # NoValue /\ KeyKind[k] = "device"
    <2>1. v \in Nat
      BY <1>6 DEF FitValues
    <2> QED BY <1>2, <1>6, <2>1 DEF Fit
  <1>7. CASE v # NoValue /\ KeyKind[k] = "monitor"
    <2>1. v \in Nat \union {-1}
      BY <1>7 DEF FitValues
    <2>2. Fit(k, v) = IF v < 0 THEN -1 ELSE v
      BY <1>7 DEF Fit
    <2>3. v < 0 => v = -1
      BY <2>1
    <2> QED BY <1>2, <2>2, <2>3
  <1> QED BY <1>0, <1>3, <1>4, <1>5, <1>6, <1>7

\* Settings stay fit when an update is applied to them, also one that stops half-way.
LEMMA ApplyFits ==
  ASSUME NEW now \in FitSettings, NEW data, Offered(data)
  PROVE  Apply(now, data) \in FitSettings
  <1> DEFINE set == {k \in Before(data) : ~Skipped(k, data[k])}
  <1>1. ASSUME NEW k \in set PROVE k \in VoiceKeys /\ Fit(k, data[k]) \in FitValues(k)
    <2>1. k \in VoiceKeys /\ data[k] \in Offers(k) /\ k \in Nat
      BY <1>1, VoiceSettingsAssumption DEF Before, Offered
    <2>2. ~Refused(k, data[k])
      <3>1. ~(k < k)
        BY <2>1
      <3> QED BY <1>1, <3>1 DEF Before
    <2> QED BY <1>1, <2>1, <2>2, FitFits
  <1> HIDE DEF set
  <1>2. Apply(now, data) = [k \in VoiceKeys |-> IF k \in set THEN Fit(k, data[k]) ELSE now[k]]
    BY DEF Apply, set
  <1>3. ASSUME NEW k \in VoiceKeys PROVE (IF k \in set THEN Fit(k, data[k]) ELSE now[k]) \in FitValues(k)
    BY <1>1, <1>3 DEF FitSettings
  <1> QED BY <1>2, <1>3, ValuesFit DEF FitSettings

\* A start reads back what fitted when it was written.
LEMMA SavedIsLoaded ==
  ASSUME NEW now \in FitSettings
  PROVE  Loaded(now) = now
  <1>1. DOMAIN now = VoiceKeys /\ \A k \in VoiceKeys : now[k] \in FitValues(k)
    BY DEF FitSettings
  <1>2. \A k \in VoiceKeys : Fit(k, now[k]) = now[k] /\ ~Skipped(k, now[k]) /\ ~Refused(k, now[k])
    BY <1>1, FitStays
  <1>3. ~Raises(now) /\ {k \in Before(now) : ~Skipped(k, now[k])} = VoiceKeys
    BY <1>1, <1>2 DEF Raises, Before
  <1>4. Apply(VoiceDefault, now) = [k \in VoiceKeys |-> now[k]]
    BY <1>2, <1>3 DEF Apply
  <1>5. now \notin {NoSettings, TornSettings}
    BY VoiceSettingsAssumption DEF FitSettings
  <1>6. [k \in VoiceKeys |-> now[k]] = now
    BY DEF FitSettings
  <1> QED BY <1>3, <1>4, <1>5, <1>6 DEF Loaded

LEMMA DefaultsFit == VoiceDefault \in FitSettings
  BY VoiceSettingsAssumption DEF FitSettings

LEMMA LoadedFits ==
  ASSUME NEW data, Offered(data)
  PROVE  Loaded(data) \in FitSettings
  BY DefaultsFit, ApplyFits DEF Loaded

LEMMA UpdatesAreOffered ==
  ASSUME NEW data \in Updates
  PROVE  Offered(data)
  <1>1. \A k \in VoiceKeys : VoiceInputs[k] \subseteq Offers(k)
    BY VoiceSettingsAssumption
  <1>2. CASE \E i \in VoiceKeys : \E a \in VoiceInputs[i] : data = [k \in {i} |-> a]
    BY <1>1, <1>2 DEF Offered
  <1>3. CASE \E i \in VoiceKeys, j \in VoiceKeys : \E a \in VoiceInputs[i], b \in VoiceInputs[j] :
               data = [k \in {i, j} |-> IF k = i THEN a ELSE b]
    BY <1>1, <1>3 DEF Offered
  <1>4. (\E i \in VoiceKeys : \E a \in VoiceInputs[i] : data = [k \in {i} |-> a])
        \/ (\E i \in VoiceKeys, j \in VoiceKeys : \E a \in VoiceInputs[i], b \in VoiceInputs[j] :
              data = [k \in {i, j} |-> IF k = i THEN a ELSE b])
    <2>1. data \in UNION {SetsOne(i) : i \in VoiceKeys} \/ data \in UNION {SetsTwo(i, j) : i \in VoiceKeys, j \in VoiceKeys}
      BY DEF Updates
    <2>2. ASSUME NEW i \in VoiceKeys, data \in SetsOne(i)
          PROVE  \E a \in VoiceInputs[i] : data = [k \in {i} |-> a]
      BY <2>2 DEF SetsOne
    <2>3. ASSUME NEW i \in VoiceKeys, NEW j \in VoiceKeys, data \in SetsTwo(i, j)
          PROVE  \E a \in VoiceInputs[i], b \in VoiceInputs[j] : data = [k \in {i, j} |-> IF k = i THEN a ELSE b]
      BY <2>3 DEF SetsTwo
    <2>4. (\E i \in VoiceKeys : data \in SetsOne(i)) \/ (\E i \in VoiceKeys : \E j \in VoiceKeys : data \in SetsTwo(i, j))
      BY <2>1
    <2> QED BY <2>2, <2>3, <2>4
  <1> QED BY <1>2, <1>3, <1>4

LEMMA UpdateKeeps ==
  ASSUME VoiceSettingsInv, NEW data, Offered(data), UpdateSettings(data) \/ UpdateFails(data)
  PROVE  VoiceSettingsInv'
  <1>1. Apply(voiceNow, data) \in FitSettings
    BY ApplyFits DEF VoiceSettingsInv
  <1>2. PresetShapes' /\ presetFile' = savedPresets'
    BY DEF UpdateSettings, UpdateFails, VoiceSettingsInv, PresetShapes
  <1>3. CASE UpdateSettings(data)
    <2>1. voiceNow' = Apply(voiceNow, data) /\ voiceFile' = voiceNow' /\ savedVoice' = voiceNow'
          /\ half' = FALSE /\ edited' = FALSE
      BY <1>3 DEF UpdateSettings
    <2>2. Loaded(voiceFile') = voiceNow'
      BY <1>1, <2>1, SavedIsLoaded
    <2>3. Loaded(voiceFile)' = Loaded(voiceFile')
      BY DEF Loaded
    <2> QED BY <1>1, <1>2, <2>1, <2>2, <2>3 DEF VoiceSettingsInv
  <1>4. CASE UpdateFails(data)
    <2>1. voiceNow' = Apply(voiceNow, data) /\ half' = (half \/ voiceNow' # voiceNow)
          /\ UNCHANGED <<voiceFile, savedVoice, edited>>
      BY <1>4 DEF UpdateFails
    <2>2. Loaded(voiceFile)' = Loaded(voiceFile)
      BY <2>1 DEF Loaded
    <2>3. half' \in BOOLEAN /\ (~half' => ~half /\ voiceNow' = voiceNow)
      BY <2>1 DEF VoiceSettingsInv
    <2> QED BY <1>1, <1>2, <2>1, <2>2, <2>3 DEF VoiceSettingsInv
  <1> QED BY <1>3, <1>4

LEMMA RestartKeeps ==
  ASSUME VoiceSettingsInv, KilledInSave \/ \E data \in Updates : EditFile(data)
  PROVE  VoiceSettingsInv'
  <1>1. PresetShapes' /\ presetFile' = savedPresets'
    BY DEF KilledInSave, EditFile, VoiceSettingsInv, PresetShapes
  <1>2. CASE KilledInSave
    <2>1. voiceNow' = Loaded(voiceFile) /\ half' = FALSE /\ UNCHANGED <<voiceFile, savedVoice, edited>>
      BY <1>2 DEF KilledInSave
    <2>2. Loaded(voiceFile)' = Loaded(voiceFile)
      BY <2>1 DEF Loaded
    <2> QED BY <1>1, <2>1, <2>2 DEF VoiceSettingsInv
  <1>3. CASE \E data \in Updates : EditFile(data)
    <2>1. PICK data \in Updates : voiceFile' = data /\ voiceNow' = Loaded(data) /\ half' = FALSE /\ edited' = TRUE
      BY <1>3 DEF EditFile
    <2>2. Loaded(data) \in FitSettings
      BY UpdatesAreOffered, LoadedFits
    <2>3. Loaded(voiceFile)' = Loaded(data)
      BY <2>1 DEF Loaded
    <2> QED BY <1>1, <2>1, <2>2, <2>3 DEF VoiceSettingsInv
  <1> QED BY <1>2, <1>3

\* A preset is made of known keys only, and of at least one.
LEMMA CleanedIsOffered ==
  ASSUME NEW k \in VoiceKeys, NEW v \in VoiceInputs[k], DOMAIN Cleaned([i \in {k} |-> v]) # {}
  PROVE  /\ Offered(Cleaned([i \in {k} |-> v])) /\ DOMAIN Cleaned([i \in {k} |-> v]) \subseteq PresetKeys
  <1> DEFINE data == [i \in {k} |-> v]
             ks == {i \in DOMAIN data : i \in PresetKeys /\ data[i] # NoValue}
  <1>1. Cleaned(data) = [i \in ks |-> data[i]]
    BY DEF Cleaned, Restrict
  <1>2. VoiceInputs[k] \subseteq Offers(k)
    BY VoiceSettingsAssumption
  <1>3. ks \subseteq {k} /\ ks \subseteq PresetKeys /\ data[k] = v
    OBVIOUS
  <1> HIDE DEF data, ks
  <1>4. DOMAIN Cleaned(data) = ks /\ \A i \in ks : Cleaned(data)[i] = v /\ i = k
    BY <1>1, <1>3
  <1>5. Offered(Cleaned(data)) /\ DOMAIN Cleaned(data) \subseteq PresetKeys
    BY <1>2, <1>3, <1>4 DEF Offered
  <1> QED BY <1>5 DEF data

LEMMA PresetsKeep ==
  ASSUME VoiceSettingsInv, NEW p \in PresetIds,
         \/ DeletePreset(p)
         \/ \E k \in VoiceKeys : \E v \in VoiceInputs[k] : CreatePreset(p, [i \in {k} |-> v]) \/ UpdatePreset(p, [i \in {k} |-> v])
  PROVE  VoiceSettingsInv'
  <1>1. UNCHANGED <<voiceNow, voiceFile, savedVoice, half, edited>> /\ presetFile' = savedPresets'
    BY DEF DeletePreset, CreatePreset, UpdatePreset, WritePresets
  <1>2. Loaded(voiceFile)' = Loaded(voiceFile)
    BY <1>1 DEF Loaded
  <1>3. PresetShapes'
    <2>1. CASE DeletePreset(p)
      <3>1. presetFile' = [q \in DOMAIN presetFile \ {p} |-> presetFile[q]]
        BY <2>1 DEF DeletePreset, WritePresets, Restrict
      <3> QED BY <3>1 DEF VoiceSettingsInv, PresetShapes
    <2>2. ASSUME NEW k \in VoiceKeys, NEW v \in VoiceInputs[k],
                 CreatePreset(p, [i \in {k} |-> v]) \/ UpdatePreset(p, [i \in {k} |-> v])
          PROVE  PresetShapes'
      <3> DEFINE clean == Cleaned([i \in {k} |-> v])
      <3>1. DOMAIN clean # {}
        BY <2>2 DEF CreatePreset, UpdatePreset
      <3>2. Offered(clean) /\ DOMAIN clean \subseteq PresetKeys
        BY <3>1, CleanedIsOffered
      <3>3. CASE CreatePreset(p, [i \in {k} |-> v])
        <4>1. presetFile' = [q \in DOMAIN presetFile \union {p} |-> IF q = p THEN clean ELSE presetFile[q]]
          BY <3>3 DEF CreatePreset, WritePresets
        <4> HIDE DEF clean
        <4>2. DOMAIN presetFile' = DOMAIN presetFile \union {p} /\ presetFile'[p] = clean
              /\ \A q \in DOMAIN presetFile : q # p => presetFile'[q] = presetFile[q]
          BY <4>1
        <4> QED BY <3>1, <3>2, <4>2 DEF VoiceSettingsInv, PresetShapes
      <3>4. CASE UpdatePreset(p, [i \in {k} |-> v])
        <4>1. presetFile' = [presetFile EXCEPT ![p] = clean] /\ p \in DOMAIN presetFile
          BY <3>4 DEF UpdatePreset, WritePresets
        <4> HIDE DEF clean
        <4>2. DOMAIN presetFile' = DOMAIN presetFile /\ presetFile'[p] = clean
              /\ \A q \in DOMAIN presetFile : q # p => presetFile'[q] = presetFile[q]
          BY <4>1
        <4> QED BY <3>1, <3>2, <4>2 DEF VoiceSettingsInv, PresetShapes
      <3> QED BY <2>2, <3>3, <3>4
    <2> QED BY <2>1, <2>2
  <1> QED BY <1>1, <1>2, <1>3 DEF VoiceSettingsInv

LEMMA VoiceSettingsStep == VoiceSettingsInv /\ [VoiceSettingsNext]_voiceSettingsVars => VoiceSettingsInv'
  <1> SUFFICES ASSUME VoiceSettingsInv, [VoiceSettingsNext]_voiceSettingsVars PROVE VoiceSettingsInv'
    OBVIOUS
  <1>1. CASE \E data \in Updates : UpdateSettings(data) \/ UpdateFails(data)
    BY <1>1, UpdatesAreOffered, UpdateKeeps
  <1>2. CASE KilledInSave \/ \E data \in Updates : EditFile(data)
    BY <1>2, RestartKeeps
  <1>3. ASSUME NEW p \in PresetIds, UsePreset(p) PROVE VoiceSettingsInv'
    <2>1. p \in DOMAIN presetFile /\ (UpdateSettings(presetFile[p]) \/ UpdateFails(presetFile[p]))
      BY <1>3 DEF UsePreset
    <2>2. PICK data : data = presetFile[p]
      OBVIOUS
    <2>3. Offered(data)
      BY <2>1, <2>2 DEF VoiceSettingsInv, PresetShapes
    <2>4. UpdateSettings(data) \/ UpdateFails(data)
      BY <2>1, <2>2
    <2> QED BY <2>3, <2>4, UpdateKeeps
  <1>4. ASSUME NEW p \in PresetIds, NEW k \in VoiceKeys, NEW v \in VoiceInputs[k],
               CreatePreset(p, [i \in {k} |-> v]) \/ UpdatePreset(p, [i \in {k} |-> v])
        PROVE  VoiceSettingsInv'
    BY <1>4, PresetsKeep
  <1>5. ASSUME NEW p \in PresetIds, DeletePreset(p) PROVE VoiceSettingsInv'
    BY <1>5, PresetsKeep
  <1>6. CASE UNCHANGED voiceSettingsVars
    BY <1>6 DEF voiceSettingsVars, VoiceSettingsInv, PresetShapes, Loaded
  <1> QED BY <1>1, <1>2, <1>3, <1>4, <1>5, <1>6 DEF VoiceSettingsNext

LEMMA VoiceSettingsStart == VoiceSettingsInit => VoiceSettingsInv
  <1> SUFFICES ASSUME VoiceSettingsInit PROVE VoiceSettingsInv
    OBVIOUS
  <1>1. Loaded(voiceFile) = VoiceDefault
    BY DEF VoiceSettingsInit, Loaded
  <1>2. DOMAIN presetFile = {}
    BY DEF VoiceSettingsInit
  <1> QED BY <1>1, <1>2, DefaultsFit DEF VoiceSettingsInit, VoiceSettingsInv, PresetShapes

\* A device that is set and not flagged as missing is there.
LEMMA FlagsAreRight ==
  ASSUME VoiceSettingsInv, NEW k \in VoiceKeys, NEW present \in SUBSET {0, 2},
         KeyKind[k] \in {"device", "monitor"}, ~DeviceMissing(k, present)
  PROVE  DeviceOpened(k) \subseteq present
  <1>1. voiceNow[k] \in FitValues(k)
    BY DEF VoiceSettingsInv, FitSettings
  <1>2. CASE voiceNow[k] = NoValue
    BY <1>2 DEF DeviceOpened
  <1>3. CASE voiceNow[k] # NoValue /\ KeyKind[k] = "device"
    <2>1. voiceNow[k] \in present
      BY <1>3 DEF DeviceMissing
    <2> QED BY <2>1 DEF DeviceOpened
  <1>4. CASE voiceNow[k] # NoValue /\ KeyKind[k] = "monitor"
    <2>1. voiceNow[k] \in present \/ voiceNow[k] < 0
      BY <1>4 DEF DeviceMissing
    <2> QED BY <2>1 DEF DeviceOpened
  <1> QED BY <1>2, <1>3, <1>4

\* Whatever requests, presets and files offer and whenever the backend is killed, the
\* engine runs on values that fit, a start brings back what was saved last, presets keep
\* what belongs to no machine, and a missing device is flagged (engine.py, presets.py and
\* api/voice_engine.py).
THEOREM VoiceSettingsStaySound == VoiceSettingsSpec => []VoiceSettingsAreSound
  <1>1. VoiceSettingsInv => VoiceSettingsAreSound
    <2> SUFFICES ASSUME VoiceSettingsInv PROVE VoiceSettingsAreSound
      OBVIOUS
    <2>1. voiceNow \in FitSettings
      BY DEF VoiceSettingsInv
    <2>2. VoiceSettingsTypeOK
      BY <2>1 DEF VoiceSettingsInv, PresetShapes, VoiceSettingsTypeOK, FitSettings
    <2>3. VoiceInRange
      <3>1. ASSUME NEW k \in VoiceKeys
            PROVE  voiceNow[k] = Fit(k, voiceNow[k]) /\ voiceNow[k] \notin {NoNumber, OffWord}
        <4>1. voiceNow[k] \in FitValues(k)
          BY <2>1 DEF FitSettings
        <4>2. PICK v \in FitValues(k) : v = voiceNow[k]
          BY <4>1
        <4> QED BY <4>2, FitStays, ValuesFit
      <3>2. ASSUME NEW k \in VoiceKeys, KeyKind[k] \in {"clamp", "level"}
            PROVE  voiceNow[k] \in Lowest[k]..Highest[k]
        BY <2>1, <3>2 DEF FitSettings, FitValues
      <3>3. ASSUME NEW k \in PresetKeys, NEW v \in VoiceInputs[k], ~Refused(k, v)
            PROVE  ConvertParam(k, v) \notin {NoValue, NoNumber, OffWord}
        <4>1. k \in VoiceKeys /\ KeyKind[k] \in {"clamp", "level", "mode"} /\ v \in Offers(k)
          BY VoiceSettingsAssumption
        <4>2. CASE v = NoValue
          <5>1. voiceNow[k] \in FitValues(k)
            BY <2>1, <4>1 DEF FitSettings
          <5> QED BY <4>1, <4>2, <5>1, ValuesFit DEF ConvertParam
        <4>3. CASE v # NoValue
          <5>1. Fit(k, v) \in FitValues(k)
            BY <3>3, <4>1, <4>3, FitFits DEF Skipped
          <5> QED BY <4>1, <4>3, <5>1, ValuesFit DEF ConvertParam
        <4> QED BY <4>2, <4>3
      <3> QED BY <3>1, <3>2, <3>3 DEF VoiceInRange
    <2>4. DevicesAreFlagged
      BY FlagsAreRight DEF DevicesAreFlagged
    <2>5. VoiceSettingsSurvive /\ PresetsSurvive
      BY DEF VoiceSettingsInv, VoiceSettingsSurvive, PresetsSurvive, PresetShapes
    <2> QED BY <2>2, <2>3, <2>4, <2>5 DEF VoiceSettingsAreSound
  <1> QED BY <1>1, VoiceSettingsStart, VoiceSettingsStep, PTL DEF VoiceSettingsSpec

------------------------------------------------------------------------------
(* The stream: blocks, their context and its noise, silence to the sample      *)

\* Division as the stages use it.
LEMMA Product ==
  ASSUME NEW p \in Nat, NEW q \in Nat
  PROVE  p * q \in Nat
  OBVIOUS

\* Multiplication is monotone.
LEMMA ProductGrows ==
  ASSUME NEW p \in Nat, NEW q \in Nat, NEW h \in Nat, p <= q
  PROVE  p * h <= q * h
  <1>1. PICK d \in Nat : q = p + d
    <2>1. q - p \in Nat /\ q = p + (q - p)
      OBVIOUS
    <2> QED BY <2>1
  <1>2. (p + d) * h = p * h + d * h
    OBVIOUS
  <1>3. d * h \in Nat /\ p * h \in Nat
    BY Product
  <1> QED BY <1>1, <1>2, <1>3

\* The quotient and the rest of a division of naturals.
LEMMA Division ==
  ASSUME NEW a \in Nat, NEW h \in Nat \ {0}
  PROVE  /\ a \div h \in Nat /\ a % h \in Nat /\ a % h < h
         /\ (a \div h) * h + (a % h) = a
  <1>1. a \div h \in Int /\ a % h \in 0..(h - 1)
    OBVIOUS
  <1>2. a = h * (a \div h) + (a % h)
    OBVIOUS
  <1>3. h * (a \div h) = (a \div h) * h
    BY <1>1
  <1>4. a \div h >= 0
    OBVIOUS
  <1> QED BY <1>1, <1>2, <1>3, <1>4

\* A quotient is as large as every multiple allows.
LEMMA Quotient ==
  ASSUME NEW a \in Nat, NEW h \in Nat \ {0}, NEW q \in Nat, q * h <= a
  PROVE  q <= a \div h
  <1>1. PICK d \in Nat : d = a \div h
    BY Division
  <1>2. PICK r \in Nat : r = a % h /\ r < h /\ d * h + r = a
    BY <1>1, Division
  <1>3. SUFFICES ASSUME d < q PROVE FALSE
    BY <1>1
  <1>4. (d + 1) * h <= q * h
    BY <1>3, ProductGrows
  <1>5. (d + 1) * h = d * h + h
    OBVIOUS
  <1>6. d * h \in Nat /\ q * h \in Nat
    BY Product
  <1> QED BY <1>2, <1>4, <1>5, <1>6

\* Division is monotone.
LEMMA QuotientGrows ==
  ASSUME NEW a \in Nat, NEW b \in Nat, NEW h \in Nat \ {0}, h <= a
  PROVE  b \div h + 1 <= (a + b) \div h
  <1>1. PICK d \in Nat : d = b \div h
    BY Division
  <1>2. d * h + (b % h) = b /\ b % h \in Nat /\ d * h \in Nat
    BY <1>1, Division, Product
  <1>3. (d + 1) * h = d * h + h
    OBVIOUS
  <1>4. (d + 1) * h <= a + b
    BY <1>2, <1>3
  <1>5. d + 1 <= (a + b) \div h
    BY <1>4, Quotient
  <1> QED BY <1>1, <1>5

\* What the denoiser holds back is less than a hop, whatever it was primed with.
LEMMA HopsOut ==
  ASSUME NEW n \in Nat
  PROVE  LET out == ((Frame + n) \div Hop) * Hop
         IN /\ out \in Nat /\ Frame <= out
            /\ n - (out - Frame) = (Frame + n) % Hop
            /\ (Frame + n) % Hop \in Nat /\ (Frame + n) % Hop < Hop
  <1>1. Frame \in Nat /\ Hop \in Nat \ {0} /\ Frame % Hop = 0
    BY VoiceStreamAssumption
  <1>2. PICK q \in Nat : q * Hop = Frame
    <2>1. Frame \div Hop \in Nat /\ (Frame \div Hop) * Hop + (Frame % Hop) = Frame
      BY <1>1, Division
    <2>2. (Frame \div Hop) * Hop \in Nat
      BY <1>1, <2>1, Product
    <2>3. (Frame \div Hop) * Hop = Frame
      BY <1>1, <2>1, <2>2
    <2> QED BY <2>1, <2>3
  <1>3. PICK d \in Nat : d = (Frame + n) \div Hop
    BY <1>1, Division
  <1>4. PICK r \in Nat : r = (Frame + n) % Hop /\ r < Hop /\ d * Hop + r = Frame + n
    BY <1>1, <1>3, Division
  <1>5. q <= d
    BY <1>1, <1>2, <1>3, Quotient
  <1>6. q * Hop <= d * Hop /\ d * Hop \in Nat
    BY <1>1, <1>5, ProductGrows, Product
  <1>7. PICK out \in Nat : out = d * Hop
    BY <1>6
  <1>8. Frame <= out /\ n - (out - Frame) = r
    BY <1>1, <1>2, <1>4, <1>6, <1>7
  <1> QED BY <1>3, <1>4, <1>7, <1>8

\* A block is a whole number of quanta, of at least one.
LEMMA BlockIsLong ==
  /\ Block \in Nat /\ Block >= Quantum /\ BlockFrames \in Nat /\ BlockFrames >= 1
  /\ Quantum >= FeatureHop /\ FeatureHop \in Nat \ {0} /\ Quantum \in Nat \ {0}
  <1>1. /\ Quantum \in Nat \ {0} /\ FeatureHop \in Nat \ {0} /\ ChunkLength \in Nat /\ Quantum % FeatureHop = 0
    BY VoiceStreamAssumption
  <1>2. Quanta(ChunkLength) \in Nat
    <2>1. PICK q \in Nat : q = (2 * ChunkLength + Quantum) \div (2 * Quantum)
      <3>1. 2 * ChunkLength + Quantum \in Nat /\ 2 * Quantum \in Nat \ {0}
        BY <1>1
      <3> QED BY <3>1, Division
    <2> QED BY <1>1, <2>1, Product DEF Quanta
  <1>3. Block \in Nat /\ Block >= Quantum
    BY <1>1, <1>2 DEF Block, AtLeast
  <1>4. Quantum >= FeatureHop
    <2>1. SUFFICES ASSUME Quantum < FeatureHop PROVE FALSE
      BY <1>1
    <2>2. PICK d \in Nat : d = Quantum \div FeatureHop
      BY <1>1, Division
    <2>3. d * FeatureHop = Quantum
      <3>1. d * FeatureHop + (Quantum % FeatureHop) = Quantum /\ d * FeatureHop \in Nat
        BY <1>1, <2>2, Division, Product
      <3> QED BY <1>1, <3>1
    <2>4. d >= 1
      BY <1>1, <2>2, <2>3
    <2>5. 1 * FeatureHop <= d * FeatureHop
      BY <1>1, <2>4, ProductGrows
    <2> QED BY <1>1, <2>1, <2>3, <2>5
  <1>5. BlockFrames \in Nat
    BY <1>1, <1>3, Division DEF BlockFrames
  <1>6. 1 <= BlockFrames
    <2>1. 1 * FeatureHop <= Block
      BY <1>1, <1>3, <1>4
    <2> QED BY <1>1, <1>3, <2>1, Quotient DEF BlockFrames
  <1> QED BY <1>1, <1>3, <1>4, <1>5, <1>6

TuningRecord == [denoise : BOOLEAN, cutoff : Nat, formant : Nat \ {0}, extra : Nat,
                 fade : Nat, off : BOOLEAN, hold : Nat]

\* The context is longer than a block.
LEMMA ContextIsLonger ==
  ASSUME tuning \in Tunings
  PROVE  ContextFrames \in Nat /\ BlockFrames < ContextFrames
  <1>1. tuning.extra \in Nat /\ Block \in Nat /\ Quantum \in Nat \ {0} /\ FeatureHop \in Nat \ {0} /\ FeatureHop <= Quantum
    BY VoiceStreamAssumption, BlockIsLong
  <1>2. PICK extra \in Nat : extra = AtLeast(Quantum, Quanta(tuning.extra)) /\ Quantum <= extra
    <2>1. Quanta(tuning.extra) \in Nat
      <3>1. 2 * tuning.extra + Quantum \in Nat /\ 2 * Quantum \in Nat \ {0}
        BY <1>1
      <3>2. PICK q \in Nat : q = (2 * tuning.extra + Quantum) \div (2 * Quantum)
        BY <3>1, Division
      <3> QED BY <1>1, <3>2, Product DEF Quanta
    <2> QED BY <1>1, <2>1 DEF AtLeast
  <1>3. FeatureHop <= extra
    BY <1>1, <1>2
  <1>4. BlockFrames + 1 <= (extra + Block) \div FeatureHop
    BY <1>1, <1>3, QuotientGrows DEF BlockFrames
  <1>5. (extra + Block) \div FeatureHop \in Nat
    <2>1. extra + Block \in Nat
      BY <1>1
    <2> QED BY <1>1, <2>1, Division
  <1>6. ContextFrames = (extra + Block) \div FeatureHop /\ BlockFrames \in Nat
    BY <1>2, BlockIsLong DEF ContextFrames
  <1> QED BY <1>4, <1>5, <1>6

\* A window of whole frames, cut at its old end or padded there.
LEMMA NewestOf ==
  ASSUME NEW s \in Seq(Nat), NEW n \in Nat, n <= Len(s)
  PROVE  /\ Newest(s, n) \in Seq(Nat) /\ Len(Newest(s, n)) = n
         /\ \A k \in 1..n : Newest(s, n)[k] = s[Len(s) - n + k]
  <1>1. PICK l \in Nat : l = Len(s)
    OBVIOUS
  <1> DEFINE m == l - n + 1
  <1>2. m \in Int /\ (m <= l => l - m + 1 = n) /\ (~(m <= l) => n = 0) /\ \A i \in m..l : s[i] \in Nat
    BY <1>1
  <1>3. Newest(s, n) = SubSeq(s, m, l)
    BY <1>1 DEF Newest
  <1> HIDE DEF m
  <1>4. /\ SubSeq(s, m, l) \in Seq(Nat) /\ Len(SubSeq(s, m, l)) = IF m <= l THEN l - m + 1 ELSE 0
        /\ \A i \in 1..(l - m + 1) : SubSeq(s, m, l)[i] = s[m + i - 1]
    BY <1>2, SubSeqProperties
  <1>5. \A k \in 1..n : k \in 1..(l - m + 1) /\ m + k - 1 = l - n + k
    BY DEF m
  <1>6. Len(SubSeq(s, m, l)) = n
    BY <1>2, <1>4
  <1>7. \A k \in 1..n : SubSeq(s, m, l)[k] = s[l - n + k]
    BY <1>4, <1>5
  <1> QED BY <1>1, <1>3, <1>4, <1>6, <1>7

LEMMA DrawnOf ==
  ASSUME NEW n \in Nat, NEW from \in Nat
  PROVE  /\ Drawn(n, from) \in Seq(Nat) /\ Len(Drawn(n, from)) = n
         /\ \A k \in 1..n : Drawn(n, from)[k] = from + k
  <1>1. \A k \in 1..n : from + k \in Nat
    OBVIOUS
  <1> QED BY <1>1 DEF Drawn

IsPadding(t, n) == t \in Seq(Nat) /\ Len(t) = n /\ (\A k \in 1..n : t[k] = 0)

\* Padding is zeros.
LEMMA ZerosOf ==
  ASSUME NEW n \in Nat
  PROVE  IsPadding(Zeros(n), n)
  BY DEF Zeros, IsPadding

IsJoin(r, s, t) ==
  /\ r \in Seq(Nat) /\ Len(r) = Len(s) + Len(t)
  /\ \A k \in 1..Len(s) : r[k] = s[k]
  /\ \A k \in 1..Len(t) : r[Len(s) + k] = t[k]

\* What is in two lists put together.
LEMMA Joined ==
  ASSUME NEW s \in Seq(Nat), NEW t \in Seq(Nat)
  PROVE  IsJoin(s \o t, s, t)
  BY DEF IsJoin

\* A window slides by a block.
SlidBy(r, w, c, b, from) ==
  /\ r \in Seq(Nat) /\ Len(r) = c
  /\ \A j \in 1..(c - b) : r[j] = w[j + b]
  /\ \A j \in 1..b : r[c - b + j] = from + j

\* What is left of a list that slides by some places.
LEMMA Slides ==
  ASSUME NEW w \in Seq(Nat), NEW c \in Nat, NEW b \in Nat, NEW from \in Nat, Len(w) = c, b < c
  PROVE  SlidBy(SubSeq(w, b + 1, c) \o Drawn(b, from), w, c, b, from)
  <1>0. PICK r : r = SubSeq(w, b + 1, c) \o Drawn(b, from)
    OBVIOUS
  <1> DEFINE s == SubSeq(w, b + 1, c)
             t == Drawn(b, from)
  <1>1. s \in Seq(Nat) /\ Len(s) = c - b /\ \A j \in 1..(c - b) : s[j] = w[j + b]
    <2>1. b + 1 \in 1..(c + 1) /\ c \in b..c
      OBVIOUS
    <2> QED BY <2>1
  <1>2. t \in Seq(Nat) /\ Len(t) = b /\ \A j \in 1..b : t[j] = from + j
    BY DrawnOf
  <1>3. r = s \o t
    BY <1>0
  <1> HIDE DEF s, t
  <1>4. IsJoin(r, s, t)
    BY <1>1, <1>2, <1>3, Joined
  <1>5. r \in Seq(Nat) /\ Len(r) = c
    BY <1>1, <1>2, <1>4 DEF IsJoin
  <1>6. ASSUME NEW j \in 1..(c - b) PROVE r[j] = w[j + b]
    BY <1>1, <1>4 DEF IsJoin
  <1>7. ASSUME NEW j \in 1..b PROVE r[c - b + j] = from + j
    BY <1>1, <1>2, <1>4 DEF IsJoin
  <1> QED BY <1>0, <1>5, <1>6, <1>7 DEF SlidBy, s, t

\* A position counted from the end, in a list of another length.
IsWindow(w, s, n, t) ==
  /\ w \in Seq(Nat) /\ Len(w) = Len(t) + n
  /\ \A k \in 1..Len(w) : Len(w) - k < n => w[k] = s[Len(s) - Len(w) + k]

\* A window of a list, counted from its end.
LEMMA FromTheEnd ==
  ASSUME NEW s \in Seq(Nat), NEW n \in Nat, NEW t \in Seq(Nat), n <= Len(s)
  PROVE  IsWindow(t \o Newest(s, n), s, n, t)
  <1>0. PICK w : w = t \o Newest(s, n)
    OBVIOUS
  <1>1. /\ Newest(s, n) \in Seq(Nat) /\ Len(Newest(s, n)) = n
        /\ \A k \in 1..n : Newest(s, n)[k] = s[Len(s) - n + k]
    BY NewestOf
  <1>2. PICK u \in Seq(Nat) : u = Newest(s, n)
    BY <1>1
  <1>3. IsJoin(w, t, u)
    BY <1>0, <1>2, Joined
  <1>4. ASSUME NEW k \in 1..Len(w), Len(w) - k < n
        PROVE  w[k] = s[Len(s) - Len(w) + k]
    <2>1. PICK i \in 1..n : k = Len(t) + i
      <3>1. k - Len(t) \in 1..n /\ k = Len(t) + (k - Len(t))
        BY <1>1, <1>2, <1>3, <1>4 DEF IsJoin
      <3> QED BY <3>1
    <2>2. w[k] = s[Len(s) - n + i]
      BY <1>1, <1>2, <1>3, <2>1 DEF IsJoin
    <2>3. Len(s) - n + i = Len(s) - Len(w) + k
      BY <1>1, <1>2, <1>3, <2>1 DEF IsJoin
    <2> QED BY <2>2, <2>3
  <1> QED BY <1>0, <1>1, <1>2, <1>3, <1>4 DEF IsJoin, IsWindow

LEMMA ContextResized ==
  ASSUME tuning \in Tunings, context \in Seq(Nat),
         NEW c \in Nat, c = ContextFrames, NEW l \in Nat, l = Len(context)
  PROVE  /\ ResizedContext \in Seq(Nat) /\ Len(ResizedContext) = c
         /\ \A k \in 1..c : ResizedContext[k] = 0 \/ (c - k < l /\ ResizedContext[k] = context[l - c + k])
  <1>1. c = ContextFrames
    OBVIOUS
  <1>2. l = Len(context)
    OBVIOUS
  <1>3. PICK w : w = ResizedContext
    OBVIOUS
  <1>4. CASE l < c
    <2>1. c - l \in Nat /\ w = Zeros(c - l) \o context
      BY <1>1, <1>2, <1>3, <1>4 DEF ResizedContext
    <2>2. PICK t \in Seq(Nat) : t = Zeros(c - l) /\ Len(t) = c - l /\ \A k \in 1..(c - l) : t[k] = 0
      <3>1. PICK n \in Nat : n = c - l
        BY <2>1
      <3>2. IsPadding(Zeros(n), n)
        BY ZerosOf
      <3> QED BY <3>1, <3>2 DEF IsPadding
    <2>3. /\ w \in Seq(Nat) /\ Len(w) = (c - l) + l
          /\ \A k \in 1..(c - l) : w[k] = t[k]
          /\ \A k \in 1..l : w[(c - l) + k] = context[k]
      <3>1. PICK s \in Seq(Nat) : s = context
        OBVIOUS
      <3>2. w = t \o s /\ Len(s) = l
        BY <1>2, <2>1, <2>2, <3>1
      <3>3. IsJoin(w, t, s)
        BY <3>2, Joined
      <3> QED BY <2>2, <3>1, <3>2, <3>3 DEF IsJoin
    <2>4. ASSUME NEW k \in 1..c PROVE w[k] = 0 \/ (c - k < l /\ w[k] = context[l - c + k])
      <3>1. CASE k <= c - l
        BY <2>1, <2>2, <2>3, <3>1
      <3>2. CASE k > c - l
        <4>1. l - c + k \in 1..l /\ k = (c - l) + (l - c + k) /\ c - k < l
          BY <3>2
        <4> QED BY <2>3, <4>1
      <3> QED BY <3>1, <3>2
    <2>5. Len(w) = c
      BY <2>3
    <2> QED BY <1>1, <1>2, <1>3, <2>3, <2>4, <2>5
  <1>5. CASE ~(l < c)
    <2>1. w = Newest(context, c) /\ c <= Len(context)
      BY <1>1, <1>2, <1>3, <1>5 DEF ResizedContext
    <2>2. w \in Seq(Nat) /\ Len(w) = c /\ \A k \in 1..c : w[k] = context[l - c + k]
      <3>1. PICK s \in Seq(Nat) : s = context
        OBVIOUS
      <3>2. w = Newest(s, c) /\ c <= Len(s) /\ l = Len(s)
        BY <1>2, <2>1, <3>1
      <3>3. \A k \in 1..c : w[k] = s[Len(s) - c + k]
        BY <3>2, NewestOf
      <3>4. w \in Seq(Nat) /\ Len(w) = c
        BY <3>2, NewestOf
      <3> QED BY <3>1, <3>2, <3>3, <3>4
    <2>3. \A k \in 1..c : c - k < l
      BY <1>5
    <2> QED BY <1>1, <1>2, <1>3, <2>2, <2>3
  <1> QED BY <1>4, <1>5

LEMMA NoiseResized ==
  ASSUME tuning \in Tunings, noise \in Seq(Nat), draws \in Nat,
         NEW c \in Nat, c = ContextFrames, NEW l \in Nat, l = Len(noise)
  PROVE  /\ ResizedNoise \in Seq(Nat) /\ Len(ResizedNoise) = c
         /\ \A k \in 1..c : c - k < l => ResizedNoise[k] = noise[l - c + k]
  <1>1. c = ContextFrames
    OBVIOUS
  <1>2. l = Len(noise)
    OBVIOUS
  <1>3. PICK stay \in Nat : stay = AtMost(l, c) /\ stay <= l /\ stay <= c /\ (stay = l \/ stay = c)
    BY DEF AtMost
  <1>4. PICK w : w = ResizedNoise
    OBVIOUS
  <1>5. w = Drawn(c - stay, draws) \o Newest(noise, stay)
    BY <1>1, <1>2, <1>3, <1>4 DEF ResizedNoise
  <1>6. PICK t \in Seq(Nat) : t = Drawn(c - stay, draws) /\ Len(t) = c - stay
    <2>1. c - stay \in Nat
      BY <1>3
    <2> QED BY <2>1, DrawnOf
  <1>7. /\ w \in Seq(Nat) /\ Len(w) = Len(t) + stay
        /\ \A k \in 1..Len(w) : Len(w) - k < stay => w[k] = noise[Len(noise) - Len(w) + k]
    <2>1. PICK s \in Seq(Nat) : s = noise /\ Len(s) = l
      BY <1>2
    <2>2. stay <= Len(s) /\ w = t \o Newest(s, stay)
      BY <1>3, <1>5, <1>6, <2>1
    <2>3. IsWindow(w, s, stay, t)
      BY <2>2, FromTheEnd
    <2> QED BY <2>1, <2>3 DEF IsWindow
  <1>8. Len(w) = c
    BY <1>3, <1>6, <1>7
  <1>9. ASSUME NEW k \in 1..c, c - k < l PROVE w[k] = noise[l - c + k]
    <2>1. c - k < stay
      BY <1>3, <1>9
    <2> QED BY <1>2, <1>7, <1>8, <2>1
  <1> QED BY <1>1, <1>2, <1>4, <1>7, <1>8, <1>9

StreamShapes ==
  /\ tuning \in Tunings /\ {fifo, draws, blocks, seam} \subseteq Nat /\ formant \in Nat \ {0}
  /\ owed \in 0..(RateDown - 1) /\ silence \in [taken : Nat, given : Nat]
  /\ filter.zi = (filter.cutoff > 0)

\* What the denoiser was given and has not given back is what waits for its hop.
DenoiserHolds ==
  /\ denoiser \in [mode : BOOLEAN, primed : BOOLEAN, pending : Nat, drop : Nat]
  /\ kept = denoiser.pending /\ kept < Hop /\ denoiser.drop = 0
  /\ ~denoiser.primed => kept = 0

\* A frame of the context is padding, or has its place counted from the last block.
ContextIsNumbered ==
  /\ context \in Seq(Nat) /\ noise \in Seq(Nat) /\ Len(context) = Len(noise)
  /\ \A i \in 1..Len(context) : context[i] = 0 \/ context[i] + Len(context) = blocks * BlockFrames + i
  /\ blocks > 0 => Len(context) > BlockFrames /\ context[Len(context)] = blocks * BlockFrames

\* The gate counts no more blocks than were quiet; the tail and the time since the gate
\* was open make up the flush.
GateCounts ==
  /\ gate \in [open : BOOLEAN, below : Nat, off : BOOLEAN]
  /\ calm \in [quiet : Nat, closed : Nat] /\ gate.below <= calm.quiet
  /\ ~gate.open => gate.below = 0
  /\ flush \in Nat
  /\ flush + calm.closed = FlushBlocks \/ (flush = 0 /\ calm.closed = FlushBlocks + 1)

StreamInv == StreamShapes /\ DenoiserHolds /\ ContextIsNumbered /\ GateCounts /\ SilenceIsExact

LEMMA StreamStart == StreamInit => StreamInv
  <1> SUFFICES ASSUME StreamInit PROVE StreamInv
    OBVIOUS
  <1>1. tuning \in TuningRecord /\ FlushBlocks \in Nat /\ Hop \in Nat \ {0} /\ RateDown \in Nat \ {0} /\ RateUp \in Nat
    BY VoiceStreamAssumption DEF StreamInit, TuningRecord
  <1>2. StreamShapes
    <2>1. filter.zi = (filter.cutoff > 0)
      BY DEF StreamInit
    <2>2. {fifo, draws, blocks, seam} \subseteq Nat /\ formant \in Nat \ {0} /\ owed \in 0..(RateDown - 1)
          /\ silence \in [taken : Nat, given : Nat]
      BY <1>1 DEF StreamInit
    <2> QED BY <2>1, <2>2 DEF StreamInit, StreamShapes
  <1>3. DenoiserHolds
    BY <1>1 DEF StreamInit, DenoiserHolds, TuningRecord
  <1>4. ContextIsNumbered
    <2>1. <<>> \in Seq(Nat) /\ Len(<<>>) = 0
      OBVIOUS
    <2> QED BY <2>1 DEF StreamInit, ContextIsNumbered
  <1>5. GateCounts
    BY <1>1 DEF StreamInit, GateCounts, TuningRecord
  <1>6. SilenceIsExact
    <2>1. Block \in Nat /\ 0 <= Block \div 2
      <3>1. Block \div 2 \in Nat
        BY BlockIsLong, Division
      <3> QED BY <3>1, BlockIsLong
    <2>2. seam = 0 /\ blocks = 0 /\ ~emitted.silent /\ silence.given = 0 /\ silence.taken = 0 /\ owed = 0
      BY DEF StreamInit
    <2> QED BY <1>1, <2>1, <2>2 DEF SilenceIsExact
  <1> QED BY <1>2, <1>3, <1>4, <1>5, <1>6 DEF StreamInv

\* Whole hops come out, and what was given and has not come out waits.
GivesHops(s, d, n) ==
  /\ s.state \in [mode : BOOLEAN, primed : BOOLEAN, pending : Nat, drop : Nat]
  /\ s.state.primed /\ s.state.drop = 0 /\ s.state.pending < Hop
  /\ s.out \in Nat /\ d.pending + n - s.out = s.state.pending

\* One piece through the denoiser: with or without the warm-up, what was given and not
\* given back is the new remainder.
LEMMA StreamedHolds ==
  ASSUME NEW d \in [mode : BOOLEAN, primed : BOOLEAN, pending : Nat, drop : Nat], NEW n \in Nat,
         d.drop = 0, ~d.primed => d.pending = 0
  PROVE  GivesHops(Streamed(d, n), d, n)
  <1> DEFINE s == Streamed(d, n)
  <1>1. Frame \in Nat \ {0} /\ Hop \in Nat \ {0}
    BY VoiceStreamAssumption
  <1>2. ASSUME NEW p \in Nat, NEW out \in Nat, p < Hop, d.pending + n - out = p,
               s = [state |-> [d EXCEPT !.primed = TRUE, !.pending = p, !.drop = 0], out |-> out]
        PROVE  GivesHops(s, d, n)
    <2>1. PICK e : e = [d EXCEPT !.primed = TRUE, !.pending = p, !.drop = 0]
      OBVIOUS
    <2>2. /\ e \in [mode : BOOLEAN, primed : BOOLEAN, pending : Nat, drop : Nat]
          /\ e.primed /\ e.drop = 0 /\ e.pending = p /\ e.mode = d.mode
      BY <2>1
    <2>3. s.state = e /\ s.out = out
      BY <1>2, <2>1
    <2> QED BY <1>2, <2>2, <2>3 DEF GivesHops
  <1>3. CASE d.primed
    <2>1. d.pending + n + 0 \in Nat
      OBVIOUS
    <2>2. PICK all \in Nat : all = d.pending + 0 + n
      OBVIOUS
    <2>3. PICK p \in Nat : p = all % Hop /\ p < Hop
      BY <1>1, <2>2, Division
    <2>4. PICK out \in Nat : out = (all \div Hop) * Hop /\ out + p = all
      <3>1. all \div Hop \in Nat /\ (all \div Hop) * Hop + (all % Hop) = all
        BY <1>1, Division
      <3> QED BY <1>1, <2>3, <3>1, Product
    <2>5. AtMost(0, out) = 0 /\ out - 0 = out /\ 0 - 0 = 0
      BY DEF AtMost
    <2>6. s = [state |-> [d EXCEPT !.primed = TRUE, !.pending = p, !.drop = 0], out |-> out]
      BY <1>3, <2>2, <2>3, <2>4, <2>5 DEF Streamed
    <2>7. d.pending + n - out = p
      BY <2>2, <2>4
    <2> QED BY <1>2, <2>3, <2>6, <2>7
  <1>4. CASE ~d.primed
    <2>1. 0 + Frame + n = Frame + n /\ Frame + n \in Nat
      BY <1>1
    <2>2. PICK out \in Nat : out = ((Frame + n) \div Hop) * Hop /\ Frame <= out
      BY HopsOut
    <2>3. PICK p \in Nat : p = (Frame + n) % Hop /\ p < Hop /\ n - (out - Frame) = p
      BY <2>2, HopsOut
    <2>4. AtMost(Frame, out) = Frame /\ Frame - Frame = 0
      BY <1>1, <2>2 DEF AtMost
    <2>5. s = [state |-> [d EXCEPT !.primed = TRUE, !.pending = p, !.drop = 0], out |-> out - Frame]
      BY <1>4, <2>1, <2>2, <2>3, <2>4 DEF Streamed
    <2>6. out - Frame \in Nat /\ d.pending + n - (out - Frame) = p
      BY <1>1, <1>4, <2>2, <2>3
    <2> QED BY <1>2, <2>3, <2>5, <2>6
  <1> QED BY <1>3, <1>4

LEMMA FeedKeeps ==
  ASSUME StreamInv, NEW n \in Pieces, Feed(n)
  PROVE  StreamInv'
  <1> DEFINE d == ActiveDenoiser
             runs == d.mode /\ n > 0
             held == IF d.mode /\ ~denoiser.mode THEN 0 ELSE kept
             piece == IF runs THEN Streamed(d, n).out ELSE n
  <1>0. /\ UNCHANGED <<tuning, context, noise, draws, blocks, gate, flush, calm, seam, emitted, owed, silence>>
        /\ denoiser' = (IF runs THEN Streamed(d, n).state ELSE d)
        /\ kept' = (IF runs THEN held + n - Streamed(d, n).out ELSE held)
        /\ filter' = Filtered /\ formant' = Formed(piece) /\ fifo' = fifo + piece \div Formed(piece)
    BY DEF Feed
  <1>1. n \in Nat /\ Hop \in Nat \ {0} /\ tuning \in TuningRecord
    BY VoiceStreamAssumption DEF StreamInv, StreamShapes, TuningRecord
  <1>2. /\ d \in [mode : BOOLEAN, primed : BOOLEAN, pending : Nat, drop : Nat]
        /\ d.drop = 0 /\ held = d.pending /\ held < Hop /\ (~d.primed => d.pending = 0)
    <2>1. CASE ~tuning.denoise
      <3>1. d = [denoiser EXCEPT !.mode = FALSE]
        BY <2>1 DEF ActiveDenoiser
      <3> QED BY <3>1 DEF StreamInv, DenoiserHolds
    <2>2. CASE tuning.denoise /\ denoiser.mode
      <3>1. d = denoiser
        BY <2>2 DEF ActiveDenoiser
      <3> QED BY <2>2, <3>1 DEF StreamInv, DenoiserHolds
    <2>3. CASE tuning.denoise /\ ~denoiser.mode
      <3>1. d = [mode |-> TRUE, primed |-> FALSE, pending |-> 0, drop |-> 0]
        BY <2>3 DEF ActiveDenoiser
      <3> QED BY <1>1, <2>3, <3>1 DEF StreamInv, DenoiserHolds
    <2> QED BY <2>1, <2>2, <2>3
  <1> HIDE DEF d
  <1>3. PICK e \in [mode : BOOLEAN, primed : BOOLEAN, pending : Nat, drop : Nat] : e = d
    BY <1>2
  <1>4. GivesHops(Streamed(e, n), e, n)
    BY <1>1, <1>2, <1>3, StreamedHolds
  <1>5. piece \in Nat
    BY <1>1, <1>3, <1>4 DEF GivesHops
  <1>6. DenoiserHolds'
    <2>1. CASE runs
      <3>1. denoiser' = Streamed(e, n).state /\ kept' = e.pending + n - Streamed(e, n).out
        BY <1>0, <1>2, <1>3, <2>1
      <3> QED BY <1>4, <3>1 DEF DenoiserHolds, GivesHops
    <2>2. CASE ~runs
      BY <1>0, <1>2, <2>2 DEF DenoiserHolds
    <2> QED BY <2>1, <2>2
  <1>7. Formed(piece) \in Nat \ {0}
    BY <1>1 DEF Formed, StreamInv, StreamShapes, TuningRecord
  <1> HIDE DEF piece
  <1>8. fifo' \in Nat
    <2>1. piece \div Formed(piece) \in Nat
      BY <1>5, <1>7, Division
    <2> QED BY <1>0, <2>1 DEF StreamInv, StreamShapes
  <1>9. filter'.zi = (filter'.cutoff > 0)
    BY <1>0 DEF Filtered
  <1>10. StreamShapes'
    BY <1>0, <1>7, <1>8, <1>9 DEF StreamInv, StreamShapes
  <1>11. ContextIsNumbered' /\ GateCounts' /\ SilenceIsExact'
    BY <1>0 DEF StreamInv, ContextIsNumbered, GateCounts, SilenceIsExact, Block, BlockFrames
  <1> QED BY <1>6, <1>10, <1>11 DEF StreamInv

\* What is in the window of one step and of the next has the same noise.
NoiseStays ==
  \A i \in DOMAIN context, j \in DOMAIN context' :
    context[i] # 0 /\ context[i] = context'[j] => noise[i] = noise'[j]

\* The window slides, however it was resized: its frames keep their numbers and their noise.
LEMMA WindowSlides ==
  ASSUME StreamShapes, ContextIsNumbered, context' = SlidContext, noise' = SlidNoise, blocks' = blocks + 1
  PROVE  ContextIsNumbered' /\ NoiseStays
  <1>1. PICK c \in Nat : c = ContextFrames /\ BlockFrames < c
    BY ContextIsLonger DEF StreamShapes
  <1>2. PICK b \in Nat : b = BlockFrames /\ b >= 1
    BY BlockIsLong
  <1>3. PICK l \in Nat : l = Len(context) /\ l = Len(noise)
    BY DEF ContextIsNumbered
  <1>4. PICK cut \in Nat : cut = blocks * BlockFrames /\ (blocks + 1) * BlockFrames = cut + b
    <2>1. blocks \in Nat
      BY DEF StreamShapes
    <2>2. blocks * b \in Nat /\ (blocks + 1) * b = blocks * b + b
      BY <2>1, Product
    <2> QED BY <1>2, <2>2
  <1>a. ASSUME NEW i \in 1..l
        PROVE  context[i] \in Nat /\ (context[i] = 0 \/ context[i] + l = cut + i)
    BY <1>3, <1>4 DEF ContextIsNumbered
  <1>5. PICK rc \in Seq(Nat) : rc = ResizedContext /\ Len(rc) = c
          /\ (\A k \in 1..c : rc[k] = 0 \/ (c - k < l /\ rc[k] = context[l - c + k]))
    BY <1>1, <1>3, ContextResized DEF StreamShapes, ContextIsNumbered
  <1>6. PICK rn \in Seq(Nat) : rn = ResizedNoise /\ Len(rn) = c
          /\ (\A k \in 1..c : c - k < l => rn[k] = noise[l - c + k])
    BY <1>1, <1>3, NoiseResized DEF StreamShapes, ContextIsNumbered
  <1>7. PICK r \in Seq(Nat) : r = SlidContext /\ SlidBy(r, rc, c, b, cut)
    <2>1. SlidContext = SubSeq(rc, b + 1, c) \o Drawn(b, cut)
      BY <1>1, <1>2, <1>4, <1>5 DEF SlidContext
    <2>2. SlidBy(SlidContext, rc, c, b, cut)
      BY <1>1, <1>2, <1>5, <2>1, Slides
    <2> QED BY <2>2 DEF SlidBy
  <1>8. PICK q \in Seq(Nat) : q = SlidNoise /\ Len(q) = c /\ (\A j \in 1..(c - b) : q[j] = rn[j + b])
    <2>1. PICK from \in Nat : from = draws + c
      BY DEF StreamShapes
    <2>2. SlidNoise = SubSeq(rn, b + 1, c) \o Drawn(b, from)
      BY <1>1, <1>2, <1>6, <2>1 DEF SlidNoise
    <2>3. SlidBy(SlidNoise, rn, c, b, from)
      BY <1>1, <1>2, <1>6, <2>2, Slides
    <2> QED BY <2>3 DEF SlidBy
  <1>9. ASSUME NEW j \in 1..c
        PROVE  /\ r[j] = 0 \/ r[j] + c = (cut + b) + j
               /\ c - b < j => r[j] = cut + (j - (c - b))
    <2>1. CASE j <= c - b
      <3>1. r[j] = rc[j + b] /\ j + b \in 1..c /\ j \in 1..(c - b)
        BY <1>1, <1>2, <1>7, <2>1 DEF SlidBy
      <3>2. CASE rc[j + b] = 0
        BY <2>1, <3>1, <3>2
      <3>3. CASE c - (j + b) < l /\ rc[j + b] = context[l - c + (j + b)]
        <4>1. PICK i \in 1..l : i = l - c + (j + b)
          BY <1>1, <1>2, <3>1, <3>3
        <4>2. context[i] \in Nat /\ (context[i] = 0 \/ context[i] + l = cut + i)
          BY <1>a
        <4>3. r[j] = context[i]
          BY <3>1, <3>3, <4>1
        <4>4. cut + i + c = cut + b + j + l
          BY <1>1, <1>2, <4>1
        <4>5. r[j] \in Nat /\ (r[j] = 0 \/ r[j] + c = (cut + b) + j)
          <5>1. PICK x \in Nat : x = context[i]
            BY <4>2
          <5>2. x = 0 \/ x + l = cut + i
            BY <4>2, <5>1
          <5>3. x = 0 \/ x + c = (cut + b) + j
            BY <4>4, <5>2
          <5> QED BY <4>3, <5>1, <5>3
        <4> QED BY <2>1, <4>5
      <3> QED BY <1>5, <3>1, <3>2, <3>3
    <2>2. CASE ~(j <= c - b)
      <3>1. PICK k \in 1..b : k = j - (c - b) /\ j = c - b + k
        <4>1. j - (c - b) \in 1..b /\ j = c - b + (j - (c - b))
          BY <1>1, <1>2, <2>2
        <4> QED BY <4>1
      <3>2. r[j] = cut + k
        BY <1>7, <3>1 DEF SlidBy
      <3> QED BY <3>1, <3>2
    <2> QED BY <2>1, <2>2
  <1>10. r[c] = cut + b
    BY <1>1, <1>2, <1>9
  <1>11. ContextIsNumbered'
    <2>1. context' = r /\ noise' = q /\ blocks' * BlockFrames = cut + b /\ BlockFrames = b /\ b < c
      BY <1>1, <1>2, <1>4, <1>7, <1>8
    <2> QED BY <1>7, <1>8, <1>9, <1>10, <2>1 DEF ContextIsNumbered, SlidBy
  <1>12. ASSUME NEW i \in 1..l, NEW j \in 1..c, context[i] # 0, context[i] = r[j]
         PROVE  noise[i] = q[j]
    <2>1. context[i] \in Nat /\ context[i] + l = cut + i
      BY <1>a, <1>12
    <2>2. context[i] + c = (cut + b) + j
      BY <1>9, <1>12
    <2>3. j \in 1..(c - b) /\ j + b \in 1..c /\ c - (j + b) < l /\ l - c + (j + b) = i
      BY <1>1, <1>2, <2>1, <2>2
    <2>4. q[j] = rn[j + b] /\ rn[j + b] = noise[l - c + (j + b)]
      BY <1>6, <1>8, <2>3
    <2> QED BY <2>3, <2>4
  <1>13. NoiseStays
    <2>1. DOMAIN context = 1..l /\ DOMAIN r = 1..c /\ context' = r /\ noise' = q
      BY <1>3, <1>7, <1>8 DEF ContextIsNumbered, SlidBy
    <2> QED BY <1>12, <2>1 DEF NoiseStays
  <1> QED BY <1>11, <1>13

\* A step that leaves the window alone.
LEMMA WindowRests ==
  ASSUME ContextIsNumbered, UNCHANGED <<context, noise, blocks>>, blocks \in Nat
  PROVE  NoiseStays
  <1>1. PICK l \in Nat : l = Len(context) /\ DOMAIN context = 1..l
    BY DEF ContextIsNumbered
  <1>2. PICK cut \in Nat : cut = blocks * BlockFrames
    BY Product, BlockIsLong
  <1>3. ASSUME NEW i \in 1..l, NEW j \in 1..l, context[i] # 0, context[i] = context[j]
        PROVE  i = j
    <2>1. context[i] \in Nat /\ context[i] + l = cut + i /\ context[i] + l = cut + j
      BY <1>1, <1>2, <1>3 DEF ContextIsNumbered
    <2> QED BY <2>1
  <1> QED BY <1>1, <1>3 DEF NoiseStays

\* The gate closes on as many quiet blocks as the hold asks for.
GateWaits == gate.open /\ ~gate'.open /\ ~gate.off => calm'.quiet >= tuning.hold

GateRecord == [open : BOOLEAN, below : Nat, off : BOOLEAN]

\* What an update leaves in the gate's record.
LEMMA GateClosed ==
  ASSUME NEW g \in GateRecord, NEW h, h = [g EXCEPT !.open = FALSE, !.below = 0]
  PROVE  h \in GateRecord /\ ~h.open /\ h.below = 0
  BY DEF GateRecord

\* One update of the gate: the flush is counted from the last open block, and a block
\* is squelched when it has run out.
LEMMA GateSteps ==
  ASSUME GateCounts, tuning \in TuningRecord, NEW level \in Levels,
         gate' = Updated(Configured, level), flush' = Flushed(gate'),
         calm' \in [quiet : Nat, closed : Nat],
         level = "quiet" => calm'.quiet = calm.quiet + 1,
         calm'.closed = IF gate'.open THEN 0 ELSE AtMost(calm.closed + 1, FlushBlocks + 1)
  PROVE  /\ GateCounts' /\ GateWaits
         /\ Squelched(gate') <=> calm'.closed > FlushBlocks
  <1> DEFINE g == Configured
  <1>1. FlushBlocks \in Nat \ {0} /\ tuning.hold \in Nat /\ tuning.off \in BOOLEAN
    BY VoiceStreamAssumption DEF TuningRecord
  <1>2. gate \in GateRecord /\ calm \in [quiet : Nat, closed : Nat] /\ gate.below <= calm.quiet
        /\ (~gate.open => gate.below = 0) /\ flush \in Nat
        /\ (flush + calm.closed = FlushBlocks \/ (flush = 0 /\ calm.closed = FlushBlocks + 1))
    BY DEF GateCounts, GateRecord
  <1>3. /\ g \in GateRecord /\ g.below <= calm.quiet /\ (~g.open => g.below = 0) /\ g.off = tuning.off
        /\ g = gate \/ g = [open |-> tuning.off, below |-> 0, off |-> tuning.off]
    BY <1>1, <1>2 DEF Configured, GateRecord
  <1>a. g \in GateRecord
    BY <1>3
  <1> HIDE DEF g
  <1>4. /\ gate' \in GateRecord /\ (~gate'.open => gate'.below = 0)
        /\ gate'.below <= calm'.quiet
        /\ (g.open /\ ~gate'.open => ~g.off /\ level = "quiet" /\ g.below + 1 >= tuning.hold)
    <2>1. CASE g.off \/ level = "loud"
      <3>1. gate' = [g EXCEPT !.open = TRUE, !.below = 0]
        BY <2>1 DEF Updated, g
      <3>2. gate' \in GateRecord /\ gate'.open /\ gate'.below = 0
        BY <1>a, <3>1 DEF GateRecord
      <3> QED BY <3>2
    <2>2. CASE ~g.off /\ level = "near"
      <3>1. gate' = [g EXCEPT !.below = IF g.open THEN 0 ELSE g.below]
        BY <2>2 DEF Updated, g
      <3>2. (IF g.open THEN 0 ELSE g.below) = 0
        BY <1>3
      <3>3. gate' = [g EXCEPT !.below = 0]
        BY <3>1, <3>2
      <3> QED BY <1>2, <1>3, <3>3 DEF GateRecord
    <2>3. CASE ~g.off /\ level = "quiet"
      <3>0. calm'.quiet = calm.quiet + 1
        BY <2>3
      <3>1. CASE ~g.open
        <4>1. gate' = g
          BY <2>3, <3>1 DEF Updated, g
        <4> QED BY <1>2, <1>3, <3>0, <3>1, <4>1 DEF GateRecord
      <3>2. CASE g.open /\ g.below + 1 >= tuning.hold
        <4>1. gate' = [g EXCEPT !.open = FALSE, !.below = 0]
          BY <2>3, <3>2 DEF Updated, g
        <4>2. gate' \in GateRecord /\ ~gate'.open /\ gate'.below = 0
          BY <1>a, <4>1, GateClosed
        <4> QED BY <2>3, <3>2, <4>2
      <3>3. CASE g.open /\ ~(g.below + 1 >= tuning.hold)
        <4>1. gate' = [g EXCEPT !.below = g.below + 1]
          BY <2>3, <3>3 DEF Updated, g
        <4>2. PICK below \in Nat : below = g.below + 1
          BY <1>3 DEF GateRecord
        <4>3. gate' = [g EXCEPT !.below = below]
          BY <4>1, <4>2
        <4>4. gate' \in GateRecord /\ gate'.open = g.open /\ gate'.below = below
          BY <1>a, <4>3 DEF GateRecord
        <4>5. below <= calm'.quiet
          BY <1>2, <1>3, <3>0, <4>2 DEF GateRecord
        <4> QED BY <3>3, <4>4, <4>5
      <3> QED BY <3>1, <3>2, <3>3
    <2> QED BY <2>1, <2>2, <2>3 DEF Levels
  <1>5. calm' \in [quiet : Nat, closed : Nat] /\ calm'.closed = (IF gate'.open THEN 0 ELSE AtMost(calm.closed + 1, FlushBlocks + 1))
        /\ (level = "quiet" => calm'.quiet = calm.quiet + 1)
    OBVIOUS
  <1>6. GateWaits
    <2>1. ASSUME gate.open, ~gate'.open, ~gate.off PROVE calm'.quiet >= tuning.hold
      <3>1. CASE g = gate
        BY <1>1, <1>2, <1>3, <1>4, <1>5, <2>1, <3>1 DEF GateRecord
      <3>2. CASE g # gate
        <4>1. tuning.off # gate.off
          BY <3>2 DEF g, Configured
        <4>2. tuning.off
          BY <1>1, <1>2, <2>1, <4>1 DEF GateRecord
        <4>3. g.open /\ g.off
          BY <1>3, <3>2, <4>2
        <4> QED BY <1>4, <2>1, <4>3
      <3> QED BY <3>1, <3>2
    <2> QED BY <2>1 DEF GateWaits
  <1>7. /\ flush' \in Nat
        /\ flush' + calm'.closed = FlushBlocks \/ (flush' = 0 /\ calm'.closed = FlushBlocks + 1)
        /\ Squelched(gate') <=> calm'.closed > FlushBlocks
    <2>1. CASE gate'.open
      BY <1>1, <1>2, <1>5, <2>1 DEF Flushed, Squelched
    <2>2. CASE ~gate'.open /\ flush > 0
      BY <1>1, <1>2, <1>5, <2>2 DEF Flushed, Squelched, AtMost
    <2>3. CASE ~gate'.open /\ flush = 0
      BY <1>1, <1>2, <1>5, <2>3 DEF Flushed, Squelched, AtMost
    <2> QED BY <1>2, <2>1, <2>2, <2>3
  <1> QED BY <1>4, <1>5, <1>6, <1>7 DEF GateCounts, GateRecord

\* A squelched block puts out as much silence as it stands for, to the sample: the
\* fraction that is left over is owed to the next.
LEMMA SilenceKeeps ==
  ASSUME StreamShapes, SilenceIsExact, calm'.closed > FlushBlocks, Silenced
  PROVE  /\ SilenceIsExact' /\ owed' \in 0..(RateDown - 1) /\ seam' \in Nat
         /\ silence' \in [taken : Nat, given : Nat]
  <1>1. RateDown \in Nat \ {0} /\ RateUp \in Nat /\ Block \in Nat
    BY VoiceStreamAssumption, BlockIsLong
  <1>2. PICK m \in Nat : m = Block * formant
    BY <1>1, Product DEF StreamShapes
  <1>3. PICK up \in Nat : up = m * RateUp
    BY <1>1, Product
  <1>4. PICK due \in Nat : due = owed + up
    BY <1>1 DEF StreamShapes
  <1>5. PICK q \in Nat : q = due \div RateDown
    BY <1>1, Division
  <1>6. PICK r \in Nat : r = due % RateDown /\ r < RateDown /\ q * RateDown + r = due
    BY <1>1, <1>5, Division
  <1>7. owed + Block * formant * RateUp = due
    BY <1>2, <1>3, <1>4
  <1>8. /\ seam' = 0 /\ owed' = r /\ emitted' = [length |-> q, silent |-> TRUE]
        /\ silence' = [taken |-> silence.taken + m, given |-> silence.given + q]
    BY <1>2, <1>5, <1>6, <1>7 DEF Silenced
  <1>9. PICK taken \in Nat, given \in Nat : taken = silence.taken /\ given = silence.given
    BY DEF StreamShapes
  <1>10. silence' \in [taken : Nat, given : Nat] /\ silence'.taken = taken + m /\ silence'.given = given + q
    BY <1>8, <1>9
  <1>11. (given + q) * RateDown + r = (taken + m) * RateUp
    <2>1. (given + q) * RateDown = given * RateDown + q * RateDown
      BY <1>1
    <2>2. (taken + m) * RateUp = taken * RateUp + m * RateUp
      BY <1>1
    <2>3. given * RateDown + owed = taken * RateUp
      BY <1>9 DEF SilenceIsExact
    <2>4. /\ given * RateDown \in Nat /\ q * RateDown \in Nat /\ taken * RateUp \in Nat
          /\ m * RateUp \in Nat /\ owed \in Nat
      BY <1>1, Product DEF StreamShapes
    <2> QED BY <1>3, <1>4, <1>6, <2>1, <2>2, <2>3, <2>4
  <1>12. 0 <= Block \div 2
    <2>1. Block \div 2 \in Nat
      BY <1>1, Division
    <2> QED BY <2>1
  <1>13. SilenceIsExact'
    <2>1. silence'.given * RateDown + owed' = silence'.taken * RateUp
      BY <1>8, <1>10, <1>11
    <2>2. emitted'.silent /\ seam' = 0
      BY <1>8
    <2>3. Block' = Block
      BY DEF Block
    <2> QED BY <1>12, <2>1, <2>2, <2>3 DEF SilenceIsExact
  <1> QED BY <1>1, <1>6, <1>8, <1>10, <1>13

\* What is stitched is one block, wherever the alignment puts it, and the seam that is
\* kept is at most half a block.
LEMMA StitchedIsBlock ==
  ASSUME tuning \in Tunings, NEW offset \in 0..SolaSearch
  PROVE  /\ Stitched(offset) = Block /\ SeamAfter(offset) = Faded
         /\ Faded \in Nat /\ Faded <= Block \div 2
  <1>1. tuning.fade \in Nat /\ SolaSearch \in Nat /\ Block \in Nat
    BY VoiceStreamAssumption, BlockIsLong
  <1>2. PICK h \in Nat : h = Block \div 2 /\ h <= Block
    <2>1. Block \div 2 \in Nat /\ (Block \div 2) * 2 + (Block % 2) = Block /\ Block % 2 \in Nat
      BY <1>1, Division
    <2> QED BY <1>1, <2>1
  <1>3. PICK f \in Nat : f = Faded /\ f <= h
    BY <1>1, <1>2 DEF Faded, AtMost
  <1>4. PICK o \in Nat : o = offset /\ o <= SolaSearch
    BY <1>1
  <1>5. AtMost(Block + f + SolaSearch - o, Block) = Block
    BY <1>1, <1>4 DEF AtMost
  <1>6. AtMost(Block + f + SolaSearch - o, Block + f) = Block + f
    BY <1>1, <1>4 DEF AtMost
  <1>7. Stitched(offset) = f + (Block - f) /\ SeamAfter(offset) = (Block + f) - Block
    BY <1>3, <1>4, <1>5, <1>6 DEF Stitched, SeamAfter
  <1> QED BY <1>1, <1>2, <1>3, <1>7

LEMMA ConvertedKeeps ==
  ASSUME StreamShapes, SilenceIsExact, calm'.closed <= FlushBlocks, Converted
  PROVE  SilenceIsExact' /\ UNCHANGED <<owed, silence>> /\ seam' \in Nat
  <1>1. 0 \in 0..SolaSearch /\ tuning \in Tunings
    BY VoiceStreamAssumption DEF StreamShapes
  <1>2. PICK offset \in 0..SolaSearch :
          /\ seam' = IF Faded = 0 THEN 0 ELSE SeamAfter(IF seam = Faded THEN offset ELSE 0)
          /\ emitted' = [length |-> IF Faded = 0 THEN Block ELSE Stitched(IF seam = Faded THEN offset ELSE 0),
                         silent |-> FALSE]
    BY DEF Converted
  <1>3. PICK o \in 0..SolaSearch : o = IF seam = Faded THEN offset ELSE 0
    BY <1>1
  <1>4. Stitched(o) = Block /\ SeamAfter(o) = Faded /\ Faded \in Nat /\ Faded <= Block \div 2
    BY <1>1, StitchedIsBlock
  <1>5. seam' = Faded /\ emitted' = [length |-> Block, silent |-> FALSE]
    BY <1>2, <1>3, <1>4
  <1>6. Block' = Block /\ UNCHANGED <<owed, silence>>
    BY DEF Block, Converted
  <1>7. SilenceIsExact'
    <2>1. emitted'.length = Block /\ ~emitted'.silent /\ seam' <= Block \div 2
      BY <1>4, <1>5
    <2>2. silence'.given * RateDown + owed' = silence'.taken * RateUp
      BY <1>6 DEF SilenceIsExact
    <2> QED BY <1>6, <2>1, <2>2 DEF SilenceIsExact
  <1> QED BY <1>4, <1>5, <1>6, <1>7

\* One block through the processor.
LEMMA CutKeeps ==
  ASSUME StreamInv, NEW level \in Levels, Cut(level)
  PROVE  StreamInv' /\ NoiseStays /\ GateWaits
  <1>0. /\ fifo >= Block /\ fifo' = fifo - Block /\ blocks' = blocks + 1
        /\ context' = SlidContext /\ noise' = SlidNoise
        /\ draws' = draws + ContextFrames + BlockFrames
        /\ gate' = Updated(Configured, level)
        /\ calm' = [quiet  |-> IF level = "quiet" THEN calm.quiet + 1 ELSE 0,
                    closed |-> IF gate'.open THEN 0 ELSE AtMost(calm.closed + 1, FlushBlocks + 1)]
        /\ UNCHANGED <<tuning, denoiser, kept, filter, formant>>
    BY DEF Cut
  <1>1. flush' = Flushed(gate')
    BY <1>0 DEF Cut
  <1>2. IF Squelched(gate') THEN Silenced ELSE Converted
    BY <1>0 DEF Cut
  <1>3. tuning \in Tunings /\ tuning \in TuningRecord /\ FlushBlocks \in Nat \ {0}
    BY VoiceStreamAssumption DEF StreamInv, StreamShapes, TuningRecord
  <1>4. /\ calm' \in [quiet : Nat, closed : Nat]
        /\ level = "quiet" => calm'.quiet = calm.quiet + 1
        /\ calm'.closed = IF gate'.open THEN 0 ELSE AtMost(calm.closed + 1, FlushBlocks + 1)
    <2>1. calm \in [quiet : Nat, closed : Nat]
      BY DEF StreamInv, GateCounts
    <2>2. PICK m \in Nat : m = IF level = "quiet" THEN calm.quiet + 1 ELSE 0
      BY <2>1
    <2>3. PICK n \in Nat : n = IF gate'.open THEN 0 ELSE AtMost(calm.closed + 1, FlushBlocks + 1)
      BY <1>3, <2>1 DEF AtMost
    <2>4. calm' = [quiet |-> m, closed |-> n]
      BY <1>0, <2>2, <2>3
    <2> QED BY <2>2, <2>3, <2>4
  <1>5. GateCounts' /\ GateWaits
    BY <1>0, <1>1, <1>3, <1>4, GateSteps DEF StreamInv
  <1>6. Squelched(gate') <=> calm'.closed > FlushBlocks
    BY <1>0, <1>1, <1>3, <1>4, GateSteps DEF StreamInv
  <1>7. ContextIsNumbered' /\ NoiseStays
    BY <1>0, WindowSlides DEF StreamInv
  <1>8. /\ SilenceIsExact' /\ owed' \in 0..(RateDown - 1) /\ seam' \in Nat
        /\ silence' \in [taken : Nat, given : Nat]
    <2>1. CASE Squelched(gate')
      BY <1>2, <1>6, <2>1, SilenceKeeps DEF StreamInv
    <2>2. CASE ~Squelched(gate')
      <3>1. calm'.closed <= FlushBlocks
        BY <1>3, <1>4, <1>6, <2>2
      <3>2. SilenceIsExact' /\ UNCHANGED <<owed, silence>> /\ seam' \in Nat
        BY <1>2, <2>2, <3>1, ConvertedKeeps DEF StreamInv
      <3> QED BY <3>2 DEF StreamInv, StreamShapes
    <2> QED BY <2>1, <2>2
  <1>9. fifo' \in Nat /\ blocks' \in Nat /\ draws' \in Nat
    BY <1>0, <1>3, BlockIsLong, ContextIsLonger DEF StreamInv, StreamShapes
  <1>10. StreamShapes'
    BY <1>0, <1>8, <1>9 DEF StreamInv, StreamShapes
  <1>11. DenoiserHolds'
    BY <1>0 DEF StreamInv, DenoiserHolds
  <1> QED BY <1>5, <1>7, <1>8, <1>10, <1>11 DEF StreamInv

LEMMA TuneKeeps == StreamInv /\ Tune => StreamInv'
  BY DEF StreamInv, Tune, StreamShapes, DenoiserHolds, ContextIsNumbered, GateCounts, SilenceIsExact,
         Block, BlockFrames

LEMMA StreamRests == StreamInv /\ UNCHANGED voiceStreamVars => StreamInv'
  BY DEF StreamInv, voiceStreamVars, StreamShapes, DenoiserHolds, ContextIsNumbered, GateCounts,
         SilenceIsExact, Block, BlockFrames

\* Every step keeps the invariant, the noise and the hold.
LEMMA StreamStep ==
  ASSUME StreamInv, [StreamNext]_voiceStreamVars
  PROVE  StreamInv' /\ NoiseStays /\ GateWaits
  <1>1. ASSUME NEW n \in Pieces, Feed(n) PROVE StreamInv' /\ NoiseStays /\ GateWaits
    <2>1. UNCHANGED <<context, noise, blocks>> /\ gate' = gate
      BY <1>1 DEF Feed
    <2>2. NoiseStays
      BY <2>1, WindowRests DEF StreamInv, StreamShapes
    <2> QED BY <1>1, <2>1, <2>2, FeedKeeps DEF GateWaits
  <1>2. ASSUME NEW level \in Levels, Cut(level) PROVE StreamInv' /\ NoiseStays /\ GateWaits
    BY <1>2, CutKeeps
  <1>3. CASE Tune
    <2>1. UNCHANGED <<context, noise, blocks>> /\ gate' = gate
      BY <1>3 DEF Tune
    <2>2. NoiseStays
      BY <2>1, WindowRests DEF StreamInv, StreamShapes
    <2> QED BY <1>3, <2>1, <2>2, TuneKeeps DEF GateWaits
  <1>4. CASE UNCHANGED voiceStreamVars
    <2>1. UNCHANGED <<context, noise, blocks>> /\ gate' = gate
      BY <1>4 DEF voiceStreamVars
    <2>2. NoiseStays
      BY <2>1, WindowRests DEF StreamInv, StreamShapes
    <2> QED BY <1>4, <2>1, <2>2, StreamRests DEF GateWaits
  <1> QED BY <1>1, <1>2, <1>3, <1>4 DEF StreamNext

LEMMA StreamIsInvariant == StreamSpec => []StreamInv
  <1>1. StreamInv /\ [StreamNext]_voiceStreamVars => StreamInv'
    BY StreamStep
  <1> QED BY <1>1, StreamStart, PTL DEF StreamSpec

\* What a file loses at its end is less than a hop, and comes back as zeros.
LEMMA FileKeepsLength ==
  ASSUME NEW n \in Nat
  PROVE  FileDenoised(n).audio >= 0 /\ FileDenoised(n).zeros \in 0..(Hop - 1)
  <1>1. Frame \in Nat \ {0} /\ Hop \in Nat \ {0}
    BY VoiceStreamAssumption
  <1>2. PICK out \in Nat : out = ((Frame + n) \div Hop) * Hop /\ Frame <= out
    BY HopsOut
  <1>3. PICK p \in Nat : p = (Frame + n) % Hop /\ p < Hop /\ n - (out - Frame) = p
    BY <1>2, HopsOut
  <1>4. FileDenoised(n) = [audio |-> out - Frame, zeros |-> p]
    BY <1>2, <1>3 DEF FileDenoised
  <1> QED BY <1>1, <1>2, <1>3, <1>4

\* Of every session: no sample is lost or invented before the processor, a block never
\* comes without its context, and silence is as long as what it stands for.
THEOREM StreamStaysSound == StreamSpec => []StreamIsSound
  <1>1. ASSUME StreamInv PROVE StreamIsSound
    <2>1. StreamTypeOK
      <3>1. Hop \in Nat \ {0} /\ FlushBlocks \in Nat \ {0}
        BY VoiceStreamAssumption
      <3>2. kept \in Nat
        BY <1>1 DEF StreamInv, DenoiserHolds
      <3>3. flush \in 0..FlushBlocks
        BY <1>1, <3>1 DEF StreamInv, GateCounts
      <3> QED BY <1>1, <3>2, <3>3 DEF StreamInv, StreamShapes, GateCounts, StreamTypeOK
    <2>2. DenoiserKeepsSamples
      <3>1. ASSUME NEW n \in Pieces
            PROVE  FileDenoised(n).audio >= 0 /\ FileDenoised(n).zeros \in 0..(Hop - 1)
        BY VoiceStreamAssumption, FileKeepsLength
      <3> QED BY <1>1, <3>1 DEF StreamInv, DenoiserHolds, DenoiserKeepsSamples
    <2>3. ContextIsWhole
      BY <1>1 DEF StreamInv, StreamShapes, ContextIsNumbered, ContextIsWhole
    <2> QED BY <1>1, <2>1, <2>2, <2>3 DEF StreamInv, StreamIsSound
  <1> QED BY <1>1, StreamIsInvariant, PTL

\* Of every step: what is synthesized twice comes from the same noise, and the gate never
\* closes before its hold.
THEOREM NoiseStaysPinned == StreamSpec => NoiseIsPinned
  <1>1. StreamInv /\ [StreamNext]_voiceStreamVars => [NoiseStays /\ GateWaits]_voiceStreamVars
    BY StreamStep
  <1>2. NoiseStays /\ GateWaits =>
          /\ \A i \in DOMAIN context, j \in DOMAIN context' :
               context[i] # 0 /\ context[i] = context'[j] => noise[i] = noise'[j]
          /\ gate.open /\ ~gate'.open /\ ~gate.off => calm'.quiet >= tuning.hold
    BY DEF NoiseStays, GateWaits
  <1> QED BY <1>1, <1>2, StreamIsInvariant, PTL DEF StreamSpec, NoiseIsPinned
==============================================================================
