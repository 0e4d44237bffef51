----------------------------- MODULE VoiceEngine -----------------------------
(***************************************************************************)
(* The voice engine: slots and pretrained assets on disk, the one model it  *)
(* keeps loaded, the DTLN denoiser it lends out, and who uses them at once: *)
(* uploads that are converted one at a time behind an asyncio lock, and the *)
(* thread of a live session, which takes no lock at all.                    *)
(***************************************************************************)
EXTENDS Integers, Sequences

CONSTANTS Voices,     \* slot directories
          Folder,     \* Folder[v]: what discovery finds in it
          AssetFiles, \* files of the pretrained assets: see Assets
          Conversions, LiveLane,
          NoFile, NoVoice, NoUser,
          Movable,    \* bound: the slots and assets the user takes away or puts back
          MaxLoads,   \* bound: models that are loaded
          MaxEvents   \* bound: changes of the disk and crashes

Users == Conversions \union {LiveLane}

ASSUME VoiceEngineAssumption ==
  /\ LiveLane \notin Conversions /\ NoUser \notin Users /\ NoVoice \notin Voices
  /\ MaxLoads \in Nat /\ MaxEvents \in Nat

VARIABLES shelf,       \* slot directories that are there
          pretrain,    \* asset files that are there
          denoising,   \* engine.input_denoise = "dtln"
          cache,       \* _loaded_model_id and _loaded_model (0: None)
          voiceOf,     \* voiceOf[o]: the voice of the o-th model ever loaded
          onnx,        \* onnx[o]: the ContentVec session of that model
          dtln,        \* the stream whose state the denoiser carries
          user,        \* user[u]: the stage of a conversion or of the session
          temp, wav, mp3, \* files of a conversion: upload, output, export
          returned,    \* conversions whose token a client has
          overlapped,  \* history: a session loaded beside a conversion
          crashes, changes

veDisk == <<shelf, pretrain, denoising, changes>>
veFiles == <<temp, wav, mp3, returned>>
veHistory == <<overlapped, crashes>>
voiceEngineVars == <<veDisk, cache, voiceOf, onnx, dtln, user, veFiles, veHistory>>

Done == [stage |-> "done", voice |-> NoVoice, model |-> 0, dtln |-> FALSE]
NoUse == [stage |-> "idle", voice |-> NoVoice, model |-> 0, dtln |-> FALSE]
NothingCached == [id |-> NoVoice, model |-> 0]

VoiceInit ==
  /\ shelf = Voices /\ pretrain = AssetFiles /\ denoising = FALSE
  /\ cache = NothingCached /\ voiceOf = <<>> /\ onnx = <<>> /\ dtln = NoUser
  /\ user = [u \in Users |-> NoUse]
  /\ temp = [c \in Conversions |-> "none"] /\ wav = temp /\ mp3 = temp /\ returned = {}
  /\ overlapped = FALSE /\ crashes = 0 /\ changes = 0

------------------------------------------------------------------------------
(* Discovery *)

\* A hint of params.json that names a file of the right kind, or the first by name.
ChooseFile(folder, kinds) ==
  LET fits == {f \in folder.files : f.ext \in kinds}
  IN IF folder.hint \in fits THEN folder.hint
     ELSE IF fits = {} THEN NoFile
     ELSE CHOOSE f \in fits : \A g \in fits : f.rank <= g.rank

ModelFile(v) == ChooseFile(Folder[v], {"pth", "safetensors"})

\* discover_slots: directories that are no unpacked .zip and have a model file.
Discovered == {v \in shelf : ~Folder[v].zip /\ ModelFile(v) # NoFile}

\* One of the ContentVec files and RMVPE; the DTLN pair only together.
AssetsReady == pretrain \cap {"cv", "cv16"} # {} /\ "rmvpe" \in pretrain
DtlnFound == {"dtln1", "dtln2"} \subseteq pretrain
AssetError(denoise) == ~AssetsReady \/ (denoise /\ ~DtlnFound)

\* load_model believes the phone embedding before the version, and the network is
\* built from the checkpoint's config, which a .safetensors file does not have.
Loadable(f) ==
  /\ f.ext = "pth" /\ f.config
  /\ f.dim = 768 \/ (f.dim = 0 /\ f.version \in {"", "v2"})

\* sid of the slot, else of the checkpoint, else 0, within the speakers there are.
DefaultSpeaker(slotSid, fileSid, count) ==
  LET asked == IF slotSid # -1 THEN slotSid ELSE IF fileSid # -1 THEN fileSid ELSE 0
      upper == IF count > 1 THEN count - 1 ELSE 0
  IN IF asked > upper THEN upper ELSE asked

\* The user moves slots and assets about, and changes the denoise setting.
ChangeDisk ==
  /\ changes + crashes < MaxEvents /\ changes' = changes + 1
  /\ \/ \E v \in Voices \cap Movable : shelf' = (shelf \ {v}) \union ({v} \ shelf) /\ UNCHANGED <<pretrain, denoising>>
     \/ \E a \in AssetFiles \cap Movable : pretrain' = (pretrain \ {a}) \union ({a} \ pretrain) /\ UNCHANGED <<shelf, denoising>>
     \/ denoising' = ~denoising /\ UNCHANGED <<shelf, pretrain>>
  /\ UNCHANGED <<cache, voiceOf, onnx, dtln, user, veFiles, veHistory>>

------------------------------------------------------------------------------
(* One conversion: POST /convert *)

At(u, stage) == user' = [user EXCEPT ![u].stage = stage]
Inside(u) == user[u].stage \notin {"idle", "copying", "done"}
Loading(u) == user[u].stage \in {"check", "loading", "naming", "taking"}

\* The checks of the request, then the copy of its body into a temporary file.
Upload(c, v, d) ==
  /\ user[c] = NoUse
  /\ v \in Discovered /\ ~AssetError(d)
  /\ user' = [user EXCEPT ![c] = [NoUse EXCEPT !.stage = "copying", !.voice = v, !.dtln = d]]
  /\ temp' = [temp EXCEPT ![c] = "whole"]
  /\ UNCHANGED <<veDisk, cache, voiceOf, onnx, dtln, wav, mp3, returned, veHistory>>

\* Mutant: the conversion does not take the lock.
EnterUnlocked(c) ==
  /\ user[c].stage = "copying"
  /\ At(c, "check")
  /\ overlapped' = (overlapped \/ Loading(LiveLane))
  /\ UNCHANGED <<veDisk, cache, voiceOf, onnx, dtln, veFiles, crashes>>

\* The body is copied; async with self._lock, then the thread: one at a time.
EnterEngine(c) ==
  /\ user[c].stage = "copying" /\ \A x \in Conversions : ~Inside(x)
  /\ At(c, "check")
  /\ overlapped' = (overlapped \/ Loading(LiveLane))
  /\ UNCHANGED <<veDisk, cache, voiceOf, onnx, dtln, veFiles, crashes>>

\* An exception: too large, empty or broken off while it is copied; no such voice or
\* asset, a checkpoint that does not load, audio that cannot be read. The upload is
\* unlinked, a half-written output is not.
ConvertFails(c) ==
  /\ user[c].stage \in {"copying", "check", "loading", "loaded", "denoise", "extract", "writing"}
  /\ user' = [user EXCEPT ![c] = Done]
  /\ temp' = [temp EXCEPT ![c] = "none"]
  /\ UNCHANGED <<veDisk, cache, voiceOf, onnx, dtln, wav, mp3, returned, veHistory>>

------------------------------------------------------------------------------
(* _load_real_model, in the thread of a conversion or of the session *)

\* The model is taken from the cache if the id fits; else slot and assets are looked
\* up again, and whoever finds nothing fails (ConvertFails, StartFails).
CheckCache(u) ==
  /\ user[u].stage = "check"
  /\ LET hit == cache.id = user[u].voice /\ cache.model # 0
     IN \/ hit /\ At(u, "taking")
        \/ ~hit /\ user[u].voice \in Discovered /\ AssetsReady /\ At(u, "loading")
  /\ UNCHANGED <<veDisk, cache, voiceOf, onnx, dtln, veFiles, veHistory>>

LoadModel(u) ==
  /\ user[u].stage = "loading" /\ Loadable(ModelFile(user[u].voice)) /\ Len(voiceOf) < MaxLoads
  /\ voiceOf' = Append(voiceOf, user[u].voice) /\ onnx' = Append(onnx, "cold")
  /\ cache' = [cache EXCEPT !.model = Len(voiceOf')]
  /\ At(u, "naming")
  /\ UNCHANGED <<veDisk, dtln, veFiles, veHistory>>

NameModel(u) ==
  /\ user[u].stage = "naming"
  /\ cache' = [cache EXCEPT !.id = user[u].voice]
  /\ At(u, "taking")
  /\ UNCHANGED <<veDisk, voiceOf, onnx, dtln, veFiles, veHistory>>

\* return self._loaded_model, read once more.
TakeModel(u) ==
  /\ user[u].stage = "taking"
  /\ user' = [user EXCEPT ![u].stage = "loaded", ![u].model = cache.model]
  /\ UNCHANGED <<veDisk, cache, voiceOf, onnx, dtln, veFiles, veHistory>>

------------------------------------------------------------------------------
(* _convert_real_sync and pipeline.convert *)

\* The denoiser is created or taken, and reset.
TakeDenoiser(c) ==
  /\ user[c].stage = "loaded" /\ (user[c].dtln => DtlnFound)
  /\ dtln' = IF user[c].dtln THEN c ELSE dtln
  /\ At(c, "denoise")
  /\ UNCHANGED <<veDisk, cache, voiceOf, onnx, veFiles, veHistory>>

\* process(): the whole file, on whatever state the denoiser is in by now.
Denoise(c) ==
  /\ user[c].stage = "denoise"
  /\ At(c, "extract")
  /\ dtln' = IF user[c].dtln THEN c ELSE dtln
  /\ UNCHANGED <<veDisk, cache, voiceOf, onnx, veFiles, veHistory>>

\* ContentVec._load assigns the session first, and its input and output names after.
OpenSession(u) ==
  /\ user[u].stage = "extract" /\ onnx[user[u].model] = "cold"
  /\ onnx' = [onnx EXCEPT ![user[u].model] = "unnamed"]
  /\ At(u, "open")
  /\ UNCHANGED <<veDisk, cache, voiceOf, dtln, veFiles, veHistory>>

NameSession(u) ==
  /\ user[u].stage = "open"
  /\ onnx' = [onnx EXCEPT ![user[u].model] = "ready"]
  /\ At(u, "extract")
  /\ UNCHANGED <<veDisk, cache, voiceOf, dtln, veFiles, veHistory>>

\* assert self._input_name is not None: the conversion fails, a live chunk is silent.
ExtractFails(u) ==
  /\ user[u].stage = "extract" /\ onnx[user[u].model] = "unnamed"
  /\ user' = [user EXCEPT ![u] = IF u = LiveLane THEN [@ EXCEPT !.stage = "live"] ELSE Done]
  /\ temp' = [c \in Conversions |-> IF c = u THEN "none" ELSE temp[c]]
  /\ UNCHANGED <<veDisk, cache, voiceOf, onnx, dtln, wav, mp3, returned, veHistory>>

Convert(c) ==
  /\ c # LiveLane /\ user[c].stage = "extract" /\ onnx[user[c].model] = "ready"
  /\ At(c, "writing") /\ wav' = [wav EXCEPT ![c] = "partial"]
  /\ UNCHANGED <<veDisk, cache, voiceOf, onnx, dtln, temp, mp3, returned, veHistory>>

\* sf.write returns, the upload is unlinked, the client gets the token.
ConvertDone(c) ==
  /\ user[c].stage = "writing"
  /\ user' = [user EXCEPT ![c] = Done]
  /\ wav' = [wav EXCEPT ![c] = "whole"] /\ temp' = [temp EXCEPT ![c] = "none"]
  /\ returned' = returned \union {c}
  /\ UNCHANGED <<veDisk, cache, voiceOf, onnx, dtln, mp3, veHistory>>

\* GET /file/{token}/mp3: an export at least as new as the output is served as it
\* is; a codec that fails unlinks what it wrote.
ExportMp3(c) ==
  /\ c \in returned /\ mp3[c] = "none"
  /\ mp3' = [mp3 EXCEPT ![c] = "whole"]
  /\ UNCHANGED <<veDisk, cache, voiceOf, onnx, dtln, user, temp, wav, returned, veHistory>>

------------------------------------------------------------------------------
(* The live session: RealtimeSession.start and _run *)

StartLive(v) ==
  /\ user[LiveLane] = NoUse /\ v \in Discovered /\ ~AssetError(denoising)
  /\ user' = [user EXCEPT ![LiveLane] = [NoUse EXCEPT !.stage = "check", !.voice = v]]
  /\ overlapped' = (overlapped \/ \E c \in Conversions : Loading(c))
  /\ UNCHANGED <<veDisk, cache, voiceOf, onnx, dtln, veFiles, crashes>>

GoLive ==
  /\ user[LiveLane].stage = "loaded" /\ (denoising => DtlnFound)
  /\ user' = [user EXCEPT ![LiveLane].stage = "live", ![LiveLane].dtln = denoising]
  /\ dtln' = IF denoising THEN LiveLane ELSE dtln
  /\ UNCHANGED <<veDisk, cache, voiceOf, onnx, veFiles, veHistory>>

\* _active_denoiser: reset when it is switched on, process_stream() after that.
LiveChunk ==
  /\ user[LiveLane].stage = "live"
  /\ denoising => DtlnFound \/ user[LiveLane].dtln
  /\ user' = [user EXCEPT ![LiveLane].stage = "extract", ![LiveLane].dtln = denoising]
  /\ dtln' = IF denoising THEN LiveLane ELSE dtln
  /\ UNCHANGED <<veDisk, cache, voiceOf, onnx, veFiles, veHistory>>

LiveChunkDone ==
  /\ user[LiveLane].stage = "extract" /\ onnx[user[LiveLane].model] = "ready"
  /\ At(LiveLane, "live")
  /\ UNCHANGED <<veDisk, cache, voiceOf, onnx, dtln, veFiles, veHistory>>

\* The session is stopped, or its start fails.
StopLive ==
  /\ user[LiveLane].stage \in {"check", "loading", "loaded", "live"}
  /\ user' = [user EXCEPT ![LiveLane] = NoUse]
  /\ UNCHANGED <<veDisk, cache, voiceOf, onnx, dtln, veFiles, veHistory>>

------------------------------------------------------------------------------
\* The backend is killed: only the files stay, and an export under way is cut off.
CrashVoice ==
  /\ changes + crashes < MaxEvents
  /\ crashes' = crashes + 1
  /\ cache' = NothingCached /\ voiceOf' = <<>> /\ onnx' = <<>> /\ dtln' = NoUser
  /\ user' = [u \in Users |-> IF u = LiveLane \/ user[u] = NoUse THEN NoUse ELSE Done]
  /\ \/ UNCHANGED mp3
     \/ \E c \in returned : mp3[c] = "none" /\ mp3' = [mp3 EXCEPT ![c] = "partial"]
  /\ UNCHANGED <<veDisk, temp, wav, returned, overlapped>>

VoiceNext ==
  \/ ChangeDisk
  \/ \E c \in Conversions :
       \/ \E v \in Voices, d \in BOOLEAN : Upload(c, v, d)
       \/ EnterEngine(c) \/ ConvertFails(c) \/ TakeDenoiser(c)
       \/ Denoise(c) \/ Convert(c) \/ ConvertDone(c) \/ ExportMp3(c)
  \/ \E u \in Users :
       \/ CheckCache(u) \/ LoadModel(u) \/ NameModel(u) \/ TakeModel(u)
       \/ OpenSession(u) \/ NameSession(u) \/ ExtractFails(u)
  \/ \E v \in Voices : StartLive(v)
  \/ GoLive \/ LiveChunk \/ LiveChunkDone \/ StopLive
  \/ CrashVoice

VoiceSpec == VoiceInit /\ [][VoiceNext]_voiceEngineVars

------------------------------------------------------------------------------
(* Properties *)

VoiceEngineTypeOK ==
  /\ shelf \subseteq Voices /\ pretrain \subseteq AssetFiles
  /\ cache \in [id : Voices \union {NoVoice}, model : 0..Len(voiceOf)]
  /\ dtln \in Users \union {NoUser}
  /\ \A u \in Users : user[u].voice \in Voices \union {NoVoice} /\ user[u].model \in 0..Len(voiceOf)
  /\ \A c \in Conversions : {temp[c], wav[c], mp3[c]} \subseteq {"none", "partial", "whole"}

\* Everybody converts with the voice that was asked for, and the cache holds the
\* model its id names, unless a session was loading beside a conversion.
VoicesAreOwn ==
  overlapped \/ /\ \A u \in Users : user[u].model # 0 => voiceOf[user[u].model] = user[u].voice
                /\ cache.id = NoVoice \/ voiceOf[cache.model] = cache.id \/ \E u \in Users : user[u].stage = "naming"

\* Only a crash leaves uploads behind, or an export that is cut off: a token that a
\* client has names a complete file.
FilesAreWhole ==
  /\ \A c \in returned : wav[c] = "whole"
  /\ crashes = 0 => \A c \in Conversions : /\ temp[c] # "none" => user[c].stage \notin {"idle", "done"}
                                           /\ mp3[c] # "partial"

VoiceEngineIsSound == VoiceEngineTypeOK /\ VoicesAreOwn /\ FilesAreWhole

\* denoise.py, line 79: mixing both modes on one instance without a reset is not
\* supported. Whoever goes on with the denoiser finds it in the state it left.
OneModePerStream ==
  \A u \in Users :
    user[u].dtln /\ user[u].stage = (IF u = LiveLane THEN "live" ELSE "denoise") => dtln = u
==============================================================================
