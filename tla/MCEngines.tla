-------------------------- MODULE MCEngines ----------------------------------
(*****************************************************************************)
(* The voice engine around a session, and the pipeline of the image backend, *)
(* each part on a small instance:                                            *)
(* part names the component whose steps are taken; the others, with which it *)
(* shares no state, stay at an initial state of theirs.                      *)
(*****************************************************************************)
EXTENDS VoiceEngine, VoiceSettings, VoiceStream, ImageBackend, TLC

\* VoiceEngine
CONSTANTS va, vb
MCVoices == {va, vb}
Ckpt(rank, ext, dim, version, config) == [rank |-> rank, ext |-> ext, dim |-> dim, version |-> version, config |-> config]
MCFolder == (va :> [zip |-> FALSE, hint |-> NoFile, files |-> {Ckpt(1, "pth", 768, "v2", TRUE), Ckpt(2, "index", 0, "", FALSE)}])
       @@ (vb :> [zip |-> FALSE, hint |-> Ckpt(2, "pth", 768, "", TRUE), files |-> {Ckpt(1, "pth", 256, "v1", TRUE), Ckpt(2, "pth", 768, "", TRUE)}])
MovableMC == {va, "dtln2"}

\* VoiceSettings
MCVoiceKeys == 1..4
MCKeyKind == <<"level", "mode", "device", "monitor">>
MCLowest == <<-9, 0, 0, 0>>
MCHighest == <<-2, 1, 2, 2>>
MCVoiceInputs == <<{OffWord, -1}, {NoNumber, 1}, {-3}, {NoValue, 2}>>
MCVoiceDefault == <<-5, 0, NoValue, NoValue>>

\* VoiceStream
Plain == [denoise |-> TRUE, cutoff |-> 0, formant |-> 1, extra |-> 20, fade |-> 15, off |-> FALSE, hold |-> 2]
TuningsMC == {Plain, [Plain EXCEPT !.denoise = FALSE, !.extra = 40, !.fade = 0, !.hold = 0],
              [Plain EXCEPT !.formant = 2, !.cutoff = 1, !.off = TRUE, !.fade = 7]}

\* ImageBackend
Kind(family, nunchaku, quant, offload) == [family |-> family, nunchaku |-> nunchaku, quant |-> quant, offload |-> offload]
Sdxl == Kind("sdxl", FALSE, "none", "none")
Flux == Kind("flux", TRUE, "none", "model")
Full == [turbo |-> TRUE, compile |-> TRUE, cache |-> "fb", attention |-> TRUE,
         defaultSteps |-> 4, familySteps |-> 2, turboSteps |-> 1]
NoTurbo == [Full EXCEPT !.turbo = FALSE, !.compile = FALSE]
SetupsMC == {<<Sdxl, Full>>, <<Sdxl, [Full EXCEPT !.attention = FALSE]>>, <<Flux, Full>>, <<Flux, [Full EXCEPT !.cache = "bad"]>>,
             <<Kind("flux2", FALSE, "bnb-nf4", "model"), NoTurbo>>, <<Kind("qwen", TRUE, "none", "model"), NoTurbo>>,
             <<Kind("z", FALSE, "none", "disk"), NoTurbo>>}

VARIABLE part

EnginesInit ==
  /\ part \in {"engine", "options", "stream", "pipeline"}
  /\ VoiceInit
  /\ VoiceSettingsInit
  /\ StreamInit /\ (part # "stream" => tuning = (CHOOSE t \in Tunings : TRUE))
  /\ ImageInit /\ (part # "pipeline" => <<kind, setup>> = (CHOOSE s \in Setups : TRUE))

EnginesNext ==
  \/ part = "engine" /\ VoiceNext /\ UNCHANGED <<part, voiceSettingsVars, voiceStreamVars, imageVars>>
  \/ part = "options" /\ VoiceSettingsNext /\ UNCHANGED <<part, voiceEngineVars, voiceStreamVars, imageVars>>
  \/ part = "stream" /\ StreamNext /\ UNCHANGED <<part, voiceEngineVars, voiceSettingsVars, imageVars>>
  \/ part = "pipeline" /\ ImageNext /\ UNCHANGED <<part, voiceEngineVars, voiceSettingsVars, voiceStreamVars>>

EnginesSpec == EnginesInit /\ [][EnginesNext]_<<part, voiceEngineVars, voiceSettingsVars, voiceStreamVars, imageVars>>

EnginesSymmetry == Permutations(Conversions) \union Permutations(Adapters)
==============================================================================
