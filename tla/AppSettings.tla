----------------------------- MODULE AppSettings -----------------------------
(***************************************************************************)
(* The settings of the backend (config.py, settings_overrides.py,           *)
(* runtime_tuning.py, main.py): defaults, the environment, the override     *)
(* file that the Settings tab writes, and the acceleration knobs that the   *)
(* startup tunes to the hardware (Hardware). One key stands for the keys of *)
(* its kind; the backend may be killed at any point, also in the middle of  *)
(* writing the file, and comes up again in a changed environment or machine.*)
(***************************************************************************)
EXTENDS Hardware

CONSTANTS Machines,    \* machines the backend may find itself on
          Installed,      \* models whose compatibility is asked
          Environments,\* what the environment may set: [given, autotune]
          Patches,     \* bodies of PUT /settings/overrides
          Pairs,       \* bodies of POST /llm/config: build and cache type, or Null
          MaxSaves, MaxKills  \* bounds

VARIABLES machine, env, app,  \* app: "down", "up", "writing" or "failed"
          values,  \* the Settings object
          file,    \* settings-overrides.json: "absent", "torn" or "whole", and its values
          asked,   \* history: the keys that requests chose
          chosen,  \* history: the values of these keys, as the last answered save returned them
          boot,    \* history: what the last startup ended with, and what was chosen then
          pairBy,  \* history: who chose the llama build and cache type last
          saves, kills

appSettingsVars == <<machine, env, app, values, file, asked, chosen, boot, pairBy, saves, kills>>

Null == "null"

\* config.py: the defaults.
Defaults == [stub |-> TRUE, width |-> 1024, lora |-> Null, attention |-> "auto", cache |-> "fb",
             tf32 |-> TRUE, llama |-> "default", context |-> "f16"]
Keys == DOMAIN Defaults
NotBooted == [done |-> FALSE, values |-> Defaults, chosen |-> <<>>]

\* The types the settings are read with, whatever they are set to.
ValuesOf(k) ==
  CASE k \in {"stub", "tf32"} -> BOOLEAN
    [] k = "width" -> Int
    [] OTHER -> STRING

\* SPECS: what the keys with a choice allow. The lora is a nullable text.
ChoicesOf(k) ==
  CASE k = "attention" -> {"auto", "flash", "efficient", "math", "cudnn"}
    [] k = "cache" -> {"off", "fb", "teacache"}
    [] k = "llama" -> {"default", "turbo"}
    [] k = "context" -> {"f16", "q8_0", "q4_0", "turbo2", "turbo3", "turbo4"}

ChoiceKeys == {"attention", "cache", "llama", "context"}

\* LLAMA_BACKENDS: the cache types a build can be started with.
Supported(llama) ==
  {"f16", "q8_0", "q4_0"} \cup IF llama = "turbo" THEN {"turbo2", "turbo3", "turbo4"} ELSE {}
Launchable(v) == v.context \in Supported(v.llama)

ASSUME AppSettingsAssumption ==
  /\ \A e \in Environments :
       DOMAIN e.given \subseteq Keys /\ \A k \in DOMAIN e.given : e.given[k] \in ValuesOf(k)
  /\ \A p \in Patches : \A k \in DOMAIN p \cap Keys : p[k] \in ValuesOf(k)
  /\ Pairs \subseteq ChoicesOf("llama") \X (ChoicesOf("context") \cup {Null})
  /\ \A m \in Machines : IsMachine(m)

------------------------------------------------------------------------------
(* settings_overrides.py *)

\* _clamp_int and _round_to: to the nearest multiple of 64, within 256..2048; round()
\* takes a number halfway between two of them to the even one.
Fitted(n) ==
  LET clamped == IF n < 256 THEN 256 ELSE IF n > 2048 THEN 2048 ELSE n
      nearest == (clamped + 32) \div 64
  IN (IF clamped % 128 = 32 THEN nearest - 1 ELSE nearest) * 64

NoText == ""

\* _sanitize_value. A null text is str(None), which is not the empty string.
Sanitized(k, raw) ==
  CASE k = "width" -> Fitted(raw)
    [] k = "lora" -> IF raw = NoText THEN Null ELSE IF raw = Null THEN "None" ELSE raw
    [] OTHER -> raw

\* _sanitize: an unknown key or a value that cannot be sanitized (which a choice not
\* on the list stands for) refuses the whole, before one value is applied.
Acceptable(raw) == \A k \in DOMAIN raw : k \in Keys /\ (k \in ChoiceKeys => raw[k] \in ChoicesOf(k))

Merge(old, raw) == [k \in Keys |-> IF k \in DOMAIN raw THEN Sanitized(k, raw[k]) ELSE old[k]]

------------------------------------------------------------------------------
(* Startup *)

Profile(m, stubMode) == Capability(ResolveProfile(CollectReport(m)), stubMode)

\* runtime_tuning.capability_acceleration
Desired(profile) ==
  [attention |-> profile.defaults.attention, cache |-> profile.defaults.cache,
   tf32 |-> profile.backend = "cuda" /\ AmperePlus(profile.gpu)]
TuneKeys == {"attention", "cache", "tf32"}

\* Mutant: what the override file set is tuned as well.
TunedOver(v, userSet) == 
  IF v.stub \/ ~env.autotune THEN v
  ELSE [k \in Keys |-> IF k \in TuneKeys THEN Desired(Profile(machine, FALSE))[k] ELSE v[k]]

\* _autotune_acceleration and apply_autotune: the knobs nobody is known to have set.
Tuned(v, userSet) ==
  IF v.stub \/ ~env.autotune THEN v
  ELSE [k \in Keys |-> IF k \in TuneKeys \ userSet THEN Desired(Profile(machine, FALSE))[k] ELSE v[k]]

FromEnvironment == [k \in Keys |-> IF k \in DOMAIN env.given THEN env.given[k] ELSE Defaults[k]]

\* load, and then the autotune: every key of the file counts as set by the user.
StartApp ==
  LET saved   == file.kind = "whole"
      loaded  == IF saved THEN Merge(FromEnvironment, file.values) ELSE FromEnvironment
      userSet == IF saved THEN Keys ELSE DOMAIN env.given
  IN /\ app = "down" /\ file.kind # "torn" /\ (saved => Acceptable(file.values))
     /\ app' = "up" /\ values' = Tuned(loaded, userSet)
     /\ boot' = [done |-> TRUE, values |-> values', chosen |-> chosen]
     /\ pairBy' = IF saved THEN "file" ELSE "environment"
     /\ UNCHANGED <<machine, env, file, asked, chosen, saves, kills>>

\* json.loads or _sanitize raises out of the lifespan.
StartAppFails ==
  /\ app = "down" /\ (file.kind = "torn" \/ (file.kind = "whole" /\ ~Acceptable(file.values)))
  /\ app' = "failed"
  /\ UNCHANGED <<machine, env, values, file, asked, chosen, boot, pairBy, saves, kills>>

------------------------------------------------------------------------------
(* Requests *)

\* save: applied, and then written with every value there is; write_text truncates
\* the file before it writes.
SaveSettings(patch) ==
  /\ app = "up" /\ saves < MaxSaves /\ Acceptable(patch)
  /\ values' = Merge(values, patch)
  /\ file' = [file EXCEPT !.kind = "torn"] /\ app' = "writing" /\ saves' = saves + 1
  /\ asked' = asked \cup DOMAIN patch
  /\ pairBy' = IF DOMAIN patch \cap {"llama", "context"} # {} THEN "override" ELSE pairBy
  /\ UNCHANGED <<machine, env, chosen, boot, kills>>

SaveWritten ==
  /\ app = "writing" /\ app' = "up"
  /\ file' = [kind |-> "whole", values |-> values]
  /\ chosen' = [k \in asked |-> values[k]]
  /\ UNCHANGED <<machine, env, values, asked, boot, pairBy, saves, kills>>

\* A patch with an unknown key or a value that cannot be sanitized: 422.
SaveRefused(patch) == app = "up" /\ ~Acceptable(patch) /\ UNCHANGED appSettingsVars

\* llm.set_config: build and cache type are judged as a pair; a build that does not
\* support the type that was chosen before falls back to f16. Nothing is saved.
SetLlamaPair(llama, context) ==
  LET kept == values.context \in Supported(llama)
      type == IF context # Null THEN context ELSE IF kept THEN values.context ELSE "f16"
  IN /\ app = "up" /\ type \in Supported(llama)
     /\ values' = [values EXCEPT !.llama = llama, !.context = type]
     /\ pairBy' = "config"
     /\ UNCHANGED <<machine, env, app, file, asked, chosen, boot, saves, kills>>

------------------------------------------------------------------------------
(* Kills, and what may be different afterwards *)

KillApp ==
  /\ app \in {"up", "writing"} /\ kills < MaxKills
  /\ app' = "down" /\ kills' = kills + 1
  /\ values' = Defaults /\ boot' = NotBooted
  /\ machine' \in Machines /\ env' \in Environments
  /\ UNCHANGED <<file, asked, chosen, pairBy, saves>>

AppSettingsInit ==
  /\ machine \in Machines /\ env \in Environments
  /\ app = "down" /\ values = Defaults /\ file = [kind |-> "absent", values |-> Defaults]
  /\ asked = {} /\ chosen = <<>> /\ boot = NotBooted /\ pairBy = "environment" /\ saves = 0 /\ kills = 0

AppSettingsNext ==
  \/ StartApp \/ StartAppFails \/ SaveWritten \/ KillApp
  \/ \E patch \in Patches : SaveSettings(patch) \/ SaveRefused(patch)
  \/ \E pair \in Pairs : SetLlamaPair(pair[1], pair[2])

AppSettingsSpec == AppSettingsInit /\ [][AppSettingsNext]_appSettingsVars

------------------------------------------------------------------------------
(* Properties *)

AppSettingsTypeOK ==
  /\ app \in {"down", "up", "writing", "failed"} /\ file.kind \in {"absent", "torn", "whole"}
  /\ DOMAIN values = Keys /\ DOMAIN file.values = Keys
  /\ asked \subseteq Keys /\ DOMAIN chosen \subseteq asked

\* models.py:224-232: what a request chose and the save confirmed is what the next
\* startup ends with, whatever became of environment and hardware; but for a null,
\* which is read back as the text None.
ChosenSurvive ==
  \A k \in DOMAIN boot.chosen :
    (k = "lora" /\ boot.chosen[k] = Null) \/ boot.values[k] = boot.chosen[k]

\* The value an environment sets for a key.
GivenSomewhere(k, x) == \E e \in Environments : k \in DOMAIN e.given /\ e.given[k] = x

\* main.py:104: the backend fails to come up only after a kill in the middle of a
\* write, or because the file holds a choice that is not on the list: no request ever
\* set that key, the value is one that an environment gave it and a save of other keys
\* wrote along.
StartFailsForCause ==
  app = "failed" => file.kind = "torn" \/ \E k \in ChoiceKeys \ asked :
    file.values[k] \notin ChoicesOf(k) /\ GivenSomewhere(k, file.values[k])

\* llm.py:96-98: POST /llm/config leaves no pair that cannot be launched.
ConfigIsLaunchable == app = "up" /\ pairBy = "config" => Launchable(values)

\* install_profiles.py and capability_profile.py: what is switched on can run on a
\* card that is there, nothing is on and off at once, and there is a fallback.
CardFor(p, m) ==
  \E i \in DOMAIN m.cards : m.cards[i].vendor = "nvidia" /\ m.cards[i].vram >= p.gpu.vram

HardwareFits ==
  LET r == CollectReport(machine)
      c == Candidates(r)
  IN /\ \E i \in DOMAIN c : c[i].id = "cpu-safe"
     /\ \A i, j \in DOMAIN c : c[i].id = c[j].id => i = j
     /\ \A i \in DOMAIN c : LET p == Capability(Resolved(c[i]), values.stub) IN
          /\ p.features \cap p.disabled = {}
          /\ p.backend = "cuda" => CardFor(p, machine)
          /\ p.features # {} => ~p.stub /\ p.backend = "cuda"
          /\ "nunchaku_cuda" \in p.features => AmperePlus(p.gpu) /\ p.gpu.vram >= 8000

\* model_compatibility.py: a model is offered for real only where its kernels are,
\* and recommended only if it is.
OffersFit ==
  LET p == Profile(machine, values.stub) IN
  \A d \in Installed :
    /\ RuntimeMode(d, p) = "real" /\ d.family # "gguf" =>
         /\ p.backend \in {"cuda", "rocm"}
         /\ Nunchaku(d.quant) => AmperePlus(p.gpu) /\ p.backend = "cuda"
    /\ Recommendation(d, p) = "recommended" => Available(d, p) /\ d.family \notin p.policy.hidden

AppSettingsAreSound ==
  /\ AppSettingsTypeOK /\ ChosenSurvive /\ StartFailsForCause /\ ConfigIsLaunchable
  /\ app = "up" => HardwareFits /\ OffersFit

\* runtime_tuning.py:4-6: a knob that the user set neither in the environment nor in
\* the Settings tab has the value for the hardware.
UnsetKnobsAreTuned ==
  boot.done /\ ~boot.values.stub /\ env.autotune =>
    \A k \in TuneKeys \ (DOMAIN boot.chosen \cup DOMAIN env.given) : boot.values[k] = Desired(Profile(machine, FALSE))[k]

\* install_profiles.py:36-38: SDXL is the universal floor that still runs on 8 GB cards.
SdxlIsTheFloor ==
  LET p == Profile(machine, FALSE) IN
  \A d \in Installed : d.family = "sdxl" /\ d.learned = 0 /\ d.family \in p.policy.recommended => Available(d, p)
==============================================================================
