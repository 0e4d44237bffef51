---------------------------- MODULE VoiceSettings ----------------------------
(***************************************************************************)
(* The settings of the voice engine and their named presets: what a request *)
(* may set, how a value is made to fit, what is written to                  *)
(* voice-settings.json and voice-presets.json, and what the next start      *)
(* reads back (engine.py, presets.py, api/voice_engine.py).                 *)
(* Both files are written beside the old one and moved over it.             *)
(***************************************************************************)
EXTENDS Integers, FiniteSets, Functions

CONSTANTS VoiceKeys,    \* the settings, numbered in the order they are applied
          KeyKind,      \* KeyKind[k]: how a value of k is made to fit
          Lowest, Highest,
          VoiceInputs,  \* VoiceInputs[k]: what requests, presets and files offer
          VoiceDefault, \* the configured defaults
          PresetKeys,   \* the settings a preset may hold
          OffWord,      \* the string "off"
          NoNumber,     \* a string that is no number, or a mode there is not
          NoValue,      \* null
          NoSettings, TornSettings, \* no file; one that is no JSON
          PresetIds

\* What a key may be set to: a number, or a mode, numbered too.
FitValues(k) ==
  CASE KeyKind[k] \in {"clamp", "level"} -> Lowest[k]..Highest[k]
    [] KeyKind[k] = "mode" -> Int
    [] KeyKind[k] = "device" -> Nat \union {NoValue}
    [] KeyKind[k] = "monitor" -> Nat \union {-1, NoValue}

\* What may be offered for it.
Offers(k) == Int \union {NoValue, NoNumber} \union (IF KeyKind[k] = "level" THEN {OffWord} ELSE {})

\* A level that 0 switches off is no number around 0, or starts there (dsp.py:19-56); no
\* device is in a preset (presets.py). What is no number, no value or no settings is none.
ASSUME VoiceSettingsAssumption ==
  /\ VoiceKeys \subseteq Nat /\ PresetKeys \subseteq VoiceKeys
  /\ KeyKind \in [VoiceKeys -> {"clamp", "level", "mode", "device", "monitor"}]
  /\ \A k \in VoiceKeys : /\ Lowest[k] \in Int /\ Highest[k] \in Int /\ Lowest[k] <= Highest[k]
                          /\ KeyKind[k] = "level" => Lowest[k] = 0 \/ Highest[k] < 0
                          /\ VoiceInputs[k] \subseteq Offers(k) /\ VoiceDefault[k] \in FitValues(k)
  /\ \A k \in PresetKeys : KeyKind[k] \notin {"device", "monitor"}
  /\ DOMAIN VoiceDefault = VoiceKeys /\ VoiceDefault \in [VoiceKeys -> Int \union {NoValue}]
  /\ {OffWord, NoNumber, NoValue} \intersect Int = {}
  /\ NoValue \notin {OffWord, NoNumber} /\ OffWord # NoNumber
  /\ {NoSettings, TornSettings} \intersect [VoiceKeys -> Int \union {NoValue}] = {}

VARIABLES voiceNow,    \* the attributes of the engine
          voiceFile,   \* voice-settings.json: what it sets
          savedVoice,  \* history: the settings last saved
          half,        \* history: an update stopped half-way since
          edited,      \* history: the user edited the file since
          presetFile,  \* voice-presets.json: id -> settings
          savedPresets  \* history: the presets last saved

voiceSettingsVars == <<voiceNow, voiceFile, savedVoice, half, edited, presetFile, savedPresets>>

------------------------------------------------------------------------------
(* Values *)

\* update_settings skips a null, except that a device may be none at all.
Skipped(k, v) == v = NoValue /\ KeyKind[k] \notin {"device", "monitor"}
Refused(k, v) == v = NoNumber

Clamp(k, v) == IF v < Lowest[k] THEN Lowest[k] ELSE IF v > Highest[k] THEN Highest[k] ELSE v

\* A level of 0 or "off" is the lowest, which switches gate, squelch or filter off.
Fit(k, v) ==
  CASE v = NoValue -> NoValue
    [] v # NoValue /\ KeyKind[k] = "mode" -> v
    [] v # NoValue /\ KeyKind[k] = "clamp" -> Clamp(k, v)
    [] v # NoValue /\ KeyKind[k] = "level" -> IF v = OffWord THEN Lowest[k] ELSE IF v = 0 THEN Lowest[k] ELSE Clamp(k, v)
    [] v # NoValue /\ KeyKind[k] = "device" -> IF v < 0 THEN 0 ELSE v
    [] v # NoValue /\ KeyKind[k] = "monitor" -> IF v < 0 THEN -1 ELSE v

\* _apply_settings: key by key; the first value that is refused ends it.
Before(data) == {k \in DOMAIN data : \A j \in DOMAIN data : Refused(j, data[j]) => k < j}
Apply(now, data) ==
  LET set == {k \in Before(data) : ~Skipped(k, data[k])}
  IN [k \in VoiceKeys |-> IF k \in set THEN Fit(k, data[k]) ELSE now[k]]
Raises(data) == \E k \in DOMAIN data : Refused(k, data[k])

\* The constructor: the defaults, and over them the file, unless something in it is
\* refused.
Loaded(file) ==
  IF file \in {NoSettings, TornSettings} THEN VoiceDefault
  ELSE IF Raises(file) THEN VoiceDefault ELSE Apply(VoiceDefault, file)

\* Requests set some of the keys; one key a request is enough to meet every case
\* but an update that stops half-way, which takes two.
SetsOne(i) == {[k \in {i} |-> a] : a \in VoiceInputs[i]}
SetsTwo(i, j) == {[k \in {i, j} |-> IF k = i THEN a ELSE b] : a \in VoiceInputs[i], b \in VoiceInputs[j]}
Updates == (UNION {SetsOne(i) : i \in VoiceKeys}) \union (UNION {SetsTwo(i, j) : i \in VoiceKeys, j \in VoiceKeys})

VoiceSettingsInit ==
  /\ voiceNow = VoiceDefault /\ voiceFile = NoSettings /\ savedVoice = VoiceDefault
  /\ half = FALSE /\ edited = FALSE
  /\ presetFile = <<>> /\ savedPresets = <<>>

------------------------------------------------------------------------------
(* POST /settings, and the next start *)

UpdateSettings(data) ==
  /\ ~Raises(data)
  /\ voiceNow' = Apply(voiceNow, data)
  /\ voiceFile' = voiceNow' /\ savedVoice' = voiceNow'
  /\ half' = FALSE /\ edited' = FALSE
  /\ UNCHANGED <<presetFile, savedPresets>>

\* 400: the keys before the one that is refused are set, and nothing is saved. So it
\* is when the file cannot be written.
UpdateFails(data) ==
  /\ voiceNow' = Apply(voiceNow, data)
  /\ half' = (half \/ voiceNow' # voiceNow)
  /\ UNCHANGED <<voiceFile, savedVoice, edited, presetFile, savedPresets>>

\* Mutant: the file is written in place.
KilledInWrite ==
  /\ voiceFile' = TornSettings
  /\ voiceNow' = Loaded(voiceFile') /\ half' = FALSE
  /\ UNCHANGED <<savedVoice, edited, presetFile, savedPresets>>

\* Killed before the new file is moved over the old one, and started again.
KilledInSave ==
  /\ voiceNow' = Loaded(voiceFile) /\ half' = FALSE
  /\ UNCHANGED <<voiceFile, savedVoice, edited, presetFile, savedPresets>>

\* The user edits the file between two starts.
EditFile(data) ==
  /\ voiceFile' = data /\ voiceNow' = Loaded(data)
  /\ half' = FALSE /\ edited' = TRUE
  /\ UNCHANGED <<savedVoice, presetFile, savedPresets>>

\* One conversion with values of its own, key by key: None is the engine's.
ConvertParam(k, v) == IF v = NoValue THEN voiceNow[k] ELSE Fit(k, v)

\* /status: which of the devices that are set are gone; -1 switches the monitor off.
DeviceMissing(k, present) ==
  /\ voiceNow[k] # NoValue
  /\ ~(KeyKind[k] = "monitor" /\ voiceNow[k] < 0)
  /\ voiceNow[k] \notin present

\* The device a session opens: none for the monitor, the system's choice otherwise.
DeviceOpened(k) == IF voiceNow[k] = NoValue \/ voiceNow[k] < 0 THEN {} ELSE {voiceNow[k]}

------------------------------------------------------------------------------
(* Presets *)

\* _clean_settings: known keys with a value; an empty one is refused.
Cleaned(data) == Restrict(data, {k \in DOMAIN data : k \in PresetKeys /\ data[k] # NoValue})

WritePresets(ps) ==
  /\ presetFile' = ps /\ savedPresets' = ps
  /\ UNCHANGED <<voiceNow, voiceFile, savedVoice, half, edited>>

CreatePreset(p, data) ==
  /\ p \notin DOMAIN presetFile /\ DOMAIN Cleaned(data) # {}
  /\ WritePresets([q \in DOMAIN presetFile \union {p} |-> IF q = p THEN Cleaned(data) ELSE presetFile[q]])

\* A new name alone leaves the settings; empty settings are refused before the write.
UpdatePreset(p, data) ==
  /\ p \in DOMAIN presetFile /\ DOMAIN Cleaned(data) # {}
  /\ WritePresets([presetFile EXCEPT ![p] = Cleaned(data)])

DeletePreset(p) ==
  /\ p \in DOMAIN presetFile
  /\ WritePresets(Restrict(presetFile, DOMAIN presetFile \ {p}))

\* The settings view posts a preset as an update.
UsePreset(p) ==
  /\ p \in DOMAIN presetFile
  /\ \/ UpdateSettings(presetFile[p])
     \/ Raises(presetFile[p]) /\ UpdateFails(presetFile[p])

------------------------------------------------------------------------------
VoiceSettingsNext ==
  \/ \E data \in Updates : UpdateSettings(data) \/ UpdateFails(data) \/ EditFile(data)
  \/ KilledInSave
  \/ \E p \in PresetIds :
       \/ \E k \in VoiceKeys, v \in UNION {VoiceInputs[j] : j \in VoiceKeys} :
            v \in VoiceInputs[k] /\ (CreatePreset(p, [i \in {k} |-> v]) \/ UpdatePreset(p, [i \in {k} |-> v]))
       \/ DeletePreset(p) \/ UsePreset(p)

VoiceSettingsSpec == VoiceSettingsInit /\ [][VoiceSettingsNext]_voiceSettingsVars

------------------------------------------------------------------------------
(* Properties *)

VoiceSettingsTypeOK ==
  /\ DOMAIN voiceNow = VoiceKeys /\ half \in BOOLEAN /\ edited \in BOOLEAN
  /\ DOMAIN presetFile \subseteq PresetIds

\* Whatever requests, presets and files offer, the engine runs on values its stages
\* can take, and so does every conversion that brings its own.
VoiceInRange ==
  /\ \A k \in VoiceKeys : voiceNow[k] = Fit(k, voiceNow[k]) /\ voiceNow[k] \notin {NoNumber, OffWord}
  /\ \A k \in VoiceKeys : KeyKind[k] \in {"clamp", "level"} => voiceNow[k] \in Lowest[k]..Highest[k]
  /\ \A k \in PresetKeys : \A v \in VoiceInputs[k] :
       ~Refused(k, v) => ConvertParam(k, v) \notin {NoValue, NoNumber, OffWord}

\* A start brings back the settings last saved, whatever the crash, unless the user
\* edited the file; the engine differs from them only after an update that failed.
VoiceSettingsSurvive ==
  ~edited /\ ~half => voiceNow = savedVoice /\ Loaded(voiceFile) = savedVoice

\* Presets hold nothing that belongs to this machine: no device, no pass-through.
PresetsSurvive ==
  /\ presetFile = savedPresets
  /\ \A p \in DOMAIN presetFile : DOMAIN presetFile[p] # {} /\ DOMAIN presetFile[p] \subseteq PresetKeys

\* A session whose devices the status does not flag finds them.
DevicesAreFlagged ==
  \A k \in VoiceKeys, present \in SUBSET {0, 2} :
    KeyKind[k] \in {"device", "monitor"} /\ ~DeviceMissing(k, present) => DeviceOpened(k) \subseteq present

VoiceSettingsAreSound == VoiceSettingsTypeOK /\ VoiceInRange /\ DevicesAreFlagged /\ VoiceSettingsSurvive /\ PresetsSurvive
==============================================================================
