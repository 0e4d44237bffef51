SPECIFICATION EnginesSpec
CONSTANTS
  va = va
  vb = vb
  Voices <- MCVoices
  Folder <- MCFolder
  AssetFiles = {"cv", "rmvpe", "dtln1", "dtln2"}
  Movable <- MovableMC
  Conversions = {c1, c2}
  LiveLane = live
  NoFile = NoFile
  NoVoice = NoVoice
  NoUser = NoUser
  MaxLoads = 2
  MaxEvents = 1
  VoiceKeys <- MCVoiceKeys
  KeyKind <- MCKeyKind
  Lowest <- MCLowest
  Highest <- MCHighest
  VoiceInputs <- MCVoiceInputs
  VoiceDefault <- MCVoiceDefault
  PresetKeys = {1, 2}
  OffWord = OffWord
  NoNumber = NoNumber
  NoValue = NoValue
  NoSettings = NoSettings
  TornSettings = TornSettings
  PresetIds = {1}
  Hop = 4
  Frame = 16
  FeatureHop = 10
  Quantum = 20
  ChunkLength = 21
  Pieces = {0, 30}
  Tunings <- TuningsMC
  FlushBlocks = 1
  SolaSearch = 3
  RateUp = 3
  RateDown = 2
  MaxBlocks = 3
  Adapters = {l1, l2}
  Setups <- SetupsMC
  Turbo = Turbo
  NoPipe = NoPipe
  StepChoices = {0, 3}
  CacheMax = 1
  RecycleMin = 1
  MaxImageJobs = 2
  MaxBatch = 2
  MaxPipeLoads = 2
SYMMETRY EnginesSymmetry
INVARIANTS
  VoiceEngineIsSound
  VoiceSettingsAreSound
  StreamIsSound
  ImageBackendIsSound
PROPERTIES
  NoiseIsPinned
CHECK_DEADLOCK FALSE
