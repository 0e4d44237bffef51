SPECIFICATION ServicesSpec
CONSTANTS
  EmbedModels = {m1, m2}
  Requests = {r1}
  ToolWorker = tool
  Lifespan = life
  DocIds = {d1}
  EmbedPids = {p1, p2, p3}
  NoEmbedModel = NoEmbedModel
  NoServer = NoServer
  MaxRestarts = 1
  Machines <- MachinesMC
  Installed <- ModelsMC
  Environments <- EnvironmentsMC
  Patches <- PatchesMC
  Pairs <- PairsMC
  MaxSaves = 2
  MaxKills = 1
  ToolCalls = {c1, c2}
  ToolFiles <- ToolFilesMC
  ToolId <- ToolIdMC
  Threads = 1
  MaxUpload = 2
  BodySizes = {0, 2, 4}
  NoToolFile = NoToolFile
  MaxToolKills = 1
  Pictures = {pic1, pic2}
  Stems = {s1, s2}
  Editors = {e1, e2}
  RawTags <- RawTagsMC
  MaxTags = 2
  KeepBackups = 1
  NoPicture = NoPicture
  NoStem = NoStem
  NoneYet = NoneYet
  MaxBackups = 2
  MaxGalleryKills = 1
SYMMETRY ServicesSymmetry
INVARIANTS
  DocumentsAreSound
  
  ToolsAreSound
  GalleryIsSound
PROPERTIES
  ShutdownLeavesNone
CHECK_DEADLOCK FALSE
