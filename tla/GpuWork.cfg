SPECIFICATION GpuWorkSpec
CONSTANTS
  draw = draw
  paint = paint
  talk = talk
  NoModel = NoModel
  NoRun = NoRun
  Jobs <- MCJobs
  Models <- MCModels
  TypeOf <- MCTypeOf
  Priorities <- MCPriorities
  CreatedAt <- MCCreatedAt
  PlanLimit = 3
  flux = flux
  sdxl = sdxl
  llm = llm
  Weights = {flux, sdxl, llm}
  Parkable = {flux, sdxl}
  Ram = 12
  OtherUse = {0, 4}
  Guess <- GuessMC
  Held <- HeldMC
  Parked <- ParkedMC
  Deltas <- DeltasMC
  Margin = 1
  MinFree = 1
  KeepWarmMin = 2
  MaxWarm = 2
  NoWeights = NoWeights
  MaxReloads = 1
  MaxResets = 2
  MaxOtherChanges = 2
  Folders <- FoldersMC
  Blackwell = TRUE
  Slugs = {"a", "b", "c", "d", "e"}
  LoraSlugs = {"l", "m"}
  AnyFamily = AnyFamily
  MaxStarts = 3
SYMMETRY GpuWorkSymmetry
INVARIANTS
  BatchesAreOrdered
  PlanIsFollowed
  MemoryIsSound
  RegistryIsSound
CHECK_DEADLOCK FALSE
