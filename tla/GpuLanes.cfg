SPECIFICATION Spec
CONSTANTS
  sdxl = sdxl
  flux = flux
  llama = llama
  worker = worker
  c1 = c1
  c2 = c2
  NoBackend = NoBackend
  NoCaller = NoCaller
  NoJob = NoJob
  Backends <- MCBackends
  ImageBackends <- MCImageBackends
  Callers <- TwoClients
  Worker <- worker
  Jobs <- ThreeJobs
  ModelOf <- ImageJobs
  MayRecycle = TRUE
  MaxWarm = 1
  MaxKnobs = 0
  MaxSessions = 2
SYMMETRY Symmetry
INVARIANTS
  LanesAreSound
  OneJobOverlaps
PROPERTIES
  EnsureDelivers
  OnlyRecycleHides
CHECK_DEADLOCK FALSE
