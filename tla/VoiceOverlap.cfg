SPECIFICATION Spec
CONSTANTS
  sdxl = sdxl
  flux = flux
  llama = llama
  worker = worker
  c1 = c1
  c2 = c2
  NoBackend = NoBackend
  NoCaller = NoCaller
  NoJob = NoJob
  Backends <- MCBackends
  ImageBackends <- MCImageBackends
  Callers <- OneClient
  Worker <- worker
  Jobs <- TwoJobs
  ModelOf <- ChatFirst
  MayRecycle = FALSE
  MaxWarm = 0
  MaxKnobs = 0
  MaxSessions = 1
INVARIANT SessionOwnsGpu
CHECK_DEADLOCK FALSE
