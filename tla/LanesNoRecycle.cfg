SPECIFICATION FairSpec
CONSTANTS
  sdxl = sdxl
  flux = flux
  llama = llama
  worker = worker
  c1 = c1
  c2 = c2
  NoBackend = NoBackend
  NoCaller = NoCaller
  NoJob = NoJob
  Backends <- MCBackends
  ImageBackends <- MCImageBackends
  Callers <- TwoClients
  Worker <- worker
  Jobs <- TwoJobs
  ModelOf <- ChatFirst
  MayRecycle = FALSE
  MaxWarm = 1
  MaxKnobs = 1
  MaxSessions = 1
PROPERTIES
  ArbiterSpec
  CallsEnd
  QueueDrains
CHECK_DEADLOCK FALSE
