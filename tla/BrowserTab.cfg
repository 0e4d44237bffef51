SPECIFICATION TabSpec
CONSTANTS
  NoBackend = NoBackend
  NoCaller = NoCaller
  sdxl = sdxl
  llama = llama
  worker = worker
  Backends <- MCBackends
  ImageBackends <- MCImageBackends
  Callers <- MCCallers
  MaxWarm = 1
  MaxQueue = 2
  MaxChanges = 3
INVARIANTS
  TabIsSound
  JobsAreFresh
