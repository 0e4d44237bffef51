SPECIFICATION ArbiterSpec
CONSTANTS
  sdxl = sdxl
  flux = flux
  llama = llama
  c1 = c1
  c2 = c2
  c3 = c3
  NoBackend = NoBackend
  NoCaller = NoCaller
  Backends <- MCBackends
  ImageBackends <- MCImageBackends
  Callers <- ThreeCallers
  MaxWarm = 1
SYMMETRY Symmetry
INVARIANTS
  BooksAgree
  OneResident
PROPERTIES
  CallsDeliver
  SlotSpec
