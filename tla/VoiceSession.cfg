SPECIFICATION FairSpec
CONSTANTS
  r1 = r1
  r2 = r2
  Requests <- MCRequests
  Chunk = 3
  Block = 2
  Cap = 4
  MaxFrames = 2
  MaxSessions = 1
  MaxErrors = 1
  MaxRecordings = 2
INVARIANTS
  LatencyIsBounded
  RecordingIsSound
  OwnChunks
PROPERTIES
  AudioFlows
CHECK_DEADLOCK FALSE
