SPECIFICATION FairSpec
CONSTANTS
  l1 = l1
  l2 = l2
  p1 = p1
  p2 = p2
  p3 = p3
  NoLLM = NoLLM
  NoPid = NoPid
  LLMs <- MCLLMs
  Pids <- MCPids
  MaxExits = 2
INVARIANTS
  ServersAreSound
PROPERTIES
  AnswersAreOwn
  ServerCallsEnd
CHECK_DEADLOCK FALSE
