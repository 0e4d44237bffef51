SPECIFICATION FairSpec
CONSTANTS
  chat = chat
  drawn = drawn
  plain = plain
  msg = msg
  c1 = c1
  NoJob = NoJob
  NoMessage = NoMessage
  Jobs <- ChatAndImages
  ImageJobs <- MCImageJobs
  Messages <- MCMessages
  MessageOf <- MCMessageOf
  ChildOf <- MCChildOf
  Clients <- MCClients
  MaxCrashes = 1
  MaxRequeues = 1
INVARIANTS
  RowsAreSound
  OnlyAskedAreCancelled
  ReplyHasWriter
  SignalsAreObeyed
PROPERTIES
  FinishedIsFinal
  JobsSettle
CHECK_DEADLOCK FALSE
