\* Two POSTs that may be retries of one another.
CONSTANTS
  Jobs = {j1, j2}
  Retries = {j1, j2}
  Deletable = {j1}
  Readable = {j1}
  Clients = {c1}
  NoJob = NoJob
  QueueCapacity = 0
  MaxAttempts = 2
  MaxCrashes = 0
SPECIFICATION FairSpec
INVARIANTS
  TypeOK
  ReportedIsStored
PROPERTIES
  CommittedIsFinal
  AwaitedEnds
CHECK_DEADLOCK FALSE
