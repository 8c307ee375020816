\* Two POSTs, one of which is refused while the other is being stored.
CONSTANTS
  Jobs = {j1, j2}
  Retries = {}
  Deletable = {}
  Readable = {}
  Clients = {c1}
  NoJob = NoJob
  QueueCapacity = 0
  MaxAttempts = 3
  MaxCrashes = 0
SPECIFICATION Spec
INVARIANTS
  AcceptedIsStored
CHECK_DEADLOCK FALSE
