\* Three POSTs and two crashes: a job that was being executed is queued again, then
\* given up.
CONSTANTS
  Jobs = {j1, j2, j3}
  Retries = {}
  Deletable = {j1}
  Readable = {}
  Clients = {c1}
  NoJob = NoJob
  QueueCapacity = 2
  MaxAttempts = 2
  MaxCrashes = 2
SPECIFICATION Spec
INVARIANTS
  AttemptsBounded
  OneRunningRow
PROPERTIES
  CancelledNeverClaimed
CONSTRAINT OnePost
SYMMETRY PlainSymmetry
CHECK_DEADLOCK FALSE
