\* Two jobs that may carry the same request id; the client of j1 opens, drops and
\* reopens an event stream.
CONSTANTS
  Jobs = {j1, j2}
  Requests = {r1}
  NoJob = NoJob
  NoRequest = NoRequest
  QueueCapacity = 1
  Watched = {j1}
SPECIFICATION FairSpec
INVARIANTS
  TypeOK
  RequestIsUnique
  NoLostWakeup
PROPERTIES
  RunningEnds
  QueuedIsServed
  StreamEnds
CHECK_DEADLOCK FALSE
