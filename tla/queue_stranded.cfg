\* A job cancelled at the moment it is taken into service, and the job behind it.
CONSTANTS
  Jobs = {j1, j2}
  Requests = {}
  NoJob = NoJob
  NoRequest = NoRequest
  QueueCapacity = 1
  Watched = {}
SPECIFICATION FairSpec
PROPERTIES
  QueuedIsAlwaysServed
CHECK_DEADLOCK FALSE
