\* Four submissions: three jobs fit (one running, two waiting), the fourth waits for room.
CONSTANTS
  Jobs = {j1, j2, j3, j4}
  Requests = {}
  NoJob = NoJob
  NoRequest = NoRequest
  QueueCapacity = 2
  Watched = {}
SPECIFICATION Spec
INVARIANTS
  OneWorkflow
  QueuedHasDrain
PROPERTIES
  CancelledNeverCompletes
  StartsInOrder
  ImplementsJobQueue
SYMMETRY JobSymmetry
CHECK_DEADLOCK FALSE
