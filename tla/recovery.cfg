\* Two investigations and an injection.
CONSTANTS
  Threads = {j1, j2}
  Injectors = {i1}
  NoRecord = NoRecord
  NoAction = NoAction
  Settings <- SomeSettings
  Scenarios = {"deployment_failure", "pod_crash"}
  MaxPolls = 2
SPECIFICATION FairSpec
INVARIANTS
  TypeOK
  FaultIsReversible
  ActsAtMostTwice
  ActsWithApproval
  NoStrayAction
  ActionIsAudited
PROPERTIES
  RecordIsKept
  RepairIsComplete
  InvestigationEnds
CHECK_DEADLOCK FALSE
