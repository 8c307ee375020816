\* One investigation, in the protected demo or simulated.
CONSTANTS
  Threads = {j1}
  Injectors = {i1}
  NoRecord = NoRecord
  NoAction = NoAction
  Settings <- SomeSettings
  Scenarios = {"deployment_failure", "pod_crash", "rollout_failure"}
  MaxPolls = 1
SPECIFICATION Spec
INVARIANTS
  VerifiedByKubernetes
CHECK_DEADLOCK FALSE
