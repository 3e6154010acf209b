SPECIFICATION DbSpec
CONSTANTS
  Key = {"a", "b"}
  Writes <- MCWrites
  Policies = {"always", "everysec"}
  MaxOps = 2
  MaxExpired = 1
  MaxCompactions = 1
  MaxWriteFaults = 1
  MaxAborts = 1
  MaxCrashes = 1
INVARIANTS RecoversAPrefix AckedWritesSurvive MemoryIsDurable
CHECK_DEADLOCK FALSE
