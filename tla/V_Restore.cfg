SPECIFICATION DbSpec
CONSTANTS
  Key = {"a"}
  Writes <- MCSetOrDel
  Policies = {"always"}
  MaxOps = 3
  MaxExpired = 0
  MaxCompactions = 1
  MaxWriteFaults = 1
  MaxAborts = 0
  MaxCrashes = 0
INVARIANTS FailedDelsAreSkipped
CHECK_DEADLOCK FALSE
