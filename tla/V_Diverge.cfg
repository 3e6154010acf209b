SPECIFICATION DbSpec
CONSTANTS
  Key = {"a", "b"}
  Writes <- MCWrites
  Policies = {"always", "everysec"}
  MaxOps = 1
  MaxExpired = 0
  MaxCompactions = 0
  MaxWriteFaults = 1
  MaxAborts = 1
  MaxCrashes = 0
INVARIANTS NeverDiverges
CHECK_DEADLOCK FALSE
