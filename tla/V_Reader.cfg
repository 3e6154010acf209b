SPECIFICATION Spec
CONSTANTS
  Key = {"a", "b"}
  Writes <- MCFewWrites
  Policies = {"always"}
  MaxOps = 2
  MaxExpired = 0
  MaxCompactions = 1
  MaxWriteFaults = 0
  MaxAborts = 0
  MaxCrashes = 0
  MaxReads = 2
INVARIANTS ReadsAcked
CHECK_DEADLOCK FALSE
