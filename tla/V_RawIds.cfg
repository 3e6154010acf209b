SPECIFICATION StepSpec
CONSTANTS
  Name <- MCName
  toLowerCase <- MCToLowerCase
  AccessLists <- MCAccessLists
  AccessOf <- MCAccessOf
  Key = {"read", "search"}
  Invalid = {}
  Reviewed = {}
  StopsBatch = {}
  Unresolvable = {}
  DuplicateIds = TRUE
  ReportsProgress = FALSE
  MaxTasks = 4
  MaxCalls = 2
  MaxAttempts = 1
  MaxSteps = 1
INVARIANT
  CallIdsUnique
CHECK_DEADLOCK FALSE
