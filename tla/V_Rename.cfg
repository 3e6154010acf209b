SPECIFICATION StepSpec
CONSTANTS
  Name <- MCName
  toLowerCase <- MCToLowerCase
  AccessLists <- MCAccessLists
  AccessOf <- MCAccessOf
  Key = {"read", "search"}
  Invalid = {}
  Reviewed = {}
  StopsBatch = {}
  Unresolvable = {}
  DuplicateIds = TRUE
  ReportsProgress = FALSE
  MaxTasks = 4
  MaxCalls = 3
  MaxAttempts = 1
  MaxSteps = 1
PROPERTY
  AbortEndsStep
CHECK_DEADLOCK FALSE
