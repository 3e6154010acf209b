SPECIFICATION StepSpec
CONSTANTS
  Name <- MCName
  toLowerCase <- MCToLowerCase
  AccessLists <- MCAccessLists
  AccessOf <- MCAccessOf
  Key = {"read", "search"}
  Invalid = {}
  Reviewed = {}
  StopsBatch = {}
  Unresolvable = {}
  DuplicateIds = FALSE
  ReportsProgress = FALSE
  MaxTasks = 4
  MaxCalls = 2
  MaxAttempts = 1
  MaxSteps = 2
PROPERTY
  AbortEndsStep
CHECK_DEADLOCK FALSE
