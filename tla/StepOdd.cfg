SPECIFICATION StepSpec
CONSTANTS
  Name <- MCName
  toLowerCase <- MCToLowerCase
  AccessLists <- MCAccessLists
  AccessOf <- MCAccessOf
  Key = {"read", "halt", "bad", "broken"}
  Invalid = {"bad"}
  Reviewed = {"read"}
  StopsBatch = {"halt"}
  Unresolvable = {"broken"}
  DuplicateIds = FALSE
  ReportsProgress = FALSE
  MaxTasks = 4
  MaxCalls = 2
  MaxAttempts = 1
  MaxSteps = 2
INVARIANTS
  OkMeansExecuted
  SkippedMeansNotExecuted
CHECK_DEADLOCK FALSE
