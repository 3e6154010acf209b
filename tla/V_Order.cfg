SPECIFICATION StepSpec
CONSTANTS
  Name <- MCName
  toLowerCase <- MCToLowerCase
  AccessLists <- MCAccessLists
  AccessOf <- MCAccessOf
  Key = {"read", "edit"}
  Invalid = {}
  Reviewed = {}
  StopsBatch = {}
  Unresolvable = {}
  DuplicateIds = FALSE
  ReportsProgress = FALSE
  MaxTasks = 4
  MaxCalls = 3
  MaxAttempts = 1
  MaxSteps = 1
INVARIANT
  ConflictsInProviderOrder
