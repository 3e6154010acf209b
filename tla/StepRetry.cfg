SPECIFICATION StepSpec
CONSTANTS
  Name <- MCName
  toLowerCase <- MCToLowerCase
  AccessLists <- MCAccessLists
  AccessOf <- MCAccessOf
  Key = {"read", "edit", "review"}
  Invalid = {}
  Reviewed = {"review"}
  StopsBatch = {}
  Unresolvable = {}
  DuplicateIds = TRUE
  ReportsProgress = TRUE
  MaxTasks = 6
  MaxCalls = 2
  MaxAttempts = 2
  MaxSteps = 1
INVARIANTS
  ExecutedOnce
  WritesOnlyForFinalCalls
  ProgressFollowsCall
PROPERTIES
  KeepsTranscript
  AbortEndsStep
