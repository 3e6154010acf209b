SPECIFICATION FlowSpec
CONSTANTS
  TurnBudget = 2
  MaxGoals = 1
  MaxCompactions = 2
  MaxInputs = 2
  MaxSteps = 1
  MaxAttempts = 2
  UsesGoal = FALSE
  RateLimited = FALSE
  HookBlocks = TRUE
  Recalls = FALSE
INVARIANTS InputConserved
PROPERTIES CancelledTurnEnds CompactionEnds
CHECK_DEADLOCK FALSE
