SPECIFICATION FlowSpec
CONSTANTS
  TurnBudget = 2
  MaxGoals = 1
  MaxCompactions = 1
  MaxInputs = 3
  MaxSteps = 1
  MaxAttempts = 2
  UsesGoal = FALSE
  RateLimited = FALSE
  HookBlocks = TRUE
  Recalls = FALSE
INVARIANTS DeferredNotStuck
CHECK_DEADLOCK FALSE
