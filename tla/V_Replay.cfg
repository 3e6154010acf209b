SPECIFICATION FlowSpec
CONSTANTS
  TurnBudget = 2
  MaxGoals = 1
  MaxCompactions = 2
  MaxInputs = 2
  MaxSteps = 1
  MaxAttempts = 2
  UsesGoal = FALSE
  RateLimited = FALSE
  HookBlocks = FALSE
  Recalls = FALSE
PROPERTIES ReplayNotHeldBack
CHECK_DEADLOCK FALSE
