SPECIFICATION FlowSpec
CONSTANTS
  TurnBudget = 1
  MaxGoals = 2
  MaxCompactions = 0
  MaxInputs = 2
  MaxSteps = 1
  MaxAttempts = 1
  UsesGoal = TRUE
  RateLimited = TRUE
  HookBlocks = FALSE
  Recalls = TRUE
INVARIANTS FlowTypeOK OneLiveTurn ResumeBudget ParkedForLastTurn InputConserved
PROPERTIES CancelledDriverStops NoTurnPastBudget
CHECK_DEADLOCK FALSE
