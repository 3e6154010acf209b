SPECIFICATION Spec
CONSTANTS
  NPrompts = 3
  WithControls = {2}
  MaxTrouble = 2
INVARIANTS PromptTypeOK OneOutcome SentOnce OwnTurn FifoOrder QueueHasAStarter
PROPERTIES PromptsSettle
CHECK_DEADLOCK FALSE
