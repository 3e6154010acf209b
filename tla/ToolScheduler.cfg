SPECIFICATION FairSpec
CONSTANTS
  Name <- MCName
  toLowerCase <- MCToLowerCase
  AccessLists <- MCAccessLists
  MaxTasks = 4
INVARIANTS
  TypeOK
  NoSharedWriteOverlap
  RunsExactlyUnblocked
  StartableIsTheLoop
PROPERTIES
  EveryTaskFinishes
CHECK_DEADLOCK FALSE
