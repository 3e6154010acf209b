SPECIFICATION Spec
CONSTANTS
  User = {1, 2, 3}
  Proc = {1, 2, 3}
  ProcOf <- OneUserEach
  Absent = Absent
  Corpse = 0
  MaxAttempts = 1
INVARIANTS ExactlyOneHolder
CHECK_DEADLOCK FALSE
