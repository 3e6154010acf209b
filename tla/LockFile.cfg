SPECIFICATION Spec
CONSTANTS
  User = {1, 2, 3}
  Proc = {1, 2, 3}
  ProcOf <- OneUserEach
  Absent = Absent
  Corpse = 0
  MaxAttempts = 1
INVARIANTS LockTypeOK MutualExclusion LockHasAnOwner
PROPERTIES AttemptEnds
CHECK_DEADLOCK FALSE
