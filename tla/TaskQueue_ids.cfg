SPECIFICATION Spec
CONSTANTS
  Callers = {c1}
  Users = {u1}
  UpdateSecs = 0
  PurgeSecs = 1
  Yields = FALSE
  MaxTasks = 3
  MaxLag = 1
INVARIANTS
  EveryIdFindsItsTask
CHECK_DEADLOCK FALSE
