SPECIFICATION Spec
CONSTANTS
  Callers = {c1, c2}
  Users = {u1}
  UpdateSecs = 0
  PurgeSecs = 1
  Yields = TRUE
  MaxTasks = 2
  MaxLag = 1
INVARIANTS
  NothingIsLost
CHECK_DEADLOCK FALSE
