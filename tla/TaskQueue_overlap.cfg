SPECIFICATION Spec
CONSTANTS
  Callers = {c1, c2}
  Users = {u1}
  UpdateSecs = 0
  PurgeSecs = 1
  Yields = TRUE
  MaxTasks = 3
  MaxLag = 1
SYMMETRY Symmetry
PROPERTIES
  EndedIsFinal
CHECK_DEADLOCK FALSE
