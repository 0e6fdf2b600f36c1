SPECIFICATION FairSpec
CONSTANTS
  Callers = {c1}
  Users = {u1, u2}
  UpdateSecs = 0
  PurgeSecs = 1
  Yields = FALSE
  MaxTasks = 3
  MaxLag = 1
INVARIANTS
  TypeOK
  AtMostOnce
  NothingIsLost
PROPERTIES
  ContractSpec
  EveryTaskEnds
CHECK_DEADLOCK FALSE
