SPECIFICATION FairSpec
CONSTANTS
  Requests = {r1, r2}
  Keys = {k1}
  Hashes = {h1, h2}
  LOCK_TTL_SECONDS = 2
  TTL = 2
  None = None
PROPERTIES
  LocksAreReleased
  EveryRequestEnds
CHECK_DEADLOCK FALSE
