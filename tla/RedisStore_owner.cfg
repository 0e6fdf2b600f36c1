SPECIFICATION Spec
CONSTANTS
  Requests = {r1, r2}
  Keys = {k1}
  Hashes = {h1, h2}
  LOCK_TTL_SECONDS = 1
  TTL = 2
  None = None
PROPERTIES
  DoneIsWrittenByTheOwner
CHECK_DEADLOCK FALSE
