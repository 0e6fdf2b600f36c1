SPECIFICATION FairSpec
CONSTANTS
  Requests = {r1, r2, r3}
  Keys = {k1}
  Hashes = {h1, h2}
  LOCK_TTL_SECONDS = 1
  TTL = 1
  None = None
INVARIANTS
  TypeOK
  OneAtTheAdapter
  AllRepliesAgree
PROPERTIES
  ContractSpec
  LocksAreReleased
CHECK_DEADLOCK FALSE
