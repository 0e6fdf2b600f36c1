SPECIFICATION Spec
CONSTANTS
  Requests = {r1, r2, r3}
  Keys = {k1}
  Hashes = {h1, h2}
  LOCK_TTL_SECONDS = 1
  TTL = 2
  None = None
SYMMETRY Symmetry
INVARIANTS
  TypeOK
  OneAtTheAdapter
  AllRepliesAgree
  HitReplaysSameBody
  ConflictMeansContention
  IInv
PROPERTIES
  ContractSpec
  DoneIsFinal
CHECK_DEADLOCK FALSE
