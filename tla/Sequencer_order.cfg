SPECIFICATION Spec
CONSTANTS
  Modulus = 16
  Guard = 4
  RequestAt = {1, 3}
  GiveUpAt = 5
  PrintLimit = 2
  RequestCap = 1
  Window = 3
  Reorder = 2
  StreamStart = {12}
  StreamLength = 20
INVARIANTS
  TypeOK
  NothingHeldBack
  RetriesOnlyForMissing
  CacheMatchesStream
PROPERTIES
  PlaysInTurn
  NeverRewinds
  Drains
  InOrder
  GiveUpOnlyAfterAsking
  RequestsOnlyMissing
CHECK_DEADLOCK FALSE
