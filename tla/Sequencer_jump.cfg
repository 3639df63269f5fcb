SPECIFICATION Spec
CONSTANTS
  Modulus = 16
  Guard = 4
  RequestAt = {1}
  GiveUpAt = 3
  PrintLimit = 6
  RequestCap = 1
  Window = 3
  Reorder = 0
  StreamStart = {0}
  StreamLength = 6
INVARIANTS
  NeverJumps
CHECK_DEADLOCK FALSE
