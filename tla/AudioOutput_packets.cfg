SPECIFICATION Spec
CONSTANTS
  Objects = {1, 2, 3}
  Writers = {"speaker", "file"}
  DataCap = 1
  MaxSessions = 2
  MaxPosition = 3
  Loads <- Sizes
INVARIANTS
  TypeOK
  Exclusive
  DecodesItsOwn
  EveryStreamHears
PROPERTIES
  StreamIsAdded
CHECK_DEADLOCK FALSE
