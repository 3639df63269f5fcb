SPECIFICATION Spec
CONSTANTS
  Sources = {"phone", "tablet"}
  DataCap = 1
  RequestCap = 1
  MaxSetups = 2
  Loads <- OneOrTwo
INVARIANTS
  TypeOK
  PlayingIsComplete
  NothingLeaks
PROPERTIES
  FlushGetsThrough
  ReceiversEnd
CHECK_DEADLOCK FALSE
