SPECIFICATION Spec
CONSTANTS
  Sources = {"phone", "tablet"}
  DataCap = 1
  RequestCap = 1
  MaxSetups = 2
  Loads <- Failing
PROPERTIES
  FlushRestarts
CHECK_DEADLOCK FALSE
