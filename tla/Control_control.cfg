SPECIFICATION Spec
CONSTANTS
  ByteSize = 4
  WordSize = 2
  JsonMarkup = {2}
  XmlMarkup = {3}
  Connections = {c1, c2}
  DeviceCap = 1
  CommandCap = 1
  Loads <- AllLoads
INVARIANTS
  TypeOK
  AnswersInOrder
  NoPanic
  MetadataIsWhole
  NoCircularWait
PROPERTIES
  EveryCallReturns
CHECK_DEADLOCK FALSE
