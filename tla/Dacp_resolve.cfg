SPECIFICATION Spec
CONSTANTS
  Sinks = {"kitchen", "bath"}
  Ids = {"phone", "tablet"}
  Tokens = {"t1"}
  None = None
  Providers = {"avahi", "bonjour", "pure"}
  CommandCap = 1
  RequestCap = 1
  ResultCap = 1
  MaxRequests = 3
  MaxFound = 2
  MaxCommands = 1
  MaxFailures = 1
INVARIANTS
  TypeOK
  AddressIsCurrent
  ResolverFollows
CHECK_DEADLOCK FALSE
PROPERTIES
  OpenReturns
