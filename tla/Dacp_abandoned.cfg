SPECIFICATION Spec
CONSTANTS
  Sinks = {"kitchen"}
  Ids = {"phone", "tablet"}
  Tokens = {"t1"}
  None = None
  Providers = {"avahi"}
  CommandCap = 1
  RequestCap = 2
  ResultCap = 1
  MaxRequests = 3
  MaxFound = 2
  MaxCommands = 0
  MaxFailures = 0
PROPERTIES
  ResolveIsPending
CHECK_DEADLOCK FALSE
