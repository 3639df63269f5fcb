SPECIFICATION Spec
CONSTANTS
  Clients = {"main", "other"}
  Sinks = {"kitchen", "bath"}
  FixedPort = {"bath"}
  Providers = 2
  Bonjours = {0, 1}
  MaxCalls = 5
  MaxFailures = 2
INVARIANTS
  TypeOK
  NetworkAgrees
  OneRecord
PROPERTIES
  CallsReturn
  CallsAreSteps
CHECK_DEADLOCK FALSE
