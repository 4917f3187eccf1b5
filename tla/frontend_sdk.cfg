SPECIFICATION Spec
CONSTANTS
  MaxContexts = 2
  MaxRequests = 2
  MaxGenerations = 2
  MaxInFlight = 2
  MaxRestarts = 1
INVARIANTS
  TypeOK
  CallbacksOnce
  StateOfTheConnection
  TelemetryAgrees
  PendingIsAccountedFor
PROPERTIES
  OtherContextsAreQuiet
\* The contexts and the requests are used up.
CHECK_DEADLOCK FALSE
