SPECIFICATION Spec
CONSTANTS
  MaxContexts = 2
  MaxRequests = 1
  MaxGenerations = 1
  MaxInFlight = 1
  MaxRestarts = 0
INVARIANT
  RefusedContextsClose
\* The contexts and the requests are used up.
CHECK_DEADLOCK FALSE
