SPECIFICATION FairSpec
CONSTANTS
  MaxContexts = 2
  MaxRequests = 1
  MaxGenerations = 1
  MaxInFlight = 1
  MaxRestarts = 1
PROPERTIES
  CallersAreAnswered
\* The contexts and the requests are used up.
CHECK_DEADLOCK FALSE
