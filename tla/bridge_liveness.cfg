SPECIFICATION FairSpec
CONSTANTS
  FrontendIds = {1}
  ServerIds = {1}
  RawIds = {}
  HandlerOutcomes = {"defer", "answer"}
  MaximumFrontends = 2
  FirstFrontendBecomesController = FALSE
  ObserversMayRead = TRUE
  MaxConnections = 2
  MaxGenerations = 2
  MaxRequests = 2
  MaxLocalRequests = 2
PROPERTIES
  NobodyWaitsForEver
CHECK_DEADLOCK FALSE
