SPECIFICATION Spec
CONSTANTS
  FrontendIds = {1}
  ServerIds = {1}
  RawIds = {}
  HandlerOutcomes = {"defer", "answer", "throw", "answerThenThrow"}
  MaximumFrontends = 2
  FirstFrontendBecomesController = TRUE
  ObserversMayRead = TRUE
  MaxConnections = 2
  MaxGenerations = 2
  MaxRequests = 2
  MaxLocalRequests = 3
INVARIANT EveryServerRequestAnsweredOnce
CHECK_DEADLOCK FALSE
