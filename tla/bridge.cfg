SPECIFICATION Spec
CONSTANTS
  FrontendIds = {1, 2}
  ServerIds = {1}
  RawIds <- MCRawIds
  HandlerOutcomes = {"defer", "answer", "throw"}
  MaximumFrontends = 2
  FirstFrontendBecomesController = TRUE
  ObserversMayRead = TRUE
  MaxConnections = 2
  MaxGenerations = 2
  MaxRequests = 2
  MaxLocalRequests = 3
INVARIANTS
  TypeOK
  RolesAgree
  CorrelationConsistent
  EveryRequestAnsweredOnce
  EveryServerRequestAnsweredOnce
  NothingIsOrphaned
  TelemetryCurrent
  OneHandshakePerGeneration
PROPERTIES
  OwnersAreFinal
  ControlIsRespected
CHECK_DEADLOCK FALSE
