CONSTANTS
  CallIds = {"call1"}
  Requests = {"r1", "r2"}
  MaximumSessions = 1
  Providers = {"anthropic", "scripted"}
  MaxItems = 2
SPECIFICATION FairSpec
INVARIANTS
  DecodersAgree
  TypeOK
  RunsWhileAwaited
  OneLastCallback
  CompletedIsComplete
PROPERTIES
  SessionLimit
  KeepsProtocol
  SessionsEnd
CHECK_DEADLOCK FALSE
