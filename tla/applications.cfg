CONSTANTS
  p1 = p1
  p2 = p2
  p3 = p3
  Pids = {p1, p2, p3}
  NoPid = NoPid
  RestartsInCallback = FALSE
  c1 = c1
  c2 = c2
  Connections = {c1, c2}
  NoConnection = NoConnection
  Kinds = {"stdio", "model", "network", "embedded"}
  Transports = {"stream", "websocket"}
  f1 = f1
  f2 = f2
  f3 = f3
  Flows = {f1, f2, f3}
  NoFlow = NoFlow
  MaxLines = 2
  k1 = k1
  k2 = k2
  Clients = {k1, k2}
  s1 = s1
  s2 = s2
  s3 = s3
  Scopes = {s1, s2, s3}
  NoScope = NoScope
  MaximumFrontends = 1
  MaximumResponseBytes = 3
  Calls = {"a", "b"}
  Tools = {"read", "tools.patch"}
  WireNames = {"read", "alias"}
  MaxParts = 6
SPECIFICATION ApplicationSpec
INVARIANTS
  TypesOK
  FramesAreDelivered
  StdioTypeOK
  ChildrenReapedOnce
  SessionIsWhole
  OneConnectionIsHeard
  FailuresEndTheApplication
  FrontendsAreAccountedFor
  ResponsesAreWhole
  ConversationsAreKept
PROPERTIES
  NoChildIsLeft
  ClientIsInControl
  KeepsContract
  ProgramsSettle
CHECK_DEADLOCK FALSE
